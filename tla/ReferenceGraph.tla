--------------------------- MODULE ReferenceGraph ---------------------------
(***************************************************************************)
(* BuildReferenceGraph (graphmodel.go): documents and sections as nodes,   *)
(* a contains tree per document, an edge per resolved link, and the        *)
(* projection on documents all analyses read; and BuildHierarchyTree       *)
(* (hierarchy.go).  Edges that differ in nothing are one.                  *)
(***************************************************************************)
EXTENDS Resolver

VARIABLES
  refs,   \* the resolved references
  graph   \* nodes, edges, and the projection in both directions

DocNode(d) == <<d, "">>
SectionNode(d, slug) == <<d, slug>>

GraphNodes ==
  UNION {{DocNode(d)} \union {SectionNode(d, s) : s \in Headings(d)} : d \in Docs}

\* The nearest ancestor with a slug, else the document.
ContainsParent(d, i) ==
  LET sections == Sections(d)
      up[k \in 0..Len(sections)] ==
        IF k = 0 THEN DocNode(d)
        ELSE IF sections[k].slug # "" THEN SectionNode(d, sections[k].slug)
        ELSE up[sections[k].up]
  IN  up[sections[i].up]

Edge(from, to, kind, type, text, line) ==
  [from |-> from, to |-> to, kind |-> kind, type |-> type, text |-> text, line |-> line]

ContainsTree(d) ==
  {Edge(ContainsParent(d, i), SectionNode(d, Sections(d)[i].slug), "contains", "", "", 0) :
     i \in {k \in DOMAIN Sections(d) : Sections(d)[k].slug # ""}}

-----------------------------------------------------------------------------
(* Reference edges.                                                        *)

\* The last section, in document order, whose lines hold this one; 0 if none.
ContainingSection(d, line) ==
  LET at == {i \in DOMAIN Sections(d) :
               Sections(d)[i].from <= line /\ line <= Sections(d)[i].to} IN
  IF at = {} THEN 0 ELSE Max(at)

OriginNode(raw) ==
  LET i == ContainingSection(raw.origin, raw.line) IN
  IF raw.line <= 0 \/ i = 0 THEN DocNode(raw.origin)
  ELSE SectionNode(raw.origin, Sections(raw.origin)[i].slug)

ReferenceEdge(ref) ==
  LET to == IF ref.target.kind = "section"
            THEN SectionNode(ref.target.doc, ref.target.anchor)
            ELSE DocNode(ref.target.doc)
  IN  Edge(OriginNode(ref.raw), to, "reference", ref.raw.type, ref.raw.text, ref.raw.line)

\* addDirectoryEdges: the index only, if links to directories are strict.
DirectoryEdges(ref) ==
  LET to == IF config.strictDirs THEN {ref.target.doc} \ {0} ELSE ref.target.children
  IN  {Edge(OriginNode(ref.raw), DocNode(d), "reference", ref.raw.type, "", 0) : d \in to}

\* addReferenceEdge: one edge, several (a directory), or none.
AddReferenceEdge(ref) ==
  IF ref.health # "valid" THEN {}
  ELSE IF ref.target.kind = "directory" THEN DirectoryEdges(ref)
  ELSE {ReferenceEdge(ref)}

\* Mutant of Projection: links of a document to itself stay.
ProjectionWithLoops(edges) ==
  {<<e.from[1], e.to[1]>> :
     e \in {f \in edges : f.kind = "reference" /\ f.type \in config.navTypes}}

\* buildProjection: navigational links between two different documents.
Projection(edges) ==
  {<<e.from[1], e.to[1]>> :
     e \in {f \in edges : /\ f.kind = "reference" /\ f.type \in config.navTypes
                          /\ f.from[1] # f.to[1]}}

BuildReferenceGraph(resolved) ==
  LET edges == (UNION {ContainsTree(d) : d \in Docs})
                 \union (UNION {AddReferenceEdge(r) : r \in resolved})
      links == Projection(edges)
  IN  [nodes |-> GraphNodes, edges |-> edges,
       out |-> [d \in Docs |-> {e \in Docs : <<d, e>> \in links}],
       in  |-> [d \in Docs |-> {e \in Docs : <<e, d>> \in links}]]

\* undirectedNeighbours.
Neighbours(d) == graph.out[d] \union graph.in[d]

-----------------------------------------------------------------------------
(* The hierarchy: a front-matter parent, relative to the document and then *)
(* to the root, else the index of the document's directory.                *)

Named(path) == {d \in Docs : Path(d) = path}

\* 0 is no parent.
ResolveParent(d) ==
  LET parent   == corpus[d].parent
      relative == Named(Clean(Dir(Path(d)) \o parent))
      rooted   == Named(parent) IN
  IF parent # <<>> /\ relative # {} THEN CHOOSE p \in relative : TRUE
  ELSE IF parent # <<>> /\ rooted # {} THEN CHOOSE p \in rooted : TRUE
  ELSE IF IndexOf(Dir(Path(d))) # d THEN IndexOf(Dir(Path(d)))
  ELSE 0

BuildHierarchyTree ==
  [roots    |-> {d \in Docs : ResolveParent(d) \in {0, d}},
   children |-> [p \in Docs |-> {d \in Docs : ResolveParent(d) = p /\ d # p}]]
=============================================================================
