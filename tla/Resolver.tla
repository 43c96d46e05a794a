------------------------------ MODULE Resolver ------------------------------
(***************************************************************************)
(* Resolver.Resolve (internal/domain/reference/resolver.go): a raw         *)
(* reference becomes a reference with a target and a health.  A raw        *)
(* reference is a record: origin, type, abs (the target starts with one    *)
(* slash), target (a path), frag, line and text.                           *)
(***************************************************************************)
EXTENDS Corpus

NoTarget == [kind |-> "none", doc |-> 0, anchor |-> "", dir |-> <<>>, children |-> {}]

Ref(raw, target, health) ==
  [raw |-> raw, target |-> target, health |-> health, candidates |-> {}]

Broken(raw) == Ref(raw, NoTarget, "broken")

RefAmbiguous(raw, docs) == [Ref(raw, NoTarget, "ambiguous") EXCEPT !.candidates = docs]

ToDocument(d) == [NoTarget EXCEPT !.kind = "document", !.doc = d]

ResolveFragment(raw, d) ==
  LET kind == AnchorKind(d, raw.frag) IN
  IF kind = "none"
  THEN Ref(raw, [NoTarget EXCEPT !.kind = "section", !.doc = d], "broken-anchor")
  ELSE Ref(raw, [NoTarget EXCEPT !.kind = kind, !.doc = d, !.anchor = raw.frag], "valid")

WithAnchor(raw, d) ==
  IF raw.frag = "" THEN Ref(raw, ToDocument(d), "valid") ELSE ResolveFragment(raw, d)

ResolveAnchorOnly(raw) ==
  IF raw.frag = "" THEN Broken(raw) ELSE ResolveFragment(raw, raw.origin)

-----------------------------------------------------------------------------
(* Directories: a path is one if a document lives directly in it.          *)

ChildrenOf(dir) == {d \in Docs : Dir(Path(d)) = dir}

\* The lowest index document, 0 if there is none.
IndexOf(dir) ==
  LET index == {d \in ChildrenOf(dir) : IsDirectoryIndex(Base(Path(d)))} IN
  IF index = {} THEN 0 ELSE Min(index)

ResolveDirectory(raw, dir) ==
  Ref(raw, [NoTarget EXCEPT !.kind = "directory", !.dir = dir,
                            !.doc = IndexOf(dir), !.children = ChildrenOf(dir)], "valid")

-----------------------------------------------------------------------------
(* Relative and root-absolute links.                                       *)

ContentRootOf(d) == {r \in config.contentRoots : IsStrictPrefix(r, Path(d))}

\* Mutant of ResolveInRoot: the content root is put in front before the check.
ResolveInContentRoot(raw) ==
  IF raw.abs
  THEN LET roots == ContentRootOf(raw.origin) IN
       IF roots = {} THEN Clean(raw.target) ELSE Clean((CHOOSE r \in roots : TRUE) \o raw.target)
  ELSE Clean(Dir(Path(raw.origin)) \o raw.target)

\* resolveInRoot; a path that escapes (the empty one does) is refused.
ResolveInRoot(raw) ==
  IF raw.abs
  THEN LET path == Clean(raw.target)
           roots == ContentRootOf(raw.origin) IN
       IF EscapesRoot(path) \/ roots = {} THEN path
       ELSE (CHOOSE r \in roots : TRUE) \o path
  ELSE Clean(Dir(Path(raw.origin)) \o raw.target)

ResolveRelative(raw) ==
  LET path == ResolveInRoot(raw)
      known == {d \in Docs : Path(d) = path} IN
  IF raw.target = <<>> /\ ~raw.abs THEN ResolveAnchorOnly(raw)
  ELSE IF EscapesRoot(path) THEN Broken(raw)
  ELSE IF known # {} THEN WithAnchor(raw, CHOOSE d \in known : TRUE)
  ELSE IF ChildrenOf(path) # {} THEN ResolveDirectory(raw, path)
  ELSE IF ~IsMarkdown(path) /\ path \in config.assets
  THEN Ref(raw, [NoTarget EXCEPT !.kind = "asset", !.dir = path], "non-note")
  ELSE Broken(raw)

-----------------------------------------------------------------------------
(* Wikilinks and transclusions: by policy, then alias, then directory.     *)

\* targetForms: as written, and with ".md" if that is not markdown already.
\* (A document called a.png.md would need a longer stem; no input has one.)
TargetForms(target) ==
  LET path == Clean(target) IN
  IF EscapesRoot(path) THEN {}
  ELSE IF Base(path).ext = ""
  THEN {path, Append(Front(path), [stem |-> Base(path).stem, ext |-> ".md"])}
  ELSE {path}

ExactMatches(forms) == {d \in Docs : Path(d) \in forms}

BasenameMatches(forms) == {d \in Docs : Base(Path(d)) \in {Base(f) : f \in forms}}

\* longestSuffixMatches: a match has the length of the form it matches, and all
\* forms of a target have one length, so that none is longer than another.
LongestSuffixMatches(forms) == {d \in Docs : \E f \in forms : IsSuffix(f, Path(d))}

MatchCandidates(target, policy) ==
  LET forms == TargetForms(target) IN
  IF policy = "exact" THEN ExactMatches(forms)
  ELSE IF policy = "basename" THEN BasenameMatches(forms)
  ELSE LongestSuffixMatches(forms)

ResolveWikilink(raw) ==
  LET found == MatchCandidates(raw.target, config.policy)
      candidates == IF found = {} THEN LookupAlias(raw.target) ELSE found
      path == Clean(raw.target) IN
  IF raw.target = <<>> THEN ResolveAnchorOnly(raw)
  ELSE IF Cardinality(candidates) = 1 THEN WithAnchor(raw, CHOOSE d \in candidates : TRUE)
  ELSE IF candidates # {} THEN RefAmbiguous(raw, candidates)
  ELSE IF ~EscapesRoot(path) /\ ChildrenOf(path) # {} THEN ResolveDirectory(raw, path)
  ELSE Broken(raw)

Resolve(raw) ==
  CASE raw.type = "external" -> Ref(raw, [NoTarget EXCEPT !.kind = "external"], "external")
    [] raw.type = "anchor"   -> ResolveAnchorOnly(raw)
    [] raw.type \in {"wikilink", "transclusion"} -> ResolveWikilink(raw)
    [] raw.type \in {"link", "image", "related"} -> ResolveRelative(raw)

ResolveAll == {Resolve(raw) : raw \in raws}
=============================================================================
