------------------------------- MODULE Scent --------------------------------
(***************************************************************************)
(* ComputeScent (scent.go): authored links whose text does not say where   *)
(* they lead.  A text is a name; what the code reads off its characters is *)
(* given by Texts.                                                         *)
(***************************************************************************)
EXTENDS ReferenceGraph

CONSTANTS
  Texts,   \* text -> [tokens, free, code, pathlike, date, before, after]
  Segment  \* stem of a file -> its identifier segment, "" if it has none

Tokens(t) == Texts[t].tokens

\* Jaccard's index as a fraction.
Overlap(s, t) == [num |-> Cardinality(s \intersect t), den |-> Cardinality(s \union t)]
More(f, g) == f.num * g.den > g.num * f.den

\* LowScentThreshold is one fifth.
Low(f) == 5 * f.num < f.den

\* "file.md S Heading" counts as the heading if it names the target file.
EffectiveAnchor(text, d) ==
  LET mark == Texts[text] IN
  IF mark.after = "" \/ Tokens(mark.after) = {} THEN text
  ELSE IF mark.before \in {"", Base(Path(d)).stem} THEN mark.after ELSE text

\* A link to a section is held to that section.
ScentCandidates(d, slug) ==
  IF slug = "" THEN <<Title(d)>> \o HeadingTexts(d)
  ELSE IF HeadingTextBySlug(d, slug) # "" THEN <<HeadingTextBySlug(d, slug), Title(d)>>
  ELSE <<Title(d)>>

\* The best candidate, the first of equals; without one, the first text.
ScentScore(anchor, cands) ==
  LET scored == {i \in DOMAIN cands : Tokens(cands[i]) # {}}
      Of(i)  == Overlap(Tokens(anchor), Tokens(cands[i]))
      best   == CHOOSE i \in scored :
                  \A k \in scored : /\ ~More(Of(k), Of(i))
                                    /\ k < i => More(Of(i), Of(k))
  IN  IF Texts[anchor].free \/ Tokens(anchor) = {} \/ scored = {}
      THEN [score |-> [num |-> 0, den |-> 1], suggestion |-> Head(cands)]
      ELSE [score |-> Of(best), suggestion |-> cands[best]]

\* "ADR 0010" for 0010-x.md, but not "adr/0010-x.md".
NamesTargetIdentifier(text, d) ==
  LET segment == Segment[Base(Path(d)).stem] IN
  segment # "" /\ segment \in Tokens(text) /\ ~Texts[text].pathlike

Scored(e) == ScentScore(EffectiveAnchor(e.text, e.to[1]), ScentCandidates(e.to[1], e.to[2]))

ComputeScent ==
  {[source |-> e.from[1], target |-> e.to, line |-> e.line, text |-> e.text,
    suggestion |-> Scored(e).suggestion, score |-> Scored(e).score] :
     e \in {f \in graph.edges :
              /\ f.kind = "reference" /\ f.type \in config.navTypes
              /\ f.line > 0
              /\ ~Texts[f.text].code /\ Low(Scored(f).score)
              /\ ~NamesTargetIdentifier(f.text, f.to[1])}}
=============================================================================
