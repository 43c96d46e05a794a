----------------------------- MODULE MCScanWalk -----------------------------
(***************************************************************************)
(* A tree of eight entries:                                                *)
(*                                                                         *)
(*   1 g/                                                                  *)
(*   2   g/a.md                                                            *)
(*   3   g/out/                                                            *)
(*   4     g/out/b.md                                                      *)
(*   5 g.md           after g/ in the walk, before it by DocumentID        *)
(*   6 sub/                                                                *)
(*   7   sub/g.md     the base name of 5                                   *)
(*   8 sub.md         a symlink                                            *)
(*                                                                         *)
(* with room for three files, so that the cap is met when all four are in. *)
(***************************************************************************)
EXTENDS ScanWalk

CONSTANTS a, b, g, gmd, o, sub, submd

MCParent == <<0, 1, 1, 3, 0, 0, 6, 0>>
MCKind   == <<"dir", "md", "dir", "md", "md", "dir", "md", "link">>
MCName   == <<g, a, o, b, gmd, sub, gmd, submd>>
MCRank   == [n \in {2, 4, 5, 7} |-> CASE n = 5 -> 1 [] n = 2 -> 2 [] n = 4 -> 3 [] n = 7 -> 4]

Rules(ignored, kept) ==
  [n \in 1..8 |-> IF n \in ignored THEN "ignore" ELSE IF n \in kept THEN "keep" ELSE "none"]

MCLocalSets  == {{}, {3, 4}}
MCLocalToo   == {{}, {5}}
MCFileRules  == {Rules({}, {}), Rules({2, 8}, {4})}
MCNoRules    == {Rules({}, {})}
MCNestedSets == {{}, {6}}
MCLargeSets  == {{}, {2}}
MCNone       == {{}}
MCOuts       == {<<"none", 0>>, <<"root", 0>>, <<"inside", 3>>}
MCNoOut      == {<<"none", 0>>}
=============================================================================
