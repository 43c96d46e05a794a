---------------------------- MODULE MCRootSearch ----------------------------
(***************************************************************************)
(* Every projection of four documents, with no root, one, or two.          *)
(***************************************************************************)
EXTENDS RootSearch

MCDocs            == 1..4
MCRootSets        == {{}, {2}, {1, 4}}
MCIntentionalSets == {{}, {3}}
=============================================================================
