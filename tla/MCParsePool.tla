---------------------------- MODULE MCParsePool -----------------------------
(***************************************************************************)
(* Values for the constants of ParsePool.  The cap is three workers, so    *)
(* that the bounds of resolveWorkerCount are met from every side: a        *)
(* configured count above the cap, above the number of files, and none;    *)
(* one processor gives the sequential path, four the pool.                 *)
(***************************************************************************)
EXTENDS ParsePool

MCFileCounts == 0..3
MCFewFiles   == 0..2
MCConfigured == {-1, 0, 2, 5}
MCProcs      == {1, 4}
=============================================================================
