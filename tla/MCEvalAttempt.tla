--------------------------- MODULE MCEvalAttempt ---------------------------
(***************************************************************************)
(* One attempt has no size to bound: the instances differ in what may go   *)
(* wrong.                                                                  *)
(***************************************************************************)
EXTENDS EvalAttempt
=============================================================================
