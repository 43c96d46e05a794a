----------------------------- MODULE ParseStage -----------------------------
(***************************************************************************)
(* What Pipeline.parseFiles promises its caller, without workers, channels *)
(* or an order of completion (internal/application/parse.go, the comment   *)
(* above parseFiles).                                                      *)
(*                                                                         *)
(* The stage is called once.  It answers once: with one result per scanned *)
(* file, in the order of the document identities, each saying what reading *)
(* and parsing that file gives; or with the cancellation error, and that   *)
(* only if the caller's context was canceled.                              *)
(***************************************************************************)
EXTENDS Naturals

VARIABLES
  files,       \* scanned files: position in the scan -> rank of its DocumentID
  unreadable,  \* ranks of the files os.ReadFile fails on
  ctxDone,     \* the caller's context is canceled
  ret          \* what parseFiles returned

vars == <<files, unreadable, ctxDone, ret>>

Pending  == [kind |-> "none"]
Canceled == [kind |-> "canceled"]

\* What parsing the file of rank k gives when nobody cancels.
Truth(k) == IF k \in unreadable THEN "readError" ELSE "doc"

\* The answer every worker count must give.
Answer ==
  [kind |-> "ok",
   out  |-> [k \in DOMAIN files |-> [id |-> k, outcome |-> Truth(k)]]]

Init == ~ctxDone /\ ret = Pending

Cancel  == ~ctxDone /\ ctxDone' = TRUE /\ UNCHANGED <<files, unreadable, ret>>

Deliver == ret = Pending /\ ret' = Answer /\ UNCHANGED <<files, unreadable, ctxDone>>

Abort   == /\ ret = Pending /\ ctxDone
           /\ ret' = Canceled
           /\ UNCHANGED <<files, unreadable, ctxDone>>

Next == Cancel \/ Deliver \/ Abort

Spec == Init /\ [][Next]_vars /\ WF_vars(Deliver \/ Abort)
=============================================================================
