---------------------------- MODULE MCLinkCheck -----------------------------
(***************************************************************************)
(* Three URLs, two of them on one host, in a list with a duplicate.  The   *)
(* configurations cover the semaphore at its limit (one and two in flight) *)
(* and off it, the default, the smallest and no redirect, and the limiter  *)
(* at its default and off.                                                 *)
(***************************************************************************)
EXTENDS LinkCheck

CONSTANTS alpha, beta

MCHosts  == {alpha, beta}
MCHostOf == <<alpha, alpha, beta>>
MCInputs == {<<3, 1, 2, 1>>}

Conf(c, m, p) == [concurrency |-> c, maxRedirects |-> m, perHostInterval |-> p]

MCConfigs == {Conf(2, 1, 0), Conf(1, 0, -1), Conf(0, -1, -1)}
=============================================================================
