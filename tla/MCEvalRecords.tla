--------------------------- MODULE MCEvalRecords ---------------------------
(***************************************************************************)
(* Two processes.  Those that verify have a suite of three tasks, for the  *)
(* two places of the semaphore: a case that should pass, one that should   *)
(* fail, and one more; the others share the disk, or a result root.        *)
(***************************************************************************)
EXTENDS EvalRecords

MCTasks  == 1..3
MCExpect == <<<<TRUE>>, <<FALSE>>, <<TRUE>>>>
MCImages == 1..2

MCProcs == {"p", "q"}
Pair(a, b) == [x \in MCProcs |-> IF x = "p" THEN a ELSE b]

Script(pair, tasks, edits0, crashes0, images, freeze, root) ==
  [cmd |-> pair, tasks |-> tasks, edits |-> edits0, crashes |-> crashes0,
   audited |-> images, frozen |-> freeze,
   results |-> root.results, trajectories |-> root.trajectories]

(* A result root: empty; or three attempts of one schedule or of two, with *)
(* any parents, one of them missing, and two statuses, of which one may be *)
(* retried.                                                                *)

MCAttempts  == {"1", "2", "3", "smoke"}
MCSchedules == {"r", "other", "smoke"}
NoRecord == [a \in Attempts |-> Absent]
Empty    == [results |-> NoRecord, trajectories |-> NoRecord]

Number == [a \in Attempts |-> IF a = "1" THEN 1 ELSE IF a = "2" THEN 2 ELSE 3]

Root(run, status, parent) ==
  [results |-> [a \in Attempts |->
     IF a = "smoke" THEN Absent
     ELSE [run |-> run[a], attempt |-> Number[a], status |-> status[a], parent |-> parent[a]]],
   trajectories |-> [a \in Attempts |-> IF a = "smoke" THEN Absent ELSE [run |-> run[a]]]]

Three == Attempts \ {"smoke"}
Runs  == {[a \in Three |-> "r"], [a \in Three |-> IF a = "1" THEN "other" ELSE "r"]}
Roots == {Root(r, s, q) : r \in Runs, s \in [Three -> {"completed", "mcp-failure"}],
                          q \in [Three -> Attempts \union {"none"}]}

Frozen == [suite |-> <<0, 0>>, image |-> 1]

MCVerifyOnly == {Script(Pair("verify", "none"), {2}, 0, 0, 1, Frozen, Empty)}

MCScripts ==
  {Script(Pair("verify", "none"), MCTasks, 0, 0, 1, Frozen, Empty)}
  \union {Script(Pair("verify", q), {2}, 1, 1, 1, Frozen, Empty) : q \in {"freeze --write", "probe"}}
  \union {Script(Pair("freeze --write", q), {}, 2, 1, a, f, Empty) :
            q \in {"freeze --write", "freeze", "inspect-images"}, a \in {Absent, 1},
            f \in {Absent, Frozen}}
  \union {Script(Pair("inspect-images", "inspect-images"), {}, 0, 1, Absent, Absent, Empty)}
  \union {Script(Pair("smoke", q), {}, 0, 1, 1, Frozen, Empty) : q \in {"smoke", "report", "validate"}}
  \union {Script(Pair("report", "none"), {}, 0, 0, 1, Frozen, r) : r \in Roots}
=============================================================================
