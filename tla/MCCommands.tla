----------------------------- MODULE MCCommands -----------------------------
(***************************************************************************)
(* Three documents, of which 1 is the root, 2 has an onboarding name and 3 *)
(* has no front matter and matches emitExclude; references with a path, a  *)
(* wikilink with two matches, a link to nothing, a URL, or none.           *)
(***************************************************************************)
EXTENDS Commands

Ref(from, kind, to) == [from |-> from, kind |-> kind, to |-> to]

MCDocs     == 1..3
MCRoots    == {1}
MCUntyped  == {3}
MCExcluded == {3}
MCNotable  == {2}
Tree(n) ==
  {CASE n = 1 -> {Ref(1, "path", {2}), Ref(2, "wiki", {1, 3}), Ref(2, "url", {})}
     [] n = 2 -> {Ref(1, "path", {2}), Ref(2, "path", {3}), Ref(3, "path", {}), Ref(3, "url", {})}
     [] n = 3 -> {Ref(1, "wiki", {2}), Ref(2, "path", {3}), Ref(3, "path", {1})}}

MCRefSets == UNION {Tree(n) : n \in 1..3}

Invocation(name, flags, kind, usage, artifacts, bodies, trees) ==
  [name |-> name, flags |-> flags, file |-> kind, becomes |-> {}, usage |-> usage,
   quiet |-> FALSE, artifacts |-> artifacts, bodies |-> bodies, trees |-> trees]

\* While the command starts the file may become one of the kinds.
Edited(i, kinds) == [i EXCEPT !.becomes = kinds]

Plain == [strict |-> FALSE, okf |-> FALSE, external |-> FALSE, out |-> FALSE, pool |-> TRUE]
Out   == [Plain EXCEPT !.out = TRUE]

\* Every flag of check; what can go wrong before the run, for one command each; a
\* file that changes while the command starts; the bundle and single artifacts, on the
\* disk or printed; and the server.
MCInvocations ==
  {Invocation("check", f, "absent", "ok", 0, {},
              IF f.out = f.external THEN MCRefSets ELSE Tree(2)) : f \in Command}
  \union {Invocation("check", Plain, kind, "ok", 0, {}, Tree(3)) :
            kind \in {"unreadable", "wrong", "empty"}}
  \union {Edited(Invocation("check", Plain, kind, "ok", 0, {}, Tree(3)),
                 {"absent", "unreadable", "wrong", "empty", "valid"}) :
            kind \in {"absent", "skipped", "valid_okf"}}
  \union {Invocation(x[1], Plain, "valid", x[2], 0, {}, Tree(3)) :
            x \in {<<"fixprompt", "early">>, <<"emit", "late">>, <<"graph", "after">>}}
  \union {Edited(Invocation("emit", Out, "valid", "ok", 3, {"full", "small"}, Tree(3)),
                 {"absent"})}
  \union {Invocation("report", [Out EXCEPT !.external = TRUE], "absent", "ok", 1, {}, Tree(2)),
          Invocation("matlatl", Plain, "absent", "ok", 0, {}, Tree(1))}
  \union {Invocation("serve", [Plain EXCEPT !.okf = TRUE], kind, "ok", 0, {}, Tree(3)) :
            kind \in {"absent", "wrong"}}
=============================================================================
