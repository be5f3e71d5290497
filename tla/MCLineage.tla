----------------------------- MODULE MCLineage -----------------------------
(* An organisation, a team below it, and the built-ins. *)
EXTENDS Load, TLC

MCNamespaces == {"org", "team", "builtins"}
MCHome == <<"org", "team", "team", "builtins">>
MCStart == [n \in MCNamespaces |-> IF n = "team" THEN "org" ELSE None]

MCMoves == {[n |-> "team", to |-> None]}

MCPaths == {"a", "c", "d", "g", "n/m", "x"}

MCDefines ==
    [a1 |-> {"T"}, a2 |-> {"T", "U"}, c1 |-> {"C"}, d1 |-> {"D"}, d2 |-> {"D", "U"},
     g1 |-> {"G"}, m1 |-> {"M"}, x1 |-> {"X"}]

MCImports ==
    [a1 |-> {}, a2 |-> {"g"}, c1 |-> {"a", "d"}, d1 |-> {}, d2 |-> {},
     g1 |-> {}, m1 |-> {}, x1 |-> {"x"}]

One(f, t) == [x \in {f} |-> t]

MCSeed == {[s |-> 1, files |-> One("a", "a1")], [s |-> 4, files |-> One("g", "g1")]}

MCUploads ==
    {[s |-> 1, files |-> One("a", "a2")],
     [s |-> 3, files |-> One("d", "d2")],
     [s |-> 3, files |-> One("d", "d1") @@ One("a", "a1")]}

MCDir ==
    <<[f |-> "c", t |-> "c1", s |-> 2], [f |-> "d", t |-> "d1", s |-> 3],
      [f |-> "n/m", t |-> "m1", s |-> 0], [f |-> "x", t |-> "x1", s |-> 0]>>
=============================================================================
