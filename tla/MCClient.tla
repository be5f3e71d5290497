------------------------------ MODULE MCClient ------------------------------
(***************************************************************************)
(* Small instances of Client: two schemas with two versions each.  File    *)
(* "m" is in version 1 of the first and moves to version 2 of the second,  *)
(* so a promotion of one without the other makes names collide.            *)
(***************************************************************************)
EXTENDS Client

MCFiles == <<<<{"a", "m"}, {"a"}>>, <<{"b"}, {"b", "m"}>>>>

MCOneAncestor == <<"parent">>
MCTwoAncestors == <<"parent", "grandparent">>
=============================================================================
