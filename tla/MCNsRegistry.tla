---------------------------- MODULE MCNsRegistry ----------------------------
(***************************************************************************)
(* A small instance of NsRegistry: four paths over the packages a, a.b and *)
(* a.b.c, one path with two contents in different packages, a file whose   *)
(* message is named like a package, and types that compete for a name or   *)
(* for an extension number.  The parent has an f1 with another M, and      *)
(* extensions whose names or numbers are also used here.                   *)
(***************************************************************************)
EXTENDS NsRegistry

MCParts == {"a", "b", "c", "m", "old", "K", "M", "N", "P"}

(* Every message has a member m, and b one named like a package. *)
File(path, pkg, last) ==
    [path |-> path, pkg |-> pkg, names |-> {Append(pkg, n) : n \in last},
     nested |-> {pkg \o <<n, IF n = "b" THEN "c" ELSE "m">> : n \in last}]

MCFileDescs ==
    {File("f1", <<"a">>, {"M"}), File("f1", <<"a">>, {"N"}),
     File("f1", <<"a", "b">>, {"M"}),
     File("f2", <<"a", "b">>, {"M", "N"}), File("f2", <<"a", "b">>, {"K"}),
     File("f3", <<"a", "b", "c">>, {"M"}),
     File("f4", <<"a">>, {"b"}), File("f4", << >>, {"a"})}

MCParentFiles ==
    {[path |-> "f1", pkg |-> <<"a">>, names |-> {<<"a", "M">>, <<"a", "P">>},
      nested |-> {<<"a", "M", "m">>, <<"a", "M", "old">>}]}

Type(kind, name, num) ==
    [kind |-> kind, name |-> name, on |-> IF num = 0 THEN "none" ELSE "Msg", num |-> num]

MCTypeDescs ==
    {Type("message", "t", 0), Type("enum", "t", 0), Type("enum", "u", 0),
     Type("extension", "x", 1), Type("extension", "x", 2),
     Type("extension", "y", 1), Type("extension", "t", 2)}

MCParentTypes ==
    {Type("message", "u", 0), Type("extension", "x", 2), Type("extension", "z", 1)}
=============================================================================
