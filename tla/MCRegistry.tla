----------------------------- MODULE MCRegistry -----------------------------
(***************************************************************************)
(* Small instances of Registry over the rules of Compat.  Two contents are *)
(* enough to tell apart a compatible change (Base to Extended), a breaking *)
(* one (Extended to Base) and a re-publication of what is already there.   *)
(***************************************************************************)
EXTENDS Registry, Compat, TLC

Field(name, kind, card, type) == [name |-> name, kind |-> kind, card |-> card, type |-> type]

Id == Field("id", "int64", "optional", << >>)
State == Field("state", "enum", "optional", <<"pkg", "M", "E">>)
Sub == Field("sub", "message", "repeated", <<"pkg", "N">>)

Method(input, output) == [input |-> <<"pkg", input>>, output |-> <<"pkg", output>>]

(* A file with message M, its nested enum E, message N and service S. *)
File(fields, oneofs, numbers, methods) ==
    [package |-> <<"pkg">>,
     messages |-> (<<"M">> :> [fields |-> fields, oneofs |-> oneofs])
               @@ (<<"N">> :> [fields |-> << >>, oneofs |-> {}]),
     enums |-> <<"M", "E">> :> numbers,
     services |-> "S" :> methods]

Snap(fields, oneofs, numbers, methods) ==
    "f.proto" :> File(fields, oneofs, numbers, methods)

Base == Snap(1 :> Id @@ 2 :> State, {}, {0, 1}, "Get" :> Method("M", "N"))
Extended == Snap(1 :> Id @@ 2 :> State @@ 3 :> Sub, {"o"}, {0, 1, 2},
                 "Get" :> Method("M", "N") @@ "Put" :> Method("N", "M"))

MCSnap == [base |-> Base, extended |-> Extended]
MCContents == DOMAIN MCSnap
MCCompatible ==
    {pair \in MCContents \X MCContents : Check(MCSnap[pair[1]], MCSnap[pair[2]])}

(* Base and Extended, and Base with one thing changed: a field, its kind,  *)
(* name, cardinality or type, the enum, a oneof, a method, the file.       *)
Variants ==
    LET get == "Get" :> Method("M", "N")
        two(a, b) == 1 :> a @@ 2 :> b
    IN  {Base, Extended,
         Snap(1 :> Id, {}, {0, 1}, get),
         Snap(two([Id EXCEPT !.kind = "string"], State), {}, {0, 1}, get),
         Snap(two([Id EXCEPT !.name = "key"], State), {}, {0, 1}, get),
         Snap(two([Id EXCEPT !.card = "repeated"], State), {}, {0, 1}, get),
         Snap(two(Id, [State EXCEPT !.type = <<"pkg", "E">>]), {}, {0, 1}, get),
         Snap(two(Id, State), {}, {0}, get),
         Snap(two(Id, State), {"o"}, {0, 1}, get),
         Snap(two(Id, State), {}, {0, 1}, "Get" :> Method("N", "N")),
         Snap(two(Id, State), {}, {0, 1}, "Put" :> Method("M", "N")),
         "g.proto" :> Base["f.proto"]}

(* Contents that the rules let one of the variants replace although data   *)
(* is lost.                                                                *)
Misjudged ==
    {c \in MCContents : \E snap \in Variants :
        Check(MCSnap[c], snap) /\ ~ReadsBack(MCSnap[c], snap)}

(* Whatever is current, no snapshot that compat.Check would let replace it *)
(* makes data unreadable that was written under it.                        *)
RulesSound ==
    \A s \in Schemas : current[s] # 0 => versions[s][current[s]] \notin Misjudged

(* Consumers' data survives a promotion that nobody forced, as long as the *)
(* server that staged the versions has not been restarted: what was        *)
(* written under the replaced version reads back under the new one.  Step  *)
(* by step through Promote's check loop, the store's promotion and         *)
(* whatever is staged by then.                                             *)
PromotionsReadBack ==
    [][\A s \in Schemas :
          ~restarted /\ current'[s] # current[s] /\ current[s] # 0 /\ ~waived[s] =>
              ReadsBack(MCSnap[versions[s][current[s]]],
                        MCSnap[versions[s][staged[s]]])]_vars

(* The history variables never decide a step; runs whose properties do not *)
(* mention them leave them out of the state.                               *)
MCView == <<dbVars, memVars, req>>

MCSymmetry == Permutations(Procs) \cup Permutations(Schemas)
=============================================================================
