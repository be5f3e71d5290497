----------------------------- MODULE LineageInv -----------------------------
(***************************************************************************)
(* The inductive invariant of Lineage, with the load command or without.   *)
(***************************************************************************)
EXTENDS Load

Ops == {"none", "publish", "rebase"}
Phases == {"idle", "tiers", "check", "record"}
Outcomes == {"none", "ok", "error"}

(* Requests whose structured fields are in F, whatever they hold. *)
Requests(F) ==
    [op : Ops, ph : Phases, s : 0..NumSchemas, files : F, v : Nat, deps : F,
     chain : F, tiers : Seq(F), fds : F, calm : BOOLEAN, out : Outcomes]

(* The variables have the shape that Append and EXCEPT expect. *)
Shape(F) ==
    /\ log \in [Schemas -> Seq(F)]
    /\ current \in [Schemas -> Nat] /\ staged \in [Schemas -> Nat]
    /\ memCurrent \in [Schemas -> F] /\ memStaged \in [Schemas -> F]
    /\ pub \in [Procs -> Requests(F)]

Shaped == \E F : Shape(F)

(* The stored versions, by number. *)
Numbers(s) == 1..Len(log[s])

(* Rows that point at versions, and versions in memory that are theirs. *)
PointersOK ==
    \A s \in Schemas :
        /\ current[s] # 0 => current[s] \in Numbers(s) /\ <<s, current[s]>> \in promoted
        /\ staged[s] # 0 => staged[s] \in Numbers(s)
        /\ memStaged[s] # NoSnap =>
              /\ memStaged[s].v = staged[s] /\ staged[s] # 0
              /\ memStaged[s].fds = log[s][staged[s]].fds
        /\ memCurrent[s] # NoSnap =>
              /\ memCurrent[s].v \in Numbers(s)
              /\ <<s, memCurrent[s].v>> \in promoted
              /\ log[s][memCurrent[s].v].cv = binary =>
                    memCurrent[s].fds = log[s][memCurrent[s].v].fds

(* What a handler has gathered: siblings from the namespace, and of other  *)
(* namespaces only what has been promoted.  Its number was the next one.   *)
HandlerOK(r) ==
    r.ph # "idle" =>
        /\ r.s \in Schemas
        /\ r.v <= Len(log[r.s]) + 1
        /\ \A d \in r.deps : Home[d.s] = Home[r.s]
        /\ \A i \in 1..Len(r.tiers) : \A d \in r.tiers[i] : <<d.s, d.v>> \in promoted

IInv ==
    /\ Shaped
    /\ PointersOK
    /\ \A p \in Procs : HandlerOK(pub[p])
    /\ AncestorPinsPromoted
=============================================================================
