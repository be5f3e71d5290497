---------------------------- MODULE SchemaStore ----------------------------
(***************************************************************************)
(* What the persistent store promises its callers about the schemas of one *)
(* namespace (store/store.go, the Store interface): version rows are only  *)
(* ever appended, staging points at a stored version, and a promotion or a *)
(* discard takes effect for a set of schemas in one step.  The module says *)
(* nothing of requests, memory or crashes; Registry implements it.         *)
(***************************************************************************)
EXTENDS Naturals, Sequences

CONSTANTS Schemas,      \* the schema IDs of one namespace
          Contents      \* what a source set can be, up to its fingerprint

VARIABLES versions,     \* versions[s][v]: what version v of schema s holds
          current,      \* current_version of the schemas row, 0 for NULL
          staged        \* staged_version of the schemas row, 0 for NULL

storeVars == <<versions, current, staged>>

Init ==
    /\ versions = [s \in Schemas |-> << >>]
    /\ current = [s \in Schemas |-> 0]
    /\ staged = [s \in Schemas |-> 0]

(* Store.PutVersion: the row takes the number after the last one. *)
AddVersion(s, c) ==
    /\ versions' = [versions EXCEPT ![s] = Append(@, c)]
    /\ UNCHANGED <<current, staged>>

(* Store.SetStaged: only a version that is stored can be staged. *)
Stage(s, v) ==
    /\ staged' = [staged EXCEPT ![s] = v]
    /\ UNCHANGED <<versions, current>>

(* Store.Promote: all the schemas of S move together. *)
Promote(S) ==
    /\ current' = [s \in Schemas |-> IF s \in S THEN staged[s] ELSE current[s]]
    /\ staged' = [s \in Schemas |-> IF s \in S THEN 0 ELSE staged[s]]
    /\ UNCHANGED versions

(* Store.DiscardStaging. *)
Discard(S) ==
    /\ staged' = [s \in Schemas |-> IF s \in S THEN 0 ELSE staged[s]]
    /\ UNCHANGED <<versions, current>>

StagedSchemas == {s \in Schemas : staged[s] # 0}

Next ==
    \/ \E s \in Schemas, c \in Contents : AddVersion(s, c)
    \/ \E s \in Schemas : \E v \in 1..Len(versions[s]) : Stage(s, v)
    \/ \E S \in SUBSET StagedSchemas : Promote(S) \/ Discard(S)

Spec == Init /\ [][Next]_storeVars
=============================================================================
