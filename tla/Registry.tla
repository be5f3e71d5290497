------------------------------ MODULE Registry ------------------------------
(***************************************************************************)
(* The registry core (registry.go) over one namespace: the Postgres rows   *)
(* of its schemas, the in-memory slots consumers read, and any number of   *)
(* request handlers that run concurrently.  A handler is a sequence of     *)
(* store calls and atomic pointer operations with no lock around them, so  *)
(* each call is a step of its own and handlers interleave between calls.   *)
(*                                                                         *)
(* A source set is a member of Contents: two requests have the same        *)
(* member exactly when compiler.ComputeFingerprint agrees.  The verdict of *)
(* compat.Check is the relation Compatible.                                *)
(***************************************************************************)
EXTENDS Naturals, FiniteSets

CONSTANTS Schemas,        \* schema IDs of the namespace
          Contents,       \* source sets, up to fingerprint
          Compatible,     \* <<old, new>> pairs compat.Check accepts
          Procs,          \* request handlers (gRPC server goroutines)
          None,           \* no schema, no content
          MaxVersion,     \* bound: no publish starts once this many rows exist
          MayCrash,       \* the server process may stop and start again
          MayLoseReply    \* a store write may commit and yet report an error

ASSUME RegistryAssumption ==
    /\ None \notin Schemas \cup Contents
    /\ Compatible \subseteq Contents \X Contents
    /\ \A c \in Contents : <<c, c>> \in Compatible
    /\ MaxVersion \in Nat
    /\ MayCrash \in BOOLEAN
    /\ MayLoseReply \in BOOLEAN

VARIABLES versions,   \* schema_versions: versions[s][v] is the content of row v
          blobs,      \* proto_blobs: the contents whose sources are stored
          current,    \* schemas.current_version, 0 for NULL
          staged,     \* schemas.staged_version, 0 for NULL
          memCurrent, \* schemaSlot.current: the snapshot consumers read
          memStaged,  \* schemaSlot.staged
          req,        \* what each handler is doing
          promoted,   \* history: the versions each row's current has been
          waived,     \* history: was what is staged put there with force?
          restarted   \* history: the process has been stopped and started

dbVars == <<versions, blobs, current, staged>>
memVars == <<memCurrent, memStaged>>
history == <<promoted, waived>>
vars == <<versions, blobs, current, staged, memCurrent, memStaged, req,
          promoted, waived, restarted>>

-----------------------------------------------------------------------------
(* Snapshots, requests and their phases. *)

NoSnap == [v |-> 0, c |-> None]
Snapshots == [v : Nat, c : Contents \cup {None}]

Phases == {"idle", "list", "unchanged", "blobs", "version", "stage", "mem",
           "check", "compare", "begin", "promote", "swap", "store",
           "discard", "clear"}

Ops == {"none", "publish", "rebase", "rollback", "promote", "discard"}

Requests ==
    [op : Ops, ph : Phases, s : Schemas \cup {None}, v : Nat,
     c : Contents \cup {None}, force : BOOLEAN, todo : SUBSET Schemas,
     held : Snapshots]

NoRequest == [op |-> "none", ph |-> "idle", s |-> None, v |-> 0, c |-> None,
              force |-> FALSE, todo |-> {}, held |-> NoSnap]

Idle(p) == req[p].ph = "idle"

Return(p) == req' = [req EXCEPT ![p] = NoRequest]

Goto(p, ph) == req' = [req EXCEPT ![p].ph = ph]

(* The last row ListVersions returns, 0 when there is none. *)
LastVersion(s) ==
    IF DOMAIN versions[s] = {} THEN 0
    ELSE CHOOSE v \in DOMAIN versions[s] : \A w \in DOMAIN versions[s] : w <= v

(* The rows of schema_versions, by their key. *)
VersionRows == UNION {{<<s, v>> : v \in DOMAIN versions[s]} : s \in Schemas}

Init ==
    /\ versions = [s \in Schemas |-> [v \in {} |-> None]]
    /\ blobs = {}
    /\ current = [s \in Schemas |-> 0]
    /\ staged = [s \in Schemas |-> 0]
    /\ memCurrent = [s \in Schemas |-> NoSnap]
    /\ memStaged = [s \in Schemas |-> NoSnap]
    /\ req = [p \in Procs |-> NoRequest]
    /\ promoted = [s \in Schemas |-> {}]
    /\ waived = [s \in Schemas |-> FALSE]
    /\ restarted = FALSE

-----------------------------------------------------------------------------
(* Publish and Rebase: publishInternal. *)

(* Entry of Publish: the request is well formed, the namespace and schema  *)
(* rows exist (ensureNamespaceAndSchema), the dependencies are read.       *)
Publish(p, s, c) ==
    /\ Idle(p)
    /\ Cardinality(VersionRows) < MaxVersion
    /\ req' = [req EXCEPT ![p] = [NoRequest EXCEPT
                  !.op = "publish", !.ph = "list", !.s = s, !.c = c]]
    /\ UNCHANGED <<dbVars, memVars, history>>

(* Rebase publishes the sources of the version that memory says is         *)
(* current; it asks for a new version even though nothing changed.         *)
Rebase(p, s) ==
    /\ Idle(p)
    /\ memCurrent[s] # NoSnap
    /\ memCurrent[s].v \in DOMAIN versions[s]
    /\ Cardinality(VersionRows) < MaxVersion
    /\ req' = [req EXCEPT ![p] = [NoRequest EXCEPT
                  !.op = "rebase", !.ph = "list", !.s = s,
                  !.c = versions[s][memCurrent[s].v]]]
    /\ UNCHANGED <<dbVars, memVars, history>>

(* Deviation: the next number is off by one. *)
ListVersionsSkipping(p) ==
    /\ req[p].ph = "list"
    /\ req' = [req EXCEPT ![p].v = LastVersion(req[p].s) + 2, ![p].ph = "blobs"]
    /\ UNCHANGED <<dbVars, memVars, history>>

(* The next number is chosen here, long before the row is inserted. *)
ListVersions(p) ==
    /\ req[p].ph = "list"
    /\ req' = [req EXCEPT
          ![p].v = LastVersion(req[p].s) + 1,
          ![p].ph = IF req[p].op = "publish" THEN "unchanged" ELSE "blobs"]
    /\ UNCHANGED <<dbVars, memVars, history>>

(* isUnchanged: the content is what is staged, or current if none is. *)
IsUnchanged(s, c) ==
    LET v == IF staged[s] # 0 THEN staged[s] ELSE current[s]
    IN  v # 0 /\ versions[s][v] = c

(* A publish of nothing new ends here.  A read that fails inside           *)
(* isUnchanged counts as "changed", so going on is always possible.        *)
CheckUnchanged(p) ==
    /\ req[p].ph = "unchanged"
    /\ \/ IsUnchanged(req[p].s, req[p].c) /\ Return(p)
       \/ Goto(p, "blobs")
    /\ UNCHANGED <<dbVars, memVars, history>>

(* Deviation: sources are stored with the first version only. *)
PutBlobsSkipping(p) ==
    /\ req[p].ph = "blobs"
    /\ blobs' = IF req[p].v = 1 THEN blobs \cup {req[p].c} ELSE blobs
    /\ Goto(p, "version")
    /\ UNCHANGED <<versions, current, staged, memVars, history>>

PutBlobs(p) ==
    /\ req[p].ph = "blobs"
    /\ blobs' = blobs \cup {req[p].c}
    /\ Goto(p, "version")
    /\ UNCHANGED <<versions, current, staged, memVars, history>>

(* Deviation: the insert does nothing on a conflict, and publishing goes on. *)
PutVersionIgnoring(p) ==
    LET s == req[p].s
        v == req[p].v
    IN  /\ req[p].ph = "version"
        /\ versions' = [versions EXCEPT ![s] =
              [w \in DOMAIN versions[s] \cup {v} |->
                  IF w \in DOMAIN versions[s] THEN versions[s][w] ELSE req[p].c]]
        /\ Goto(p, "stage")
        /\ UNCHANGED <<blobs, current, staged, memVars, history>>

(* Deviation: the insert overwrites on a conflict. *)
PutVersionOverwriting(p) ==
    LET s == req[p].s
        v == req[p].v
    IN  /\ req[p].ph = "version"
        /\ versions' = [versions EXCEPT ![s] =
              [w \in DOMAIN versions[s] \cup {v} |->
                  IF w = v THEN req[p].c ELSE versions[s][w]]]
        /\ Goto(p, "stage")
        /\ UNCHANGED <<blobs, current, staged, memVars, history>>

(* One transaction; the primary key of schema_versions refuses a number    *)
(* another handler has used since ListVersions.                            *)
PutVersion(p) ==
    LET s == req[p].s
        v == req[p].v
    IN  /\ req[p].ph = "version"
        /\ IF v \in DOMAIN versions[s]
           THEN Return(p) /\ UNCHANGED versions
           ELSE /\ versions' = [versions EXCEPT ![s] =
                      [w \in DOMAIN versions[s] \cup {v} |->
                          IF w = v THEN req[p].c ELSE versions[s][w]]]
                /\ Goto(p, "stage")
        /\ UNCHANGED <<blobs, current, staged, memVars, history>>

(* Store.SetStaged, reached from publishInternal and from Rollback. *)
SetStaged(p) ==
    /\ req[p].ph = "stage"
    /\ staged' = [staged EXCEPT ![req[p].s] = req[p].v]
    /\ waived' = [waived EXCEPT ![req[p].s] = req[p].force]
    /\ Goto(p, "mem")
    /\ UNCHANGED <<versions, blobs, current, memVars, promoted>>

(* Namespace.SetStaged, the last thing either of them does. *)
SetStagedMemory(p) ==
    /\ req[p].ph = "mem"
    /\ memStaged' = [memStaged EXCEPT ![req[p].s] =
                        [v |-> req[p].v, c |-> req[p].c]]
    /\ Return(p)
    /\ UNCHANGED <<dbVars, memCurrent, history>>

-----------------------------------------------------------------------------
(* Rollback. *)

(* The target is read from the store and, unless forced, checked against   *)
(* the snapshot memory holds as current; a rejected request changes        *)
(* nothing.                                                                *)
Rollback(p, s, v, force) ==
    /\ Idle(p)
    /\ v \in DOMAIN versions[s]
    /\ \/ force
       \/ memCurrent[s] = NoSnap
       \/ <<memCurrent[s].c, versions[s][v]>> \in Compatible
    /\ req' = [req EXCEPT ![p] = [NoRequest EXCEPT
                  !.op = "rollback", !.ph = "stage", !.s = s, !.v = v,
                  !.c = versions[s][v], !.force = force]]
    /\ UNCHANGED <<dbVars, memVars, history>>

-----------------------------------------------------------------------------
(* Promote. *)

Promote(p) ==
    /\ Idle(p)
    /\ req' = [req EXCEPT ![p] = [NoRequest EXCEPT
                  !.op = "promote", !.ph = "check", !.todo = Schemas]]
    /\ UNCHANGED <<dbVars, memVars, history>>

(* Deviation: the loop does not advance. *)
LoadStagedAgain(p, s) ==
    /\ req[p].ph = "check"
    /\ s \in req[p].todo
    /\ req' = [req EXCEPT ![p].s = s, ![p].held = memStaged[s], ![p].ph = "compare"]
    /\ UNCHANGED <<dbVars, memVars, history>>

(* One schema of the loop: its staged pointer is loaded ... *)
LoadStaged(p, s) ==
    /\ req[p].ph = "check"
    /\ s \in req[p].todo
    /\ req' = [req EXCEPT ![p].todo = @ \ {s}, ![p].s = s,
                          ![p].held = memStaged[s], ![p].ph = "compare"]
    /\ UNCHANGED <<dbVars, memVars, history>>

(* Deviation: the check is run in the wrong direction. *)
PassesCheckSwapped(old, new) ==
    new = NoSnap \/ old = NoSnap \/ new.v <= old.v \/ <<new.c, old.c>> \in Compatible

(* ... and then compared with the current one.  Let through are: nothing   *)
(* staged, a rollback, a first version, a compatible successor.            *)
PassesCheck(old, new) ==
    \/ new = NoSnap
    \/ old = NoSnap
    \/ new.v <= old.v
    \/ <<old.c, new.c>> \in Compatible

(* The first schema that does not pass ends the request. *)
CheckSchema(p) ==
    /\ req[p].ph = "compare"
    /\ IF PassesCheck(memCurrent[req[p].s], req[p].held)
       THEN req' = [req EXCEPT ![p].s = None, ![p].held = NoSnap,
                               ![p].ph = IF req[p].todo = {} THEN "begin"
                                         ELSE "check"]
       ELSE Return(p)
    /\ UNCHANGED <<dbVars, memVars, history>>

StagedRows == {s \in Schemas : staged[s] # 0}

(* Store.Promote, up to the snapshot PromoteAllStaged works from: the rows *)
(* staged when the statement starts are the ones it will update.           *)
BeginPromote(p) ==
    /\ req[p].ph = "begin"
    /\ req' = [req EXCEPT ![p].todo = StagedRows, ![p].ph = "promote"]
    /\ UNCHANGED <<dbVars, memVars, history>>

(* Deviation: a promotion leaves the staged version in place. *)
CommitPromoteKeeping(p) ==
    LET S == req[p].todo \cap StagedRows
    IN  /\ req[p].ph = "promote"
        /\ current' = [s \in Schemas |-> IF s \in S THEN staged[s] ELSE current[s]]
        /\ req' = [req EXCEPT ![p].todo = Schemas, ![p].ph = "swap"]
        /\ UNCHANGED <<versions, blobs, staged, memVars, history>>

(* Deviation: a promotion forgets the schemas it does not promote. *)
CommitPromoteForgetting(p) ==
    LET S == req[p].todo \cap StagedRows
    IN  /\ req[p].ph = "promote"
        /\ current' = [s \in S |-> staged[s]]
        /\ staged' = [s \in Schemas |-> IF s \in S THEN 0 ELSE staged[s]]
        /\ req' = [req EXCEPT ![p].todo = Schemas, ![p].ph = "swap"]
        /\ UNCHANGED <<versions, blobs, memVars, history>>

(* The update and its commit.  Under READ COMMITTED a row changed since    *)
(* the snapshot is read again once locked: its latest staged version is    *)
(* promoted, and it is passed over if nothing is staged any more.          *)
CommitPromote(p) ==
    LET S == req[p].todo \cap StagedRows
    IN  /\ req[p].ph = "promote"
        /\ current' = [s \in Schemas |-> IF s \in S THEN staged[s] ELSE current[s]]
        /\ staged' = [s \in Schemas |-> IF s \in S THEN 0 ELSE staged[s]]
        /\ promoted' = [s \in Schemas |-> IF s \in S THEN promoted[s] \cup {staged[s]}
                                          ELSE promoted[s]]
        /\ waived' = [s \in Schemas |-> IF s \in S THEN FALSE ELSE waived[s]]
        /\ req' = [req EXCEPT ![p].todo = Schemas, ![p].ph = "swap"]
        /\ UNCHANGED <<versions, blobs, memVars>>

(* Namespace.Promote visits the slots one by one, in any order: the staged *)
(* pointer is swapped for nil ...                                          *)
SwapSlot(p, s) ==
    LET rest == req[p].todo \ {s}
    IN  /\ req[p].ph = "swap"
        /\ s \in req[p].todo
        /\ memStaged' = [memStaged EXCEPT ![s] = NoSnap]
        /\ IF memStaged[s] # NoSnap
           THEN req' = [req EXCEPT ![p].todo = rest, ![p].s = s,
                                   ![p].held = memStaged[s], ![p].ph = "store"]
           ELSE IF rest = {} THEN Return(p)
           ELSE req' = [req EXCEPT ![p].todo = rest]
        /\ UNCHANGED <<dbVars, memCurrent, history>>

(* Deviation: a first version does not become current in memory. *)
StoreCurrentLater(p) ==
    /\ req[p].ph = "store"
    /\ memCurrent' = IF req[p].held.v = 1 THEN memCurrent
                     ELSE [memCurrent EXCEPT ![req[p].s] = req[p].held]
    /\ IF req[p].todo = {} THEN Return(p)
       ELSE req' = [req EXCEPT ![p].held = NoSnap, ![p].s = None, ![p].ph = "swap"]
    /\ UNCHANGED <<dbVars, memStaged, history>>

(* ... and then stored as current. *)
StoreCurrent(p) ==
    /\ req[p].ph = "store"
    /\ memCurrent' = [memCurrent EXCEPT ![req[p].s] = req[p].held]
    /\ IF req[p].todo = {} THEN Return(p)
       ELSE req' = [req EXCEPT ![p].held = NoSnap, ![p].s = None, ![p].ph = "swap"]
    /\ UNCHANGED <<dbVars, memStaged, history>>

-----------------------------------------------------------------------------
(* DiscardStaging: one statement on the store, then memory slot by slot. *)

DiscardStaging(p) ==
    /\ Idle(p)
    /\ req' = [req EXCEPT ![p] = [NoRequest EXCEPT
                  !.op = "discard", !.ph = "discard", !.todo = StagedRows]]
    /\ UNCHANGED <<dbVars, memVars, history>>

CommitDiscard(p) ==
    LET S == req[p].todo \cap StagedRows
    IN  /\ req[p].ph = "discard"
        /\ staged' = [s \in Schemas |-> IF s \in S THEN 0 ELSE staged[s]]
        /\ waived' = [s \in Schemas |-> IF s \in S THEN FALSE ELSE waived[s]]
        /\ req' = [req EXCEPT ![p].todo = Schemas, ![p].ph = "clear"]
        /\ UNCHANGED <<versions, blobs, current, memVars, promoted>>

ClearSlot(p, s) ==
    LET rest == req[p].todo \ {s}
    IN  /\ req[p].ph = "clear"
        /\ s \in req[p].todo
        /\ memStaged' = [memStaged EXCEPT ![s] = NoSnap]
        /\ IF rest = {} THEN Return(p) ELSE req' = [req EXCEPT ![p].todo = rest]
        /\ UNCHANGED <<dbVars, memCurrent, history>>

-----------------------------------------------------------------------------
(* Failures. *)

(* A store call fails, or compilation does, before it has any effect: the  *)
(* handler returns and what it did so far stays.                           *)
Fail(p) ==
    /\ req[p].ph \in {"list", "unchanged", "blobs", "version", "stage",
                      "begin", "promote", "discard"}
    /\ Return(p)
    /\ UNCHANGED <<dbVars, memVars, history>>

(* A store write commits and its reply is lost (a cancelled context, a     *)
(* broken connection): the handler returns before it touches memory.       *)
LoseReply(p) ==
    /\ MayLoseReply
    /\ \/ req[p].ph = "mem"
       \/ req[p].ph \in {"swap", "clear"} /\ req[p].todo = Schemas
    /\ Return(p)
    /\ UNCHANGED <<dbVars, memVars, history>>

(* Deviation: recovery loads the proposed state, staged before current. *)
BuildSnapshotProposed(s) ==
    LET v == IF staged[s] # 0 THEN staged[s] ELSE current[s]
    IN  IF v = 0 THEN NoSnap ELSE [v |-> v, c |-> versions[s][v]]

(* buildSnapshot: the stored descriptors of the row, or a recompilation of *)
(* its stored sources when the compiler has changed.                       *)
BuildSnapshot(s) ==
    IF current[s] = 0 THEN NoSnap
    ELSE [v |-> current[s], c |-> versions[s][current[s]]]

(* The process stops; Restore runs before the new one serves anything. It  *)
(* loads current versions only: nothing is staged in memory afterwards.    *)
Restart ==
    /\ MayCrash
    /\ memCurrent' = [s \in Schemas |-> BuildSnapshot(s)]
    /\ memStaged' = [s \in Schemas |-> NoSnap]
    /\ req' = [p \in Procs |-> NoRequest]
    /\ UNCHANGED <<dbVars, history>>

-----------------------------------------------------------------------------

(* A request arrives. *)
Arrive(p) ==
    \/ \E s \in Schemas, c \in Contents : Publish(p, s, c)
    \/ \E s \in Schemas : Rebase(p, s)
    \/ \E s \in Schemas : \E v \in DOMAIN versions[s], f \in BOOLEAN :
          Rollback(p, s, v, f)
    \/ Promote(p)
    \/ DiscardStaging(p)

(* A request under way takes its next step. *)
Step(p) ==
    \/ ListVersions(p)
    \/ CheckUnchanged(p)
    \/ PutBlobs(p)
    \/ PutVersion(p)
    \/ SetStaged(p)
    \/ SetStagedMemory(p)
    \/ \E s \in Schemas : LoadStaged(p, s)
    \/ CheckSchema(p)
    \/ BeginPromote(p)
    \/ CommitPromote(p)
    \/ \E s \in Schemas : SwapSlot(p, s)
    \/ StoreCurrent(p)
    \/ CommitDiscard(p)
    \/ \E s \in Schemas : ClearSlot(p, s)

Next ==
    \/ /\ \E p \in Procs : Arrive(p) \/ Step(p) \/ Fail(p) \/ LoseReply(p)
       /\ UNCHANGED restarted
    \/ Restart /\ restarted' = TRUE

Spec == Init /\ [][Next]_vars

(* No handler waits for another: the store's row locks are held for one    *)
(* statement, memory is lock-free, so a running handler keeps running.     *)
FairSpec == Spec /\ \A p \in Procs : WF_vars(Step(p) /\ UNCHANGED restarted)

-----------------------------------------------------------------------------
(* Properties of every run, whatever handlers, crashes and lost replies do. *)

(* The variables have their types: rows map version numbers to contents,   *)
(* 0 stands for a NULL pointer, handlers are in one of their phases.       *)
TypeOK ==
    /\ DOMAIN versions = Schemas
    /\ \A s \in Schemas : /\ DOMAIN versions[s] \subseteq Nat
                          /\ versions[s] \in [DOMAIN versions[s] -> Contents]
    /\ blobs \subseteq Contents
    /\ current \in [Schemas -> Nat]
    /\ staged \in [Schemas -> Nat]
    /\ memCurrent \in [Schemas -> Snapshots]
    /\ memStaged \in [Schemas -> Snapshots]
    /\ req \in [Procs -> Requests]
    /\ promoted \in [Schemas -> SUBSET Nat]
    /\ waived \in [Schemas -> BOOLEAN]

(* Publishers that race for a number, fail or crash half-way leave no gap  *)
(* in a schema's version numbers (ListVersions and PutVersion).            *)
VersionsContiguous == \A s \in Schemas : DOMAIN versions[s] = 1..LastVersion(s)

StoredAs(s, v, c) == v \in DOMAIN versions[s] /\ versions[s][v] = c

(* schemas.current_version and staged_version carry no foreign key, and    *)
(* memory is written apart from the store: still each row pointer is NULL  *)
(* or names a stored version, and each snapshot in memory, or in the hands *)
(* of a promotion, is what the store holds under its number.               *)
PointersBacked ==
    \A s \in Schemas :
        /\ current[s] # 0 => current[s] \in DOMAIN versions[s]
        /\ staged[s] # 0 => staged[s] \in DOMAIN versions[s]
        /\ memCurrent[s] # NoSnap =>
              StoredAs(s, memCurrent[s].v, memCurrent[s].c)
        /\ memStaged[s] # NoSnap =>
              StoredAs(s, memStaged[s].v, memStaged[s].c)

(* A version whose insertion committed has its sources in the blob store,  *)
(* so Restore, Rebase and GetSource can always read them back.             *)
SourcesStored ==
    \A s \in Schemas : \A v \in DOMAIN versions[s] : versions[s][v] \in blobs

Publishing(p) == req[p].op \in {"publish", "rebase"} /\ req[p].ph \in {"stage", "mem"}

(* Two publishers that read the same last version never both get the next  *)
(* number: the one PutVersion lets through owns it.                        *)
PublishedOnce ==
    \A p, q \in Procs :
        p # q /\ Publishing(p) /\ Publishing(q) /\ req[p].s = req[q].s
            => req[p].v # req[q].v

(* What a handler carries from one call to the next stays true while       *)
(* others run.                                                             *)
HandlerOK(r) ==
    /\ r.ph \in {"list", "unchanged", "blobs", "version", "stage", "mem"} =>
          r.s \in Schemas /\ r.c \in Contents
    /\ r.ph \in {"unchanged", "blobs", "version"} =>
          r.v # 0 /\ (r.v = 1 \/ r.v - 1 \in DOMAIN versions[r.s])
    /\ r.ph = "version" => r.c \in blobs
    /\ r.ph \in {"stage", "mem"} => StoredAs(r.s, r.v, r.c)
    /\ r.ph \in {"store", "compare"} =>
          /\ r.s \in Schemas
          /\ r.held # NoSnap => StoredAs(r.s, r.held.v, r.held.c)

(* The number a publisher chose is never beyond the next free one, what it *)
(* inserted or a rollback read is still there when it is staged, and the   *)
(* snapshot a promotion has taken out of its slot is a stored one.         *)
HandlersBacked == \A p \in Procs : HandlerOK(req[p])

(* A stored version is never rewritten or removed, so a consumer pinned to *)
(* a number reads the same schema for ever.                                *)
RowsImmutable ==
    [][\A s \in Schemas : \A v \in DOMAIN versions[s] :
          v \in DOMAIN versions'[s] /\ versions'[s][v] = versions[s][v]]_vars

(* The handlers, seen through the rows alone, do what the Store interface  *)
(* promises: append, stage, promote together, discard.                     *)
Store == INSTANCE SchemaStore
    WITH Schemas <- Schemas, Contents <- Contents,
         versions <- versions, current <- current, staged <- staged
ImplementsStore == Store!Spec

-----------------------------------------------------------------------------
(* Properties of a server that takes one request at a time and hears the   *)
(* reply of every store call.                                              *)

(* Whenever no request is under way, a snapshot staged in memory is staged *)
(* in the store too, whatever restarts did, so that Namespace.Promote      *)
(* cannot make current what Store.Promote did not; and until the first     *)
(* restart memory holds exactly what the rows say.                         *)
MemoryMatchesStore ==
    (\A p \in Procs : Idle(p)) =>
        \A s \in Schemas :
            /\ memStaged[s] # NoSnap => memStaged[s].v = staged[s]
            /\ ~restarted => memCurrent[s].v = current[s] /\ memStaged[s].v = staged[s]

(* A published version is not visible to consumers until it is promoted:   *)
(* what memory serves as current was current in the store.                 *)
OnlyPromotedVisible ==
    \A s \in Schemas :
        memCurrent[s] # NoSnap => memCurrent[s].v \in promoted[s]

(* A promotion replaces a current version by a compatible one, unless what *)
(* was staged came from a forced rollback.                                 *)
PromotionsCompatible ==
    [][\A s \in Schemas :
          current'[s] # current[s] /\ current[s] # 0 /\ ~waived[s] =>
              <<versions[s][current[s]], versions[s][staged[s]]>> \in Compatible]_vars

(* Every request returns. *)
EveryRequestReturns == \A p \in Procs : ~Idle(p) ~> Idle(p)
=============================================================================
