--------------------------- MODULE RegistryProofs ---------------------------
(***************************************************************************)
(* Proofs, for any schemas, contents, compatibility relation and number of *)
(* handlers, with crashes and lost replies, of the safety of the version   *)
(* log and of the pointers into it.                                        *)
(***************************************************************************)
EXTENDS Registry, SequenceTheorems, TLAPS

(* Version numbers of a schema are 1..n.  The form VersionsContiguous      *)
(* takes, with LastVersion, follows from this one.                         *)
Contiguous == \A s \in Schemas : \E n \in Nat : DOMAIN versions[s] = 1..n

(* The inductive invariant: the pointers cannot be shown to name stored    *)
(* rows without what the handlers carry, nor numbers to be contiguous      *)
(* without the bound on the numbers handlers have chosen.                  *)
IInv ==
    /\ TypeOK
    /\ Contiguous
    /\ PointersBacked
    /\ SourcesStored
    /\ HandlersBacked
    /\ PublishedOnce

-----------------------------------------------------------------------------

(* The empty request is a request. *)
LEMMA NoRequestType == NoRequest \in Requests
  BY Zenon DEF NoRequest, Requests, Ops, Phases, NoSnap, Snapshots

(* The empty request claims nothing. *)
LEMMA NoRequestOK == HandlerOK(NoRequest) /\ HandlerOK(NoRequest)'
  BY Zenon DEF HandlerOK, NoRequest

(* An empty store, empty slots and idle handlers satisfy the invariant. *)
LEMMA InitIInv == Init => IInv
<1> SUFFICES ASSUME Init PROVE IInv
  BY Zenon
<1>1. TypeOK
  BY NoRequestType, Zenon DEF Init, TypeOK, NoSnap, Snapshots
<1>2. Contiguous
  <2> SUFFICES ASSUME NEW s \in Schemas
               PROVE  \E n \in Nat : DOMAIN versions[s] = 1..n
    BY Zenon DEF Contiguous
  <2>1. DOMAIN versions[s] = 1..0
    BY DEF Init
  <2> QED
    BY <2>1, Zenon
<1>3. PointersBacked /\ SourcesStored
  BY Zenon DEF Init, PointersBacked, SourcesStored
<1>4. HandlersBacked
  BY NoRequestOK, Zenon DEF Init, HandlersBacked
<1>5. PublishedOnce
  BY Zenon DEF Init, PublishedOnce, Publishing, NoRequest
<1> QED
  BY <1>1, <1>2, <1>3, <1>4, <1>5, Zenon DEF IInv

-----------------------------------------------------------------------------
(* A step of handler p that inserts no version keeps the invariant if the  *)
(* pointers it leaves are backed and so is the request R it goes on with.  *)
LEMMA KeepsRows ==
  ASSUME IInv,
         NEW p \in Procs, NEW R \in Requests,
         req' = [req EXCEPT ![p] = R],
         versions' = versions,
         blobs \subseteq blobs', blobs' \subseteq Contents,
         current' \in [Schemas -> Nat], staged' \in [Schemas -> Nat],
         memCurrent' \in [Schemas -> Snapshots],
         memStaged' \in [Schemas -> Snapshots],
         promoted' \in [Schemas -> SUBSET Nat], waived' \in [Schemas -> BOOLEAN],
         PointersBacked',
         HandlerOK(R)',
         R.op \in {"publish", "rebase"} /\ R.ph \in {"stage", "mem"} =>
             Publishing(p) /\ R.s = req[p].s /\ R.v = req[p].v
  PROVE  IInv'
<1>1. req \in [Procs -> Requests] /\ req' \in [Procs -> Requests]
  BY Zenon DEF IInv, TypeOK
<1>2. req'[p] = R /\ \A q \in Procs \ {p} : req'[q] = req[q]
  BY <1>1, Zenon
<1>3. TypeOK'
  BY <1>1, Zenon DEF IInv, TypeOK
<1>4. Contiguous'
  BY Zenon DEF IInv, Contiguous
<1>5. SourcesStored'
  BY Zenon DEF IInv, SourcesStored
<1>6. HandlersBacked'
  <2> SUFFICES ASSUME NEW q \in Procs PROVE HandlerOK(req[q])'
    BY Zenon DEF HandlersBacked
  <2>1. CASE q = p
    BY <1>2, <2>1, SMTT(30) DEF HandlerOK, StoredAs
  <2>2. CASE q # p
    <3>1. req'[q] = req[q]
      BY <1>2, <2>2, Zenon
    <3>2. HandlerOK(req[q])
      BY Zenon DEF IInv, HandlersBacked
    <3> QED
      BY <3>1, <3>2, Zenon DEF HandlerOK, StoredAs
  <2> QED
    BY <2>1, <2>2, Zenon
<1>7. PublishedOnce'
  <2> SUFFICES ASSUME NEW q \in Procs, NEW r \in Procs, q # r,
                      Publishing(q)', Publishing(r)', req'[q].s = req'[r].s
               PROVE  req'[q].v # req'[r].v
    BY Zenon DEF PublishedOnce
  <2>1. ASSUME NEW u \in Procs, Publishing(u)'
        PROVE  /\ Publishing(u)
               /\ req'[u].s = req[u].s
               /\ req'[u].v = req[u].v
    BY <1>2, <2>1, Zenon DEF Publishing
  <2> QED
    BY <2>1 DEF IInv, PublishedOnce
<1> QED
  BY <1>3, <1>4, <1>5, <1>6, <1>7, Zenon DEF IInv

(* The same when only the request changes, and to one that is not about to *)
(* stage a version it published.                                           *)
LEMMA KeepsState ==
  ASSUME IInv,
         NEW p \in Procs, NEW R \in Requests,
         req' = [req EXCEPT ![p] = R],
         UNCHANGED <<dbVars, memVars, history>>,
         HandlerOK(R),
         ~(R.op \in {"publish", "rebase"} /\ R.ph \in {"stage", "mem"})
  PROVE  IInv'
<1>1. HandlerOK(R)' /\ PointersBacked'
  BY Zenon DEF IInv, HandlerOK, StoredAs, PointersBacked, dbVars, memVars
<1>2. /\ versions' = versions
      /\ blobs \subseteq blobs' /\ blobs' \subseteq Contents
      /\ current' \in [Schemas -> Nat] /\ staged' \in [Schemas -> Nat]
      /\ memCurrent' \in [Schemas -> Snapshots]
      /\ memStaged' \in [Schemas -> Snapshots]
      /\ promoted' \in [Schemas -> SUBSET Nat] /\ waived' \in [Schemas -> BOOLEAN]
  BY Zenon DEF IInv, TypeOK, dbVars, memVars, history
<1> QED
  BY <1>1, <1>2, KeepsRows, Zenon

(* A handler that returns and has changed nothing in this step. *)
LEMMA ReturnKeepsState ==
  ASSUME IInv, NEW p \in Procs, Return(p), UNCHANGED <<dbVars, memVars, history>>
  PROVE  IInv'
<1>1. PICK R \in Requests : R = NoRequest
  BY NoRequestType, Zenon
<1>2. /\ req' = [req EXCEPT ![p] = R]
      /\ HandlerOK(R)
      /\ ~(R.op \in {"publish", "rebase"} /\ R.ph \in {"stage", "mem"})
  BY <1>1, NoRequestOK, Zenon DEF Return, NoRequest
<1> QED
  BY <1>2, KeepsState, Zenon

(* The updates handlers make to their request keep its type. *)
LEMMA UpdatePhase ==
  ASSUME NEW r \in Requests, NEW ph \in Phases
  PROVE  [r EXCEPT !.ph = ph] \in Requests
  BY Zenon DEF Requests

(* The number ListVersions leads to is recorded. *)
LEMMA UpdateNumber ==
  ASSUME NEW r \in Requests, NEW ph \in Phases, NEW v \in Nat
  PROVE  [r EXCEPT !.v = v, !.ph = ph] \in Requests
  BY Zenon DEF Requests

(* The schemas still to visit are recorded with the phase. *)
LEMMA UpdateTodo ==
  ASSUME NEW r \in Requests, NEW ph \in Phases, NEW T \in SUBSET Schemas
  PROVE  /\ [r EXCEPT !.todo = T] \in Requests
         /\ [r EXCEPT !.todo = T, !.ph = ph] \in Requests
  BY Zenon DEF Requests

(* The snapshot a handler holds is recorded with the phase. *)
LEMMA UpdateHeld ==
  ASSUME NEW r \in Requests, NEW ph \in Phases, NEW s \in Schemas \cup {None},
         NEW h \in Snapshots
  PROVE  [r EXCEPT !.s = s, !.held = h, !.ph = ph] \in Requests
  BY Zenon DEF Requests

(* The same with the schemas still to visit. *)
LEMMA UpdateHeldTodo ==
  ASSUME NEW r \in Requests, NEW ph \in Phases, NEW s \in Schemas \cup {None},
         NEW h \in Snapshots, NEW T \in SUBSET Schemas
  PROVE  [r EXCEPT !.todo = T, !.s = s, !.held = h, !.ph = ph] \in Requests
  BY Zenon DEF Requests

-----------------------------------------------------------------------------
(* The actions that change only the request of their handler. *)

(* A request that arrives claims nothing that is not stored. *)
LEMMA ArriveKeeps ==
  ASSUME IInv, NEW p \in Procs, Arrive(p)
  PROVE  IInv'
<1> USE DEF NoRequest, Requests, Ops, Phases, NoSnap, Snapshots
<1>1. ASSUME NEW s \in Schemas, NEW c \in Contents, Publish(p, s, c) PROVE IInv'
  <2>1. PICK R \in Requests : R = [NoRequest EXCEPT
                  !.op = "publish", !.ph = "list", !.s = s, !.c = c]
    BY Zenon
  <2>2. req' = [req EXCEPT ![p] = R] /\ UNCHANGED <<dbVars, memVars, history>>
    BY <1>1, <2>1, Zenon DEF Publish
  <2>3. HandlerOK(R) /\ R.ph = "list"
    BY <2>1 DEF HandlerOK
  <2> QED
    BY <2>2, <2>3, KeepsState, Zenon
<1>2. ASSUME NEW s \in Schemas, Rebase(p, s) PROVE IInv'
  <2>1. versions[s][memCurrent[s].v] \in Contents
    BY <1>2 DEF Rebase, IInv, TypeOK
  <2>2. PICK R \in Requests : R = [NoRequest EXCEPT
                  !.op = "rebase", !.ph = "list", !.s = s,
                  !.c = versions[s][memCurrent[s].v]]
    BY <2>1, Zenon
  <2>3. req' = [req EXCEPT ![p] = R] /\ UNCHANGED <<dbVars, memVars, history>>
    BY <1>2, <2>2, SMTT(30) DEF Rebase
  <2>4. HandlerOK(R) /\ R.ph = "list"
    BY <2>1, <2>2 DEF HandlerOK
  <2> QED
    BY <2>3, <2>4, KeepsState, Zenon
<1>3. ASSUME NEW s \in Schemas, NEW v \in DOMAIN versions[s], NEW f \in BOOLEAN,
             Rollback(p, s, v, f)
      PROVE  IInv'
  <2>1. v \in Nat /\ versions[s][v] \in Contents
    BY Zenon DEF IInv, TypeOK
  <2>2. PICK R \in Requests : R = [NoRequest EXCEPT
                  !.op = "rollback", !.ph = "stage", !.s = s, !.v = v,
                  !.c = versions[s][v], !.force = f]
    BY <2>1, Zenon
  <2>3. req' = [req EXCEPT ![p] = R] /\ UNCHANGED <<dbVars, memVars, history>>
    BY <1>3, <2>2, Zenon DEF Rollback
  <2>4. HandlerOK(R) /\ R.op = "rollback"
    BY <2>1, <2>2 DEF HandlerOK, StoredAs
  <2> QED
    BY <2>3, <2>4, KeepsState, Zenon
<1>4. CASE Promote(p)
  <2>1. PICK R \in Requests : R = [NoRequest EXCEPT
                  !.op = "promote", !.ph = "check", !.todo = Schemas]
    BY Zenon
  <2>2. req' = [req EXCEPT ![p] = R] /\ UNCHANGED <<dbVars, memVars, history>>
    BY <1>4, <2>1, Zenon DEF Promote
  <2>3. HandlerOK(R) /\ R.ph = "check"
    BY <2>1 DEF HandlerOK
  <2> QED
    BY <2>2, <2>3, KeepsState, Zenon
<1>5. CASE DiscardStaging(p)
  <2>1. PICK R \in Requests : R = [NoRequest EXCEPT
                  !.op = "discard", !.ph = "discard", !.todo = StagedRows]
    BY Zenon DEF StagedRows
  <2>2. req' = [req EXCEPT ![p] = R] /\ UNCHANGED <<dbVars, memVars, history>>
    BY <1>5, <2>1, Zenon DEF DiscardStaging
  <2>3. HandlerOK(R) /\ R.ph = "discard"
    BY <2>1 DEF HandlerOK
  <2> QED
    BY <2>2, <2>3, KeepsState, Zenon
<1> QED
  BY <1>1, <1>2, <1>3, <1>4, <1>5, Zenon DEF Arrive

(* The number after the last one of a contiguous log. *)
LEMMA LastVersionOfLog ==
  ASSUME NEW s \in Schemas, NEW n \in Nat, DOMAIN versions[s] = 1..n
  PROVE  LastVersion(s) = n
<1>1. CASE n = 0
  BY <1>1 DEF LastVersion
<1>2. CASE n # 0
  <2>1. DOMAIN versions[s] # {}
    BY <1>2, SMTT(30)
  <2>2. n \in DOMAIN versions[s] /\ \A w \in DOMAIN versions[s] : w <= n
    BY <1>2
  <2>3. /\ LastVersion(s) \in DOMAIN versions[s]
        /\ \A w \in DOMAIN versions[s] : w <= LastVersion(s)
    BY <2>1, <2>2, Zenon DEF LastVersion
  <2> QED
    BY <2>2, <2>3
<1> QED
  BY <1>1, <1>2, Zenon

(* The number chosen is at most one beyond the last row. *)
LEMMA ListVersionsKeeps ==
  ASSUME IInv, NEW p \in Procs, ListVersions(p)
  PROVE  IInv'
<1>1. /\ req[p] \in Requests
      /\ HandlerOK(req[p])
      /\ req[p].ph = "list"
      /\ req[p].s \in Schemas
  BY Zenon DEF IInv, TypeOK, HandlersBacked, HandlerOK, ListVersions
<1>2. PICK n \in Nat : DOMAIN versions[req[p].s] = 1..n
  BY <1>1, Zenon DEF IInv, Contiguous
<1>3. LastVersion(req[p].s) = n
  BY <1>1, <1>2, LastVersionOfLog, Zenon
<1>4. PICK ph \in {"unchanged", "blobs"} :
         ph = IF req[p].op = "publish" THEN "unchanged" ELSE "blobs"
  BY Zenon
<1>5. PICK R \in Requests : R = [req[p] EXCEPT !.v = n + 1, !.ph = ph]
  <2>1. n + 1 \in Nat /\ ph \in Phases
    BY <1>4 DEF Phases
  <2> QED
    BY <1>1, <2>1, UpdateNumber, Zenon
<1>6. req' = [req EXCEPT ![p] = R] /\ UNCHANGED <<dbVars, memVars, history>>
  BY <1>3, <1>4, <1>5, Zenon DEF ListVersions, IInv, TypeOK
<1>7. HandlerOK(R) /\ R.ph \in {"unchanged", "blobs"}
  BY <1>1, <1>2, <1>5 DEF HandlerOK, Requests
<1> QED
  BY <1>6, <1>7, KeepsState, Zenon

(* isUnchanged reads, and ends the request or goes on. *)
LEMMA CheckUnchangedKeeps ==
  ASSUME IInv, NEW p \in Procs, CheckUnchanged(p)
  PROVE  IInv'
<1>1. req[p] \in Requests /\ HandlerOK(req[p]) /\ req[p].ph = "unchanged"
  BY Zenon DEF IInv, TypeOK, HandlersBacked, CheckUnchanged
<1>2. CASE Return(p)
  BY <1>2, ReturnKeepsState, Zenon DEF CheckUnchanged
<1>3. CASE Goto(p, "blobs")
  <2>1. PICK R \in Requests : R = [req[p] EXCEPT !.ph = "blobs"]
    BY <1>1, UpdatePhase, Zenon DEF Phases
  <2>2. req' = [req EXCEPT ![p] = R] /\ UNCHANGED <<dbVars, memVars, history>>
    BY <1>3, <2>1, Zenon DEF CheckUnchanged, Goto
  <2>3. HandlerOK(R) /\ R.ph = "blobs"
    BY <1>1, <2>1, Zenon DEF HandlerOK, Requests
  <2> QED
    BY <2>2, <2>3, KeepsState, Zenon
<1> QED
  BY <1>2, <1>3, Zenon DEF CheckUnchanged

(* Promote reads a staged slot: what it holds is stored. *)
LEMMA LoadStagedKeeps ==
  ASSUME IInv, NEW p \in Procs, NEW s \in Schemas, LoadStaged(p, s)
  PROVE  IInv'
<1>1. req[p] \in Requests /\ memStaged[s] \in Snapshots
  BY Zenon DEF IInv, TypeOK
<1>2. PICK T \in SUBSET Schemas : T = req[p].todo \ {s}
  BY <1>1, Zenon DEF Requests
<1>3. PICK R \in Requests : R = [req[p] EXCEPT !.todo = T, !.s = s,
                                    !.held = memStaged[s], !.ph = "compare"]
  BY <1>1, UpdateHeldTodo, Zenon DEF Phases
<1>4. req' = [req EXCEPT ![p] = R] /\ UNCHANGED <<dbVars, memVars, history>>
  BY <1>2, <1>3, Zenon DEF LoadStaged
<1>5. R.ph = "compare" /\ R.s = s /\ R.held = memStaged[s]
  BY <1>1, <1>3, Zenon DEF Requests
<1>6. HandlerOK(R)
  BY <1>5, Zenon DEF HandlerOK, IInv, PointersBacked
<1> QED
  BY <1>4, <1>5, <1>6, KeepsState, Zenon

(* The compatibility check ends the request or goes on. *)
LEMMA CheckSchemaKeeps ==
  ASSUME IInv, NEW p \in Procs, CheckSchema(p)
  PROVE  IInv'
<1>1. req[p] \in Requests
  BY Zenon DEF IInv, TypeOK
<1>2. CASE Return(p)
  BY <1>2, ReturnKeepsState, Zenon DEF CheckSchema
<1>3. ASSUME NEW ph \in {"begin", "check"},
             req' = [req EXCEPT ![p].s = None, ![p].held = NoSnap, ![p].ph = ph]
      PROVE  IInv'
  <2>1. None \in Schemas \cup {None} /\ NoSnap \in Snapshots /\ ph \in Phases
    BY Zenon DEF NoSnap, Snapshots, Phases
  <2>2. PICK R \in Requests : R = [req[p] EXCEPT !.s = None, !.held = NoSnap,
                                                 !.ph = ph]
    BY <1>1, <2>1, UpdateHeld, Zenon
  <2>3. req' = [req EXCEPT ![p] = R] /\ UNCHANGED <<dbVars, memVars, history>>
    BY <1>3, <2>2, Zenon DEF CheckSchema
  <2>4. HandlerOK(R) /\ R.ph \in {"begin", "check"}
    BY <1>1, <2>2, Zenon DEF HandlerOK, Requests
  <2> QED
    BY <2>3, <2>4, KeepsState, Zenon
<1> QED
  BY <1>2, <1>3, Zenon DEF CheckSchema

(* The promotion's statement reads its rows. *)
LEMMA BeginPromoteKeeps ==
  ASSUME IInv, NEW p \in Procs, BeginPromote(p)
  PROVE  IInv'
<1>1. req[p] \in Requests
  BY Zenon DEF IInv, TypeOK
<1>2. PICK T \in SUBSET Schemas : T = StagedRows
  BY Zenon DEF StagedRows
<1>3. PICK R \in Requests : R = [req[p] EXCEPT !.todo = T, !.ph = "promote"]
  BY <1>1, UpdateTodo, Zenon DEF Phases
<1>4. req' = [req EXCEPT ![p] = R] /\ UNCHANGED <<dbVars, memVars, history>>
  BY <1>2, <1>3, Zenon DEF BeginPromote
<1>5. HandlerOK(R) /\ R.ph = "promote"
  BY <1>1, <1>3, Zenon DEF HandlerOK, Requests
<1> QED
  BY <1>4, <1>5, KeepsState, Zenon

-----------------------------------------------------------------------------
(* The actions that change a pointer. *)

(* Blobs are only added. *)
LEMMA PutBlobsKeeps ==
  ASSUME IInv, NEW p \in Procs, PutBlobs(p)
  PROVE  IInv'
<1>1. req[p] \in Requests /\ HandlerOK(req[p]) /\ req[p].ph = "blobs"
  BY Zenon DEF IInv, TypeOK, HandlersBacked, PutBlobs
<1>2. PICK R \in Requests : R = [req[p] EXCEPT !.ph = "version"]
  BY <1>1, UpdatePhase, Zenon DEF Phases
<1>3. /\ req' = [req EXCEPT ![p] = R]
      /\ blobs' = blobs \cup {R.c}
      /\ UNCHANGED <<versions, current, staged, memVars, history>>
  BY <1>1, <1>2, Zenon DEF PutBlobs, Goto, Requests
<1>4. HandlerOK(R)' /\ R.ph = "version" /\ R.c \in Contents
  BY <1>1, <1>2, <1>3, Zenon DEF HandlerOK, Requests
<1>5. PointersBacked'
  BY <1>3, Zenon DEF IInv, PointersBacked, StoredAs, memVars
<1>6. /\ versions' = versions
      /\ blobs \subseteq blobs' /\ blobs' \subseteq Contents
      /\ current' \in [Schemas -> Nat] /\ staged' \in [Schemas -> Nat]
      /\ memCurrent' \in [Schemas -> Snapshots]
      /\ memStaged' \in [Schemas -> Snapshots]
      /\ promoted' \in [Schemas -> SUBSET Nat] /\ waived' \in [Schemas -> BOOLEAN]
  BY <1>3, <1>4, Zenon DEF IInv, TypeOK, memVars, history
<1> QED
  BY <1>3, <1>4, <1>5, <1>6, KeepsRows, ZenonT(30)

(* staged_version is set to a number the handler has a row for. *)
LEMMA SetStagedKeeps ==
  ASSUME IInv, NEW p \in Procs, SetStaged(p)
  PROVE  IInv'
<1>1. req[p] \in Requests /\ HandlerOK(req[p]) /\ req[p].ph = "stage"
  BY Zenon DEF IInv, TypeOK, HandlersBacked, SetStaged
<1>2. /\ req[p].s \in Schemas /\ req[p].v \in Nat /\ req[p].force \in BOOLEAN
      /\ req[p].v \in DOMAIN versions[req[p].s]
  BY <1>1, Zenon DEF HandlerOK, StoredAs, Requests
<1>3. PICK R \in Requests : R = [req[p] EXCEPT !.ph = "mem"]
  BY <1>1, UpdatePhase, Zenon DEF Phases
<1>4. /\ req' = [req EXCEPT ![p] = R]
      /\ R.op = req[p].op /\ R.s = req[p].s /\ R.v = req[p].v
      /\ Publishing(p) <=> R.op \in {"publish", "rebase"}
  BY <1>1, <1>3, Zenon DEF SetStaged, Goto, Requests, Publishing
<1>5. HandlerOK(R)'
  BY <1>1, <1>3, SMTT(30) DEF HandlerOK, Requests, StoredAs, SetStaged
<1>6. PointersBacked'
  BY <1>2, Zenon DEF SetStaged, IInv, TypeOK, PointersBacked, StoredAs, memVars
<1>7. /\ versions' = versions
      /\ blobs \subseteq blobs' /\ blobs' \subseteq Contents
      /\ current' \in [Schemas -> Nat] /\ staged' \in [Schemas -> Nat]
      /\ memCurrent' \in [Schemas -> Snapshots]
      /\ memStaged' \in [Schemas -> Snapshots]
      /\ promoted' \in [Schemas -> SUBSET Nat]
  BY <1>2, SMTT(30) DEF SetStaged, IInv, TypeOK, memVars
<1>8. waived' \in [Schemas -> BOOLEAN]
  BY <1>2, Zenon DEF SetStaged, IInv, TypeOK
<1> QED
  BY <1>4, <1>5, <1>6, <1>7, <1>8, KeepsRows, Zenon

(* The staged slot is set to a snapshot the handler has a row for. *)
LEMMA SetStagedMemoryKeeps ==
  ASSUME IInv, NEW p \in Procs, SetStagedMemory(p)
  PROVE  IInv'
<1>1. req[p] \in Requests /\ HandlerOK(req[p]) /\ req[p].ph = "mem"
  BY Zenon DEF IInv, TypeOK, HandlersBacked, SetStagedMemory
<1>2. /\ req[p].s \in Schemas /\ req[p].v \in Nat /\ req[p].c \in Contents
      /\ StoredAs(req[p].s, req[p].v, req[p].c)
  BY <1>1, Zenon DEF HandlerOK, Requests
<1>3. PICK R \in Requests : R = NoRequest
  BY NoRequestType, Zenon
<1>4. req' = [req EXCEPT ![p] = R] /\ HandlerOK(R)' /\ R.ph = "idle"
  BY <1>3, NoRequestOK, SMTT(30) DEF SetStagedMemory, Return, NoRequest
<1>5. /\ versions' = versions
      /\ blobs \subseteq blobs' /\ blobs' \subseteq Contents
      /\ current' \in [Schemas -> Nat] /\ staged' \in [Schemas -> Nat]
      /\ memCurrent' \in [Schemas -> Snapshots]
      /\ memStaged' \in [Schemas -> Snapshots]
      /\ promoted' \in [Schemas -> SUBSET Nat] /\ waived' \in [Schemas -> BOOLEAN]
  BY <1>2, SMTT(30) DEF SetStagedMemory, IInv, TypeOK, dbVars, history, Snapshots
<1>6. PointersBacked'
  BY <1>2, Zenon DEF SetStagedMemory, IInv, TypeOK, PointersBacked, StoredAs, dbVars
<1> QED
  BY <1>4, <1>5, <1>6, KeepsRows, Zenon

(* The promotion moves staged numbers, which are stored, to current. *)
LEMMA CommitPromoteKeeps ==
  ASSUME IInv, NEW p \in Procs, CommitPromote(p)
  PROVE  IInv'
<1>1. req[p] \in Requests
  BY Zenon DEF IInv, TypeOK
<1>2. PICK R \in Requests : R = [req[p] EXCEPT !.todo = Schemas, !.ph = "swap"]
  BY <1>1, UpdateTodo, Zenon DEF Phases
<1>3. req' = [req EXCEPT ![p] = R]
  BY <1>2, Zenon DEF CommitPromote
<1>4. HandlerOK(R)' /\ R.ph = "swap"
  BY <1>1, <1>2, Zenon DEF HandlerOK, Requests
<1>5. /\ versions' = versions
      /\ blobs \subseteq blobs' /\ blobs' \subseteq Contents
      /\ current' \in [Schemas -> Nat] /\ staged' \in [Schemas -> Nat]
      /\ memCurrent' \in [Schemas -> Snapshots]
      /\ memStaged' \in [Schemas -> Snapshots]
  BY Zenon DEF CommitPromote, IInv, TypeOK, memVars
<1>6. promoted' \in [Schemas -> SUBSET Nat]
  <2>1. \A s \in Schemas : promoted[s] \cup {staged[s]} \in SUBSET Nat
    BY Zenon DEF IInv, TypeOK
  <2> QED
    BY <2>1, Zenon DEF CommitPromote, IInv, TypeOK
<1>8. waived' \in [Schemas -> BOOLEAN]
  BY Zenon DEF CommitPromote, IInv, TypeOK
<1>7. PointersBacked'
  BY Zenon DEF CommitPromote, IInv, TypeOK, PointersBacked, StoredAs, memVars, StagedRows
<1> QED
  BY <1>3, <1>4, <1>5, <1>6, <1>7, <1>8, KeepsRows, Zenon

(* Clearing staged numbers leaves the others as they were. *)
LEMMA CommitDiscardKeeps ==
  ASSUME IInv, NEW p \in Procs, CommitDiscard(p)
  PROVE  IInv'
<1>1. req[p] \in Requests
  BY Zenon DEF IInv, TypeOK
<1>2. PICK R \in Requests : R = [req[p] EXCEPT !.todo = Schemas, !.ph = "clear"]
  BY <1>1, UpdateTodo, Zenon DEF Phases
<1>3. req' = [req EXCEPT ![p] = R]
  BY <1>2, Zenon DEF CommitDiscard
<1>4. HandlerOK(R)' /\ R.ph = "clear"
  BY <1>1, <1>2, Zenon DEF HandlerOK, Requests
<1>5. /\ versions' = versions
      /\ blobs \subseteq blobs' /\ blobs' \subseteq Contents
      /\ current' \in [Schemas -> Nat] /\ staged' \in [Schemas -> Nat]
      /\ memCurrent' \in [Schemas -> Snapshots]
      /\ memStaged' \in [Schemas -> Snapshots]
      /\ promoted' \in [Schemas -> SUBSET Nat] /\ waived' \in [Schemas -> BOOLEAN]
  BY Zenon DEF CommitDiscard, IInv, TypeOK, memVars
<1>6. PointersBacked'
  BY Zenon DEF CommitDiscard, IInv, TypeOK, PointersBacked, StoredAs, memVars
<1> QED
  BY <1>3, <1>4, <1>5, <1>6, KeepsRows, Zenon

(* Clearing a staged slot leaves the others as they were. *)
LEMMA ClearSlotKeeps ==
  ASSUME IInv, NEW p \in Procs, NEW s \in Schemas, ClearSlot(p, s)
  PROVE  IInv'
<1>1. req[p] \in Requests /\ req[p].ph = "clear"
  BY Zenon DEF IInv, TypeOK, ClearSlot
<1>2. /\ versions' = versions
      /\ blobs \subseteq blobs' /\ blobs' \subseteq Contents
      /\ current' \in [Schemas -> Nat] /\ staged' \in [Schemas -> Nat]
      /\ memCurrent' \in [Schemas -> Snapshots]
      /\ memStaged' \in [Schemas -> Snapshots]
      /\ promoted' \in [Schemas -> SUBSET Nat] /\ waived' \in [Schemas -> BOOLEAN]
  BY Zenon DEF ClearSlot, IInv, TypeOK, dbVars, history, NoSnap, Snapshots
<1>3. PointersBacked'
  BY Zenon DEF ClearSlot, IInv, TypeOK, PointersBacked, StoredAs, dbVars
<1>4. PICK R \in Requests : /\ req' = [req EXCEPT ![p] = R]
                            /\ HandlerOK(R)' /\ R.ph \in {"idle", "clear"}
  <2>1. CASE Return(p)
    BY <2>1, NoRequestType, NoRequestOK, Zenon DEF Return, NoRequest
  <2>2. CASE req' = [req EXCEPT ![p].todo = req[p].todo \ {s}]
    <3>1. PICK T \in SUBSET Schemas : T = req[p].todo \ {s}
      BY <1>1, Zenon DEF Requests
    <3>2. PICK R \in Requests : R = [req[p] EXCEPT !.todo = T]
      BY <1>1, UpdateTodo, Zenon DEF Phases
    <3>3. HandlerOK(R)' /\ R.ph = "clear"
      BY <1>1, <3>2, Zenon DEF HandlerOK, Requests
    <3> QED
      BY <2>2, <3>1, <3>2, <3>3, Zenon
  <2> QED
    BY <2>1, <2>2, Zenon DEF ClearSlot
<1> QED
  BY <1>2, <1>3, <1>4, KeepsRows, Zenon

(* A staged snapshot moves from its slot to the handler. *)
LEMMA SwapSlotKeeps ==
  ASSUME IInv, NEW p \in Procs, NEW s \in Schemas, SwapSlot(p, s)
  PROVE  IInv'
<1>1. req[p] \in Requests /\ req[p].ph = "swap" /\ memStaged[s] \in Snapshots
  BY Zenon DEF IInv, TypeOK, SwapSlot
<1>2. /\ versions' = versions
      /\ blobs \subseteq blobs' /\ blobs' \subseteq Contents
      /\ current' \in [Schemas -> Nat] /\ staged' \in [Schemas -> Nat]
      /\ memCurrent' \in [Schemas -> Snapshots]
      /\ memStaged' \in [Schemas -> Snapshots]
      /\ promoted' \in [Schemas -> SUBSET Nat] /\ waived' \in [Schemas -> BOOLEAN]
  BY Zenon DEF SwapSlot, IInv, TypeOK, dbVars, history, NoSnap, Snapshots
<1>3. PointersBacked'
  BY Zenon DEF SwapSlot, IInv, TypeOK, PointersBacked, StoredAs, dbVars
<1>4. PICK T \in SUBSET Schemas : T = req[p].todo \ {s}
  BY <1>1, Zenon DEF Requests
<1>5. PICK R \in Requests : /\ req' = [req EXCEPT ![p] = R]
                            /\ HandlerOK(R)' /\ R.ph \in {"idle", "swap", "store"}
  <2>1. CASE Return(p)
    BY <2>1, NoRequestType, NoRequestOK, Zenon DEF Return, NoRequest
  <2>2. CASE req' = [req EXCEPT ![p].todo = T]
    <3>1. PICK R \in Requests : R = [req[p] EXCEPT !.todo = T]
      BY <1>1, UpdateTodo, Zenon DEF Phases
    <3>2. HandlerOK(R)' /\ R.ph = "swap"
      BY <1>1, <3>1, Zenon DEF HandlerOK, Requests
    <3> QED
      BY <2>2, <3>1, <3>2, Zenon
  <2>3. CASE req' = [req EXCEPT ![p].todo = T, ![p].s = s,
                                ![p].held = memStaged[s], ![p].ph = "store"]
    <3>1. PICK R \in Requests : R = [req[p] EXCEPT !.todo = T, !.s = s,
                                        !.held = memStaged[s], !.ph = "store"]
      BY <1>1, UpdateHeldTodo, Zenon DEF Phases
    <3>2. R.ph = "store" /\ R.s = s /\ R.held = memStaged[s]
      BY <1>1, <3>1, Zenon DEF Requests
    <3>3. HandlerOK(R)
      BY <3>2, SMTT(30) DEF HandlerOK, IInv, PointersBacked
    <3>4. HandlerOK(R)'
      BY <1>2, <3>3, <3>2, Zenon DEF HandlerOK, StoredAs
    <3> QED
      BY <2>3, <3>1, <3>2, <3>4, Zenon
  <2> QED
    BY <1>4, <2>1, <2>2, <2>3, Zenon DEF SwapSlot
<1> QED
  BY <1>2, <1>3, <1>5, KeepsRows, Zenon

(* The snapshot the handler swapped out becomes current. *)
LEMMA StoreCurrentKeeps ==
  ASSUME IInv, NEW p \in Procs, StoreCurrent(p)
  PROVE  IInv'
<1>1. req[p] \in Requests /\ HandlerOK(req[p]) /\ req[p].ph = "store"
  BY SMTT(30) DEF IInv, TypeOK, HandlersBacked, StoreCurrent
<1>2. /\ req[p].s \in Schemas /\ req[p].held \in Snapshots
      /\ req[p].held # NoSnap =>
            StoredAs(req[p].s, req[p].held.v, req[p].held.c)
  BY <1>1, Zenon DEF HandlerOK, Requests
<1>3. /\ versions' = versions
      /\ blobs \subseteq blobs' /\ blobs' \subseteq Contents
      /\ current' \in [Schemas -> Nat] /\ staged' \in [Schemas -> Nat]
      /\ memCurrent' \in [Schemas -> Snapshots]
      /\ memStaged' \in [Schemas -> Snapshots]
      /\ promoted' \in [Schemas -> SUBSET Nat] /\ waived' \in [Schemas -> BOOLEAN]
  BY <1>2, Zenon DEF StoreCurrent, IInv, TypeOK, dbVars, history
<1>4. PointersBacked'
  BY <1>2, Zenon DEF StoreCurrent, IInv, TypeOK, PointersBacked, StoredAs, dbVars
<1>5. PICK R \in Requests : /\ req' = [req EXCEPT ![p] = R]
                            /\ HandlerOK(R)' /\ R.ph \in {"idle", "swap"}
  <2>1. CASE Return(p)
    BY <2>1, NoRequestType, NoRequestOK, Zenon DEF Return, NoRequest
  <2>2. CASE req' = [req EXCEPT ![p].held = NoSnap, ![p].s = None,
                                ![p].ph = "swap"]
    <3>1. None \in Schemas \cup {None} /\ NoSnap \in Snapshots /\ "swap" \in Phases
      BY Zenon DEF NoSnap, Snapshots, Phases
    <3>2. PICK R \in Requests : R = [req[p] EXCEPT !.s = None, !.held = NoSnap,
                                                   !.ph = "swap"]
      BY <1>1, <3>1, UpdateHeld, Zenon
    <3>3. [req[p] EXCEPT !.held = NoSnap, !.s = None, !.ph = "swap"] = R
      BY <1>1, <3>2, Zenon DEF Requests
    <3>4. HandlerOK(R)' /\ R.ph = "swap"
      BY <1>1, <3>2, Zenon DEF HandlerOK, Requests
    <3> QED
      BY <2>2, <3>3, <3>4, Zenon
  <2> QED
    BY <2>1, <2>2, Zenon DEF StoreCurrent
<1> QED
  BY <1>3, <1>4, <1>5, KeepsRows, Zenon
-----------------------------------------------------------------------------
(* Insertion of a version, restart, and the whole next-state relation. *)

(* A number chosen no higher than the next free one and not taken since is *)
(* the next free one.                                                      *)
LEMMA InsertIsNext ==
  ASSUME NEW D, NEW n \in Nat, D = 1..n,
         NEW v \in Nat, v # 0, v = 1 \/ v - 1 \in D, v \notin D
  PROVE  v = n + 1 /\ D \cup {v} = 1..(n + 1)
  OBVIOUS

(* The inserted row is the next one, and its publisher alone owns it. *)
LEMMA PutVersionKeeps ==
  ASSUME IInv, NEW p \in Procs, PutVersion(p)
  PROVE  IInv'
<1> DEFINE s == req[p].s
           v == req[p].v
           c == req[p].c
<1>1. req[p] \in Requests /\ HandlerOK(req[p]) /\ req[p].ph = "version"
  BY Zenon DEF IInv, TypeOK, HandlersBacked, PutVersion
<1>2. /\ s \in Schemas /\ v \in Nat /\ c \in Contents /\ c \in blobs
      /\ v # 0 /\ (v = 1 \/ v - 1 \in DOMAIN versions[s])
  BY <1>1, Zenon DEF HandlerOK, Requests
<1>3. CASE v \in DOMAIN versions[s]
  <2>1. Return(p) /\ UNCHANGED <<dbVars, memVars, history>>
    BY <1>3, Zenon DEF PutVersion, dbVars
  <2> QED
    BY <2>1, ReturnKeepsState, Zenon
<1>4. CASE v \notin DOMAIN versions[s]
  <2>1. PICK R \in Requests : R = [req[p] EXCEPT !.ph = "stage"]
    BY <1>1, UpdatePhase, Zenon DEF Phases
  <2>2. /\ R.s = s /\ R.v = v /\ R.c = c /\ R.ph = "stage" /\ R.op = req[p].op
    BY <1>1, <2>1, Zenon DEF Requests
  <2>3. /\ req' = [req EXCEPT ![p] = R]
        /\ versions' = [versions EXCEPT ![s] =
                          [w \in DOMAIN versions[s] \cup {v} |->
                              IF w = v THEN c ELSE versions[s][w]]]
        /\ UNCHANGED <<blobs, current, staged, memVars, history>>
    BY <1>4, <2>1, SMTT(30) DEF PutVersion, Goto
  <2>4. /\ DOMAIN versions' = Schemas
        /\ DOMAIN versions'[s] = DOMAIN versions[s] \cup {v}
        /\ versions'[s] \in [DOMAIN versions[s] \cup {v} -> Contents]
        /\ versions'[s][v] = c
        /\ \A t \in Schemas : \A w \in DOMAIN versions[t] :
              w \in DOMAIN versions'[t] /\ versions'[t][w] = versions[t][w]
        /\ \A t \in Schemas \ {s} : versions'[t] = versions[t]
    BY <1>2, <1>4, <2>3 DEF IInv, TypeOK
  <2>5. req' \in [Procs -> Requests] /\ req'[p] = R
        /\ \A q \in Procs \ {p} : req'[q] = req[q]
    BY <2>3, Zenon DEF IInv, TypeOK
  <2> HIDE DEF s, v, c
  <2>6. TypeOK'
    <3>1. \A t \in Schemas : /\ DOMAIN versions'[t] \subseteq Nat
                             /\ versions'[t] \in [DOMAIN versions'[t] -> Contents]
      BY <1>2, <2>4, SMTT(30) DEF IInv, TypeOK
    <3> QED
      BY <3>1, <2>3, <2>4, <2>5, Zenon DEF IInv, TypeOK, memVars, history
  <2>7. Contiguous'
    <3> SUFFICES ASSUME NEW t \in Schemas
                 PROVE  \E n \in Nat : DOMAIN versions'[t] = 1..n
      BY Zenon DEF Contiguous
    <3>1. PICK n \in Nat : DOMAIN versions[t] = 1..n
      BY SMTT(30) DEF IInv, Contiguous
    <3>2. CASE t = s
      <4>1. DOMAIN versions'[t] = 1..(n + 1)
        BY <1>2, <1>4, <2>4, <3>1, <3>2, InsertIsNext, SMTT(30)
      <4> QED
        BY <4>1
    <3>3. CASE t # s
      BY <2>4, <3>1, <3>3, SMTT(30)
    <3> QED
      BY <3>2, <3>3, SMTT(30)
  <2>8. PointersBacked'
    <3>1. \A t \in Schemas : \A w \in DOMAIN versions[t] :
              w \in DOMAIN versions'[t] /\ versions'[t][w] = versions[t][w]
      BY <2>4, Zenon
    <3>2. /\ current' = current /\ staged' = staged
          /\ memCurrent' = memCurrent /\ memStaged' = memStaged
      BY <2>3, Zenon DEF memVars
    <3> QED
      BY <3>1, <3>2, Zenon DEF IInv, PointersBacked, StoredAs
  <2>9. SourcesStored'
    <3> SUFFICES ASSUME NEW t \in Schemas, NEW w \in DOMAIN versions'[t]
                 PROVE  versions'[t][w] \in blobs'
      BY Zenon DEF SourcesStored
    <3>1. CASE t = s /\ w = v
      BY <1>2, <2>3, <2>4, <3>1, Zenon
    <3>2. CASE ~(t = s /\ w = v)
      <4>1. w \in DOMAIN versions[t]
        BY <2>4, <3>2, Zenon
      <4> QED
        BY <2>3, <2>4, <4>1, SMTT(30) DEF IInv, SourcesStored
    <3> QED
      BY <3>1, <3>2, Zenon
  <2>10. HandlersBacked'
    <3> SUFFICES ASSUME NEW q \in Procs PROVE HandlerOK(req[q])'
      BY SMTT(30) DEF HandlersBacked
    <3>1. CASE q = p
      BY <1>2, <2>2, <2>4, <2>5, <3>1, SMTT(30) DEF HandlerOK, StoredAs
    <3>2. CASE q # p
      <4>1. req'[q] = req[q] /\ HandlerOK(req[q]) /\ req[q] \in Requests
        BY <2>5, <3>2, Zenon DEF IInv, TypeOK, HandlersBacked
      <4>2. \A t \in Schemas : \A w \in DOMAIN versions[t] :
                w \in DOMAIN versions'[t] /\ versions'[t][w] = versions[t][w]
        BY <2>4, Zenon
      <4>3. blobs' = blobs
        BY <2>3, SMTT(30)
      <4> DEFINE r == req[q]
      <4>4. r.ph \in {"stage", "mem"} => StoredAs(r.s, r.v, r.c)'
        BY <4>1, <4>2, SMTT(30) DEF HandlerOK, StoredAs
      <4>5. r.ph \in {"store", "compare"} =>
               /\ r.s \in Schemas
               /\ r.held # NoSnap => StoredAs(r.s, r.held.v, r.held.c)'
        BY <4>1, <4>2, SMTT(30) DEF HandlerOK, StoredAs
      <4>6. r.ph \in {"unchanged", "blobs", "version"} =>
               r.v # 0 /\ (r.v = 1 \/ r.v - 1 \in DOMAIN versions'[r.s])
        BY <4>1, <4>2, SMTT(30) DEF HandlerOK
      <4> QED
        BY <4>1, <4>3, <4>4, <4>5, <4>6, SMTT(30) DEF HandlerOK
    <3> QED
      BY <3>1, <3>2, Zenon
  <2>11. PublishedOnce'
    <3>1. ASSUME NEW q \in Procs \ {p}, Publishing(q), req[q].s = s
          PROVE  req[q].v # v
      BY <1>4, <3>1, Zenon DEF IInv, HandlersBacked, HandlerOK, StoredAs, Publishing
    <3>2. ASSUME NEW q \in Procs \ {p}, Publishing(q)' PROVE Publishing(q)
      BY <2>5, <3>2, Zenon DEF Publishing
    <3> QED
      BY <2>2, <2>5, <3>1, <3>2, SMTT(30) DEF IInv, PublishedOnce
  <2> QED
    BY <2>6, <2>7, <2>8, <2>9, <2>10, <2>11, Zenon DEF IInv
<1> QED
  BY <1>3, <1>4, Zenon

(* Restore fills the slots from rows that exist. *)
LEMMA RestartKeeps ==
  ASSUME IInv, Restart
  PROVE  IInv'
<1>1. /\ versions' = versions /\ blobs' = blobs
      /\ current' = current /\ staged' = staged
      /\ promoted' = promoted /\ waived' = waived
  BY Zenon DEF Restart, dbVars, history
<1>2. \A s \in Schemas : /\ memStaged'[s] = NoSnap
                         /\ memCurrent'[s] = BuildSnapshot(s)
  BY SMTT(30) DEF Restart
<1>3. \A s \in Schemas : /\ BuildSnapshot(s) \in Snapshots
                         /\ BuildSnapshot(s) # NoSnap =>
                               StoredAs(s, BuildSnapshot(s).v, BuildSnapshot(s).c)
  BY DEF IInv, TypeOK, PointersBacked, BuildSnapshot, StoredAs, NoSnap, Snapshots
<1>4. \A p \in Procs : req'[p] = NoRequest
  BY SMTT(30) DEF Restart
<1>5. TypeOK'
  BY <1>1, <1>3, NoRequestType, SMTT(30) DEF Restart, IInv, TypeOK, NoSnap, Snapshots
<1>6. PointersBacked'
  BY <1>1, <1>2, <1>3, Zenon DEF IInv, PointersBacked, StoredAs
<1>7. Contiguous' /\ SourcesStored'
  BY <1>1, SMTT(30) DEF IInv, Contiguous, SourcesStored
<1>8. HandlersBacked'
  BY <1>4 DEF HandlersBacked, HandlerOK, NoRequest
<1>9. PublishedOnce'
  BY <1>4 DEF PublishedOnce, Publishing, NoRequest
<1> QED
  BY <1>5, <1>6, <1>7, <1>8, <1>9, Zenon DEF IInv

(* Every step keeps the invariant: one case for each action. *)
LEMMA NextIInv == IInv /\ [Next]_vars => IInv'
<1> SUFFICES ASSUME IInv, [Next]_vars PROVE IInv'
  BY Zenon
<1>1. ASSUME NEW p \in Procs, Step(p) PROVE IInv'
  BY <1>1, ListVersionsKeeps, CheckUnchangedKeeps, PutBlobsKeeps, PutVersionKeeps,
     SetStagedKeeps, SetStagedMemoryKeeps, LoadStagedKeeps, CheckSchemaKeeps,
     BeginPromoteKeeps, CommitPromoteKeeps, SwapSlotKeeps, StoreCurrentKeeps,
     CommitDiscardKeeps, ClearSlotKeeps, Zenon
  DEF Step
<1>2. ASSUME NEW p \in Procs, Fail(p) \/ LoseReply(p) PROVE IInv'
  BY <1>2, ReturnKeepsState, SMTT(30) DEF Fail, LoseReply
<1>3. CASE UNCHANGED vars
  BY <1>3, ZenonT(30) DEF vars, IInv, TypeOK, Contiguous, PointersBacked, StoredAs,
              SourcesStored, HandlersBacked, HandlerOK, PublishedOnce, Publishing
<1> QED
  BY <1>1, <1>2, <1>3, ArriveKeeps, RestartKeeps, Zenon DEF Next
-----------------------------------------------------------------------------
(* IInv is an invariant of the specification.  The theorems below read     *)
(* their properties off it.                                                *)
THEOREM Invariance == Spec => []IInv
<1> QED
  BY InitIInv, NextIInv, PTL DEF Spec

(* The variables keep their types. *)
THEOREM TypeCorrect == Spec => []TypeOK
<1>1. IInv => TypeOK
  BY Zenon DEF IInv
<1> QED
  BY <1>1, Invariance, PTL

(* Whatever the number of publishers racing in publishInternal, and        *)
(* wherever they fail or the server crashes, the version numbers of a      *)
(* schema are 1..n.                                                        *)
THEOREM Contiguity == Spec => []VersionsContiguous
<1>1. IInv => VersionsContiguous
  <2> SUFFICES ASSUME IInv, NEW s \in Schemas
               PROVE  DOMAIN versions[s] = 1..LastVersion(s)
    BY Zenon DEF VersionsContiguous
  <2>1. PICK n \in Nat : DOMAIN versions[s] = 1..n
    BY Zenon DEF IInv, Contiguous
  <2> QED
    BY <2>1, LastVersionOfLog, Zenon
<1> QED
  BY <1>1, Invariance, PTL

(* current_version, staged_version and the snapshots in memory always name *)
(* a stored version, although no foreign key and no lock says so.          *)
THEOREM PointerIntegrity == Spec => []PointersBacked
<1>1. IInv => PointersBacked
  BY Zenon DEF IInv
<1> QED
  BY <1>1, Invariance, PTL

(* Every stored version has its sources in the blob store. *)
THEOREM SourcesAlwaysStored == Spec => []SourcesStored
<1>1. IInv => SourcesStored
  BY Zenon DEF IInv
<1> QED
  BY <1>1, Invariance, PTL

(* No two publishers are ever about to stage the same version number. *)
THEOREM NumbersOwned == Spec => []PublishedOnce
<1>1. IInv => PublishedOnce
  BY Zenon DEF IInv
<1> QED
  BY <1>1, Invariance, PTL
-----------------------------------------------------------------------------
(* What a step may do to the rows. *)

(* Only PutVersion touches schema_versions, and only to add a row. *)
LEMMA NextKeepsRows ==
  IInv /\ [Next]_vars =>
      \/ versions' = versions
      \/ \E p \in Procs : PutVersion(p)
<1> SUFFICES ASSUME IInv, [Next]_vars, versions' # versions
             PROVE  \E p \in Procs : PutVersion(p)
  BY Zenon
<1>1. ASSUME NEW p \in Procs, Arrive(p) PROVE versions' = versions
  BY <1>1, Zenon DEF Arrive, Publish, Rebase, Rollback, Promote, DiscardStaging, dbVars
<1>2. ASSUME NEW p \in Procs, Step(p) PROVE versions' = versions \/ PutVersion(p)
  BY <1>2, Zenon DEF Step, ListVersions, CheckUnchanged, PutBlobs, SetStaged,
     SetStagedMemory, LoadStaged, CheckSchema, BeginPromote, CommitPromote,
     SwapSlot, StoreCurrent, CommitDiscard, ClearSlot, dbVars
<1>3. Restart => versions' = versions
  BY Zenon DEF Restart, dbVars
<1>4. ASSUME NEW p \in Procs, Fail(p) \/ LoseReply(p) PROVE versions' = versions
  BY <1>4, Zenon DEF Fail, LoseReply, dbVars
<1> QED
  BY <1>1, <1>2, <1>3, <1>4, Zenon DEF Next, vars

(* A stored version is never rewritten or removed. *)
THEOREM Immutability == Spec => RowsImmutable
<1> DEFINE Kept == \A s \in Schemas : \A v \in DOMAIN versions[s] :
                      v \in DOMAIN versions'[s] /\ versions'[s][v] = versions[s][v]
<1>1. IInv /\ [Next]_vars => Kept
  <2> SUFFICES ASSUME IInv, NEW p \in Procs, PutVersion(p) PROVE Kept
    BY NextKeepsRows, SMTT(30)
  <2>1. req[p].s \in Schemas /\ DOMAIN versions = Schemas
    BY Zenon DEF IInv, TypeOK, HandlersBacked, HandlerOK, PutVersion
  <2> QED
    BY <2>1 DEF PutVersion
<1> QED
  BY <1>1, Invariance, PTL DEF Spec, RowsImmutable

(* A function on 1..m is a sequence of length m. *)
LEMMA FunctionIsSequence ==
  ASSUME NEW S, NEW m \in Nat, NEW f \in [1..m -> S]
  PROVE  f \in Seq(S) /\ Len(f) = m
  OBVIOUS

(* The rows of a schema are a sequence of contents. *)
LEMMA RowsAreSequence ==
  ASSUME IInv, NEW s \in Schemas, NEW n \in Nat, DOMAIN versions[s] = 1..n
  PROVE  versions[s] \in Seq(Contents) /\ Len(versions[s]) = n
<1>1. versions[s] \in [1..n -> Contents]
  BY SMTT(30) DEF IInv, TypeOK
<1> QED
  BY <1>1, FunctionIsSequence, Zenon

(* A committed insertion is the abstract append. *)
LEMMA InsertIsAppend ==
  ASSUME IInv, NEW p \in Procs, PutVersion(p), versions' # versions
  PROVE  \E s \in Schemas, c \in Contents : Store!AddVersion(s, c)
<1> DEFINE s == req[p].s
           v == req[p].v
           c == req[p].c
           new == [w \in DOMAIN versions[s] \cup {v} |->
                      IF w = v THEN c ELSE versions[s][w]]
<1>1. /\ s \in Schemas /\ v \in Nat /\ c \in Contents
      /\ v # 0 /\ (v = 1 \/ v - 1 \in DOMAIN versions[s])
  BY Zenon DEF IInv, TypeOK, HandlersBacked, HandlerOK, Requests, PutVersion
<1>2. /\ v \notin DOMAIN versions[s]
      /\ versions' = [versions EXCEPT ![s] = new]
      /\ UNCHANGED <<current, staged>>
  BY SMTT(30) DEF PutVersion
<1>3. PICK n \in Nat : DOMAIN versions[s] = 1..n
  BY <1>1, Zenon DEF IInv, Contiguous
<1>4. v = n + 1 /\ DOMAIN versions[s] \cup {v} = 1..(n + 1)
  BY <1>1, <1>2, <1>3, InsertIsNext, SMTT(30)
<1>5. versions[s] \in Seq(Contents) /\ Len(versions[s]) = n
  BY <1>1, <1>3, RowsAreSequence, Zenon
<1>6. new = Append(versions[s], c)
  <2>1. versions[s] \in [1..n -> Contents]
    BY <1>1, <1>3, SMTT(30) DEF IInv, TypeOK
  <2>2. new \in [1..(n + 1) -> Contents]
    BY <1>1, <1>3, <1>4, <2>1, Zenon
  <2>3. new \in Seq(Contents) /\ Len(new) = n + 1
    <3> HIDE DEF new
    <3>1. n + 1 \in Nat
      OBVIOUS
    <3> QED
      BY <2>2, <3>1, FunctionIsSequence, Zenon
  <2>4. /\ Append(versions[s], c) \in Seq(Contents)
        /\ Len(Append(versions[s], c)) = n + 1
        /\ \A i \in 1..n : Append(versions[s], c)[i] = versions[s][i]
        /\ Append(versions[s], c)[n + 1] = c
    BY <1>1, <1>5, AppendProperties, SMTT(30)
  <2>5. \A i \in 1..(n + 1) : new[i] = Append(versions[s], c)[i]
    BY <1>3, <1>4, <2>4, Zenon
  <2> HIDE DEF new, s, c, v
  <2> QED
    BY <2>3, <2>4, <2>5, SeqEqual, SMTT(30)
<1>7. Store!AddVersion(s, c)
  BY <1>2, <1>6, Zenon DEF Store!AddVersion
<1> QED
  BY <1>1, <1>7, SMTT(30)

(* Each step of a handler is, on the rows, one abstract operation or none. *)
LEMMA StepImplementsStore ==
  IInv /\ [Next]_vars => [Store!Next]_<<versions, current, staged>>
<1> SUFFICES ASSUME IInv, [Next]_vars
             PROVE  Store!Next \/ UNCHANGED <<versions, current, staged>>
  BY Zenon
<1> USE DEF dbVars
<1>1. ASSUME NEW p \in Procs, SetStaged(p) PROVE Store!Next
  <2>1. /\ req[p].s \in Schemas
        /\ req[p].v \in DOMAIN versions[req[p].s]
    BY <1>1, Zenon DEF IInv, HandlersBacked, HandlerOK, StoredAs, SetStaged
  <2>2. PICK n \in Nat : DOMAIN versions[req[p].s] = 1..n
    BY <2>1, SMTT(30) DEF IInv, Contiguous
  <2>3. req[p].v \in 1..Len(versions[req[p].s])
    BY <2>1, <2>2, RowsAreSequence, Zenon
  <2>4. Store!Stage(req[p].s, req[p].v)
    BY <1>1, Zenon DEF SetStaged, Store!Stage
  <2> QED
    BY <2>1, <2>3, <2>4, SMTT(30) DEF Store!Next
<1>2. ASSUME NEW p \in Procs, CommitPromote(p) PROVE Store!Next
  <2>1. PICK S \in SUBSET Store!StagedSchemas : S = req[p].todo \cap StagedRows
    BY Zenon DEF StagedRows, Store!StagedSchemas
  <2>2. Store!Promote(S)
    BY <1>2, <2>1, Zenon DEF CommitPromote, Store!Promote
  <2> QED
    BY <2>2, Zenon DEF Store!Next
<1>3. ASSUME NEW p \in Procs, CommitDiscard(p) PROVE Store!Next
  <2>1. PICK S \in SUBSET Store!StagedSchemas : S = req[p].todo \cap StagedRows
    BY Zenon DEF StagedRows, Store!StagedSchemas
  <2>2. Store!Discard(S)
    BY <1>3, <2>1, Zenon DEF CommitDiscard, Store!Discard
  <2> QED
    BY <2>2, Zenon DEF Store!Next
<1>4. ASSUME NEW p \in Procs, PutVersion(p)
      PROVE  Store!Next \/ UNCHANGED <<versions, current, staged>>
  <2>1. CASE versions' = versions
    BY <1>4, <2>1, Zenon DEF PutVersion
  <2>2. CASE versions' # versions
    BY <1>4, <2>2, InsertIsAppend, Zenon DEF Store!Next
  <2> QED
    BY <2>1, <2>2, Zenon
<1>5. ASSUME NEW p \in Procs, Arrive(p) PROVE UNCHANGED <<versions, current, staged>>
  BY <1>5, Zenon DEF Arrive, Publish, Rebase, Rollback, Promote, DiscardStaging
<1>6. ASSUME NEW p \in Procs, Step(p)
      PROVE  \/ SetStaged(p) \/ CommitPromote(p) \/ CommitDiscard(p) \/ PutVersion(p)
             \/ UNCHANGED <<versions, current, staged>>
  BY <1>6, Zenon DEF Step, ListVersions, CheckUnchanged, PutBlobs, SetStagedMemory,
     LoadStaged, CheckSchema, BeginPromote, SwapSlot, StoreCurrent, ClearSlot
<1>7. ASSUME NEW p \in Procs, Fail(p) \/ LoseReply(p)
      PROVE  UNCHANGED <<versions, current, staged>>
  BY <1>7, Zenon DEF Fail, LoseReply
<1>8. Restart \/ UNCHANGED vars => UNCHANGED <<versions, current, staged>>
  BY Zenon DEF Restart, vars
<1> QED
  BY <1>1, <1>2, <1>3, <1>4, <1>5, <1>6, <1>7, <1>8, Zenon DEF Next

(* Registry implements the abstract store: on the rows, racing, failing    *)
(* and crashing handlers do nothing but append, stage stored versions, and *)
(* promote or discard sets of schemas in one step.                         *)
THEOREM Refinement == Spec => ImplementsStore
<1>1. Init => Store!Init
  <2> SUFFICES ASSUME Init PROVE Store!Init
    BY Zenon
  <2>1. [v \in {} |-> None] = << >>
    OBVIOUS
  <2> QED
    BY <2>1, Zenon DEF Init, Store!Init
<1> QED
  BY <1>1, StepImplementsStore, Invariance, PTL
  DEF Spec, ImplementsStore, Store!Spec, Store!storeVars
=============================================================================
