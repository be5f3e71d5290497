-------------------------- MODULE PromotionProofs --------------------------
(***************************************************************************)
(* Proofs about what a promotion makes visible: that the rules of          *)
(* compat.Check are sound, and that a server which takes one request at a  *)
(* time and hears the reply of every store call applies them to the rows   *)
(* it promotes, whatever memory holds between two writes.                  *)
(***************************************************************************)
EXTENDS RegistryProofs, Compat

-----------------------------------------------------------------------------
(* The rules. *)

(* Every snapshot passes against itself: Registry's assumption on its      *)
(* relation Compatible.                                                    *)
THEOREM CheckReflexive == \A snap : Check(snap, snap)
  BY DEF Check, CheckFile, CheckMessage, CheckField, CheckEnum, CheckService

(* A field that passed twice passes at once. *)
LEMMA FieldTransitive ==
  ASSUME NEW a, NEW b, NEW c, CheckField(a, b), CheckField(b, c)
  PROVE  CheckField(a, c)
  BY Zenon DEF CheckField

(* So does a message ... *)
LEMMA MessageTransitive ==
  ASSUME NEW a, NEW b, NEW c, CheckMessage(a, b), CheckMessage(b, c)
  PROVE  CheckMessage(a, c)
<1>1. ASSUME NEW n \in DOMAIN a.fields
      PROVE  n \in DOMAIN c.fields /\ CheckField(a.fields[n], c.fields[n])
  <2>1. n \in DOMAIN b.fields /\ CheckField(a.fields[n], b.fields[n])
    BY Zenon DEF CheckMessage
  <2>2. n \in DOMAIN c.fields /\ CheckField(b.fields[n], c.fields[n])
    BY <2>1, Zenon DEF CheckMessage
  <2> QED
    BY <2>1, <2>2, FieldTransitive, Zenon
<1>2. a.oneofs \subseteq c.oneofs
  BY Zenon DEF CheckMessage
<1> QED
  BY <1>1, <1>2, Zenon DEF CheckMessage

(* ... and a file. *)
LEMMA FileTransitive ==
  ASSUME NEW a, NEW b, NEW c, CheckFile(a, b), CheckFile(b, c)
  PROVE  CheckFile(a, c)
<1>1. ASSUME NEW m \in DOMAIN a.messages
      PROVE  /\ m \in DOMAIN c.messages
             /\ CheckMessage(a.messages[m], c.messages[m])
  <2>1. m \in DOMAIN b.messages /\ CheckMessage(a.messages[m], b.messages[m])
    BY Zenon DEF CheckFile
  <2>2. m \in DOMAIN c.messages /\ CheckMessage(b.messages[m], c.messages[m])
    BY <2>1, Zenon DEF CheckFile
  <2> QED
    BY <2>1, <2>2, MessageTransitive, Zenon
<1>2. ASSUME NEW e \in DOMAIN a.enums
      PROVE  e \in DOMAIN c.enums /\ CheckEnum(a.enums[e], c.enums[e])
  <2>1. e \in DOMAIN b.enums /\ CheckEnum(a.enums[e], b.enums[e])
    BY Zenon DEF CheckFile
  <2>2. e \in DOMAIN c.enums /\ CheckEnum(b.enums[e], c.enums[e])
    BY <2>1, Zenon DEF CheckFile
  <2> QED
    BY <2>1, <2>2, Zenon DEF CheckEnum
<1>3. ASSUME NEW s \in DOMAIN a.services
      PROVE  s \in DOMAIN c.services /\ CheckService(a.services[s], c.services[s])
  <2>1. s \in DOMAIN b.services /\ CheckService(a.services[s], b.services[s])
    BY Zenon DEF CheckFile
  <2>2. s \in DOMAIN c.services /\ CheckService(b.services[s], c.services[s])
    BY <2>1, Zenon DEF CheckFile
  <2> QED
    BY <2>1, <2>2, Zenon DEF CheckService
<1> QED
  BY <1>1, <1>2, <1>3, Zenon DEF CheckFile

(* Promote compares a version with the one before it only.  That is        *)
(* enough: a version that passed against one that passed against a third   *)
(* would have passed against the third.                                    *)
THEOREM CheckTransitive ==
  ASSUME NEW a, NEW b, NEW c, Check(a, b), Check(b, c)
  PROVE  Check(a, c)
<1> SUFFICES ASSUME NEW f \in DOMAIN a
             PROVE  f \in DOMAIN c /\ CheckFile(a[f], c[f])
  BY Zenon DEF Check
<1>1. f \in DOMAIN b /\ CheckFile(a[f], b[f])
  BY Zenon DEF Check
<1>2. f \in DOMAIN c /\ CheckFile(b[f], c[f])
  BY <1>1, Zenon DEF Check
<1> QED
  BY <1>1, <1>2, FileTransitive, Zenon

(* An enum that keeps its full name keeps its numbers. *)
LEMMA NumbersKept ==
  ASSUME NEW old, NEW new, Check(old, new), SamePackages(old, new),
         NEW type, NEW x \in EnumNumbers(old, type)
  PROVE  x \in EnumNumbers(new, type)
<1>1. PICK f \in DOMAIN old : \E e \in DOMAIN old[f].enums :
          FullName(old[f], e) = type /\ x \in old[f].enums[e]
  BY DEF EnumNumbers
<1>2. PICK e \in DOMAIN old[f].enums :
          FullName(old[f], e) = type /\ x \in old[f].enums[e]
  BY <1>1, Zenon
<1>3. f \in DOMAIN new /\ CheckFile(old[f], new[f])
  BY Zenon DEF Check
<1>4. e \in DOMAIN new[f].enums /\ x \in new[f].enums[e]
  BY <1>2, <1>3, Zenon DEF CheckFile, CheckEnum
<1>5. FullName(new[f], e) = type
  BY <1>2, <1>3, Zenon DEF FullName, SamePackages
<1> QED
  BY <1>3, <1>4, <1>5 DEF EnumNumbers

(* What a field could hold, its successor can hold. *)
LEMMA EncodingsKept ==
  ASSUME NEW old, NEW new, Check(old, new), SamePackages(old, new),
         NEW before, NEW after, CheckField(before, after),
         NEW x \in Encodings(old, before)
  PROVE  x \in Encodings(new, after)
<1>1. before.kind = after.kind /\ before.card = after.card
  BY Zenon DEF CheckField
<1>2. Payloads(old, before) \subseteq Payloads(new, after)
  <2>1. CASE before.kind = "enum"
    <3>1. before.type = after.type
      BY <2>1, Zenon DEF CheckField
    <3>2. Payloads(old, before) = EnumNumbers(old, before.type)
      BY <2>1, Zenon DEF Payloads
    <3>3. Payloads(new, after) = EnumNumbers(new, before.type)
      BY <1>1, <2>1, <3>1, Zenon DEF Payloads
    <3> QED
      BY <3>2, <3>3, NumbersKept
  <2>2. CASE before.kind = "message"
    BY <1>1, <2>2, Zenon DEF Payloads, CheckField
  <2>3. CASE before.kind \notin {"enum", "message"}
    BY <1>1, <2>3, Zenon DEF Payloads
  <2> QED
    BY <2>1, <2>2, <2>3, Zenon
<1> QED
  BY <1>1, <1>2, Zenon DEF Encodings

(* The rules are sound, field by field, for files that keep their package: *)
(* whatever one field held under a version that Check lets be replaced is  *)
(* read back under the replacing one.                                      *)
THEOREM CheckSound ==
  ASSUME NEW old, NEW new, Check(old, new), SamePackages(old, new)
  PROVE  ReadsBack(old, new)
<1> SUFFICES ASSUME NEW f \in DOMAIN old, NEW m \in DOMAIN old[f].messages,
                    NEW n \in DOMAIN old[f].messages[m].fields,
                    NEW x \in Encodings(old, old[f].messages[m].fields[n])
             PROVE  \E g \in DOMAIN new : \E d \in DOMAIN new[g].messages :
                       /\ FullName(new[g], d) = FullName(old[f], m)
                       /\ Decodes(new, new[g].messages[d], n, x,
                                  old[f].messages[m].fields[n].name)
  BY Zenon DEF ReadsBack
<1>1. f \in DOMAIN new /\ CheckFile(old[f], new[f])
  BY Zenon DEF Check
<1>2. m \in DOMAIN new[f].messages /\ CheckMessage(old[f].messages[m], new[f].messages[m])
  BY <1>1, Zenon DEF CheckFile
<1>3. /\ n \in DOMAIN new[f].messages[m].fields
      /\ CheckField(old[f].messages[m].fields[n], new[f].messages[m].fields[n])
  BY <1>2, Zenon DEF CheckMessage
<1>4. x \in Encodings(new, new[f].messages[m].fields[n])
  BY <1>3, EncodingsKept
<1>5. Decodes(new, new[f].messages[m], n, x, old[f].messages[m].fields[n].name)
  BY <1>3, <1>4, Zenon DEF Decodes, CheckField
<1>6. FullName(new[f], m) = FullName(old[f], m)
  BY <1>1, Zenon DEF FullName, SamePackages
<1> QED
  BY <1>1, <1>2, <1>5, <1>6, Zenon

-----------------------------------------------------------------------------
(* One request at a time. *)

(* Memory and rows agree on a schema: what is staged in memory is staged   *)
(* in the store, and until a restart both pointers are those of the rows.  *)
Matches(s) ==
    /\ memStaged[s] # NoSnap => memStaged[s].v = staged[s]
    /\ ~restarted => memCurrent[s].v = current[s] /\ memStaged[s].v = staged[s]

(* What memory serves, and what the rows call current, has been promoted. *)
ServesPromoted ==
    /\ OnlyPromotedVisible
    /\ \A s \in Schemas : current[s] # 0 => current[s] \in promoted[s]

Busy == {"mem", "swap", "store", "clear"}

(* Between its write to the store and its last write to memory a request   *)
(* leaves them apart, in a way that its remaining steps repair.            *)
Apart(r) ==
    \A s \in Schemas :
        /\ r.ph \notin Busy => Matches(s)
        /\ r.ph = "mem" =>
              /\ ~restarted => memCurrent[s].v = current[s]
              /\ IF s = r.s THEN staged[s] = r.v ELSE Matches(s)
        /\ r.ph \in {"swap", "store"} =>
              /\ staged[s] = 0
              /\ s \notin r.todo => memStaged[s] = NoSnap
              /\ memStaged[s] # NoSnap => memStaged[s].v = current[s]
              /\ ~restarted /\ memStaged[s] = NoSnap /\ ~(r.ph = "store" /\ s = r.s)
                    => memCurrent[s].v = current[s]
        /\ r.ph = "store" /\ s = r.s =>
              memStaged[s] = NoSnap /\ r.held # NoSnap /\ r.held.v = current[s]
        /\ r.ph = "clear" =>
              /\ staged[s] = 0
              /\ s \notin r.todo => memStaged[s] = NoSnap
              /\ ~restarted => memCurrent[s].v = current[s]

(* The row's current version may be replaced by content c. *)
Replaces(s, c) == <<versions[s][current[s]], c>> \in Compatible

(* Before a restart a staged version that was not forced is newer than the *)
(* current one, or was compared with it when it was staged ...             *)
RowsChecked ==
    \A s \in Schemas : staged[s] # 0 /\ current[s] # 0 =>
        waived[s] \/ staged[s] > current[s] \/ Replaces(s, versions[s][staged[s]])

(* ... those that a promotion has visited are older or were compared by it *)
(* ...                                                                     *)
LoopChecked(r) ==
    \A s \in Schemas : staged[s] # 0 /\ current[s] # 0 =>
        \/ r.ph \notin {"check", "compare", "begin", "promote"}
        \/ r.ph \in {"check", "compare"} /\ s \in r.todo
        \/ r.ph = "compare" /\ s = r.s
        \/ staged[s] <= current[s]
        \/ Replaces(s, versions[s][staged[s]])

(* ... and what a request is about to stage is newer, or was compared.     *)
RequestChecked(r) ==
    /\ r.ph = "compare" => r.held = memStaged[r.s]
    /\ r.ph \in {"unchanged", "blobs", "version", "stage"} =>
          \/ r.v > current[r.s]
          \/ r.ph = "stage" /\ (r.force \/ current[r.s] = 0 \/ Replaces(r.s, r.c))

(* The rows a statement began with are those staged. *)
Begun(r) == r.ph \in {"promote", "discard"} => r.todo = StagedRows

SerialInv(p) ==
    /\ ServesPromoted
    /\ Apart(req[p])
    /\ Begun(req[p])
    /\ ~restarted => RowsChecked /\ LoopChecked(req[p]) /\ RequestChecked(req[p])

(* One request at a time, and the reply of every store call is heard. *)
Serial(p) == Procs = {p} /\ ~MayLoseReply

-----------------------------------------------------------------------------
(* The steps that leave both the pointers of the rows and memory alone. *)

(* It is enough to look at the request. *)
LEMMA QuietKeeps ==
  ASSUME NEW p \in Procs, IInv, SerialInv(p),
         UNCHANGED <<current, staged, memVars, history, restarted>>,
         \A s \in Schemas : \A v \in DOMAIN versions[s] : versions'[s][v] = versions[s][v],
         req[p].ph \notin Busy, req'[p].ph \notin Busy, Begun(req[p])',
         ~restarted => LoopChecked(req[p])' /\ RequestChecked(req[p])'
  PROVE  SerialInv(p)'
<1>1. UNCHANGED <<current, staged, memCurrent, memStaged, promoted, waived, restarted>>
  BY Zenon DEF memVars, history
<1>2. ServesPromoted'
  BY <1>1, Zenon DEF SerialInv, ServesPromoted, OnlyPromotedVisible
<1>3. Apart(req[p])'
  <2>a. \A s \in Schemas : Matches(s)
    BY Zenon DEF SerialInv, Apart
  <2>1. \A s \in Schemas : Matches(s)'
    BY <1>1, <2>a DEF Matches
  <2>2. req'[p].ph \notin {"mem", "swap", "store", "clear"}
    BY Zenon DEF Busy
  <2> QED
    BY <2>1, <2>2, Zenon DEF Apart, Busy
<1>4. ~restarted => RowsChecked'
  <2> SUFFICES ASSUME ~restarted, NEW s \in Schemas, staged[s] # 0, current[s] # 0
               PROVE  waived[s] \/ staged[s] > current[s] \/
                         Replaces(s, versions[s][staged[s]])'
    BY <1>1, Zenon DEF RowsChecked
  <2>1. staged[s] \in DOMAIN versions[s] /\ current[s] \in DOMAIN versions[s]
    BY Zenon DEF IInv, PointersBacked
  <2>2. waived[s] \/ staged[s] > current[s] \/ Replaces(s, versions[s][staged[s]])
    BY Zenon DEF SerialInv, RowsChecked
  <2> QED
    BY <1>1, <2>1, <2>2, Zenon DEF Replaces
<1>5. ~restarted' => ~restarted
  BY <1>1
<1> QED
  BY <1>2, <1>3, <1>4, <1>5, Zenon DEF SerialInv

(* Where no version is inserted, the checks of the rows stay as they are. *)
LEMMA QuietChecked ==
  ASSUME NEW p \in Procs, IInv, SerialInv(p), UNCHANGED <<versions, current, staged, memVars>>,
         NEW r, r = req'[p], LoopChecked(r), RequestChecked(r)
  PROVE  LoopChecked(req[p])' /\ RequestChecked(req[p])'
<1>1. memStaged' = memStaged
  BY Zenon DEF memVars
<1> QED
  BY <1>1, Zenon DEF LoopChecked, RequestChecked, Replaces

(* A request that returns, or arrives with nothing to be checked. *)
LEMMA PlainKeeps ==
  ASSUME NEW p \in Procs, IInv, SerialInv(p),
         UNCHANGED <<versions, current, staged, memVars, history, restarted>>,
         req[p].ph \notin Busy, req'[p].ph \in {"idle", "list"}
  PROVE  SerialInv(p)'
<1>1. /\ req'[p].ph \notin Busy
      /\ req'[p].ph \notin {"check", "compare", "begin", "promote", "discard"}
      /\ req'[p].ph \notin {"unchanged", "blobs", "version", "stage"}
      /\ req'[p].ph # "compare"
  BY Zenon DEF Busy
<1>2. Begun(req[p])'
  BY <1>1, Zenon DEF Begun
<1>3. LoopChecked(req[p])' /\ RequestChecked(req[p])'
  BY <1>1, Zenon DEF LoopChecked, RequestChecked
<1> QED
  BY <1>1, <1>2, <1>3, QuietKeeps, Zenon

(* A snapshot in memory has a positive number and the content of its row. *)
LEMMA SnapshotBacked ==
  ASSUME IInv, NEW s \in Schemas
  PROVE  /\ current[s] \in Nat /\ staged[s] \in Nat
         /\ memCurrent[s] # NoSnap =>
               /\ memCurrent[s].v \in Nat \ {0}
               /\ memCurrent[s].c = versions[s][memCurrent[s].v]
         /\ memStaged[s] # NoSnap =>
               /\ memStaged[s].v \in Nat \ {0}
               /\ memStaged[s].c = versions[s][memStaged[s].v]
<1>1. PICK n \in Nat : DOMAIN versions[s] = 1..n
  BY Zenon DEF IInv, Contiguous
<1>2. /\ memCurrent[s] # NoSnap => StoredAs(s, memCurrent[s].v, memCurrent[s].c)
      /\ memStaged[s] # NoSnap => StoredAs(s, memStaged[s].v, memStaged[s].c)
  BY Zenon DEF IInv, PointersBacked
<1>3. current[s] \in Nat /\ staged[s] \in Nat
  BY Zenon DEF IInv, TypeOK
<1> QED
  BY <1>1, <1>2, <1>3 DEF StoredAs

(* A number of 0 in memory is an empty slot. *)
LEMMA EmptySlot ==
  ASSUME IInv, NEW s \in Schemas
  PROVE  /\ memCurrent[s].v = 0 <=> memCurrent[s] = NoSnap
         /\ memStaged[s].v = 0 <=> memStaged[s] = NoSnap
<1>1. NoSnap.v = 0
  BY Zenon DEF NoSnap
<1> QED
  BY <1>1, SnapshotBacked, Zenon

(* The fields of a request that goes on to another phase. *)
LEMMA GotoFields ==
  ASSUME IInv, NEW p \in Procs, NEW ph, Goto(p, ph)
  PROVE  /\ req'[p].op = req[p].op /\ req'[p].ph = ph /\ req'[p].s = req[p].s
         /\ req'[p].v = req[p].v /\ req'[p].c = req[p].c
         /\ req'[p].force = req[p].force /\ req'[p].todo = req[p].todo
<1>1. req \in [Procs -> Requests] /\ req[p] \in Requests
  BY Zenon DEF IInv, TypeOK
<1>2. req'[p] = [req[p] EXCEPT !.ph = ph]
  BY <1>1, Zenon DEF Goto
<1> QED
  BY <1>1, <1>2, Zenon DEF Requests

(* A request that returns is idle. *)
LEMMA ReturnFields ==
  ASSUME IInv, NEW p \in Procs, Return(p)
  PROVE  req'[p] = NoRequest /\ req'[p].ph = "idle"
<1>1. req \in [Procs -> Requests]
  BY Zenon DEF IInv, TypeOK
<1> QED
  BY <1>1, Zenon DEF Return, NoRequest

(* A new request has something to be checked only if it is a rollback or a *)
(* promotion.                                                              *)
LEMMA SerialArrive ==
  ASSUME NEW p \in Procs, IInv, SerialInv(p), Arrive(p), restarted' = restarted
  PROVE  SerialInv(p)'
<1> USE DEF IInv
<1>1. UNCHANGED <<versions, current, staged, memVars, history, restarted>>
  BY Zenon DEF Arrive, Publish, Rebase, Rollback, Promote, DiscardStaging, dbVars
<1>2. req[p].ph = "idle"
  BY Zenon DEF Arrive, Publish, Rebase, Rollback, Promote, DiscardStaging, Idle
<1>3. req[p].ph \notin Busy
  BY <1>2, Zenon DEF Busy
<1>4. req \in [Procs -> Requests]
  BY Zenon DEF TypeOK
<1>5. CASE \/ \E s \in Schemas, c \in Contents : Publish(p, s, c)
           \/ \E s \in Schemas : Rebase(p, s)
  <2>1. req'[p].ph = "list"
    BY <1>4, <1>5, ZenonT(20) DEF Publish, Rebase, NoRequest
  <2> QED
    BY <1>1, <1>3, <2>1, PlainKeeps, Zenon
<1>6. ASSUME NEW s \in Schemas, NEW v \in DOMAIN versions[s], NEW f \in BOOLEAN,
             Rollback(p, s, v, f)
      PROVE  SerialInv(p)'
  <2> DEFINE r == req'[p]
  <2>1. /\ r.ph = "stage" /\ r.s = s /\ r.v = v /\ r.c = versions[s][v] /\ r.force = f
        /\ f \/ memCurrent[s] = NoSnap \/ <<memCurrent[s].c, versions[s][v]>> \in Compatible
    BY <1>4, <1>6, Zenon DEF Rollback, NoRequest
  <2>2. r.ph \notin Busy /\ Begun(req[p])' /\ LoopChecked(r)
    BY <2>1, Zenon DEF Busy, Begun, LoopChecked
  <2>3. ASSUME ~restarted PROVE RequestChecked(r)
    <3>1. memCurrent[s].v = current[s]
      BY <1>3, <2>3, Zenon DEF SerialInv, Apart, Matches
    <3>2. CASE memCurrent[s] = NoSnap
      <4>1. current[s] = 0
        BY <3>1, <3>2 DEF NoSnap
      <4> QED
        BY <2>1, <4>1, Zenon DEF RequestChecked
    <3>3. CASE memCurrent[s] # NoSnap
      <4>1. memCurrent[s].c = versions[s][current[s]]
        BY <3>1, <3>3, SnapshotBacked, Zenon
      <4>2. f \/ Replaces(s, r.c)
        BY <2>1, <3>3, <4>1, Zenon DEF Replaces
      <4> QED
        BY <2>1, <4>2, Zenon DEF RequestChecked
    <3> QED
      BY <3>2, <3>3, Zenon
  <2>4. ~restarted => LoopChecked(req[p])' /\ RequestChecked(req[p])'
    BY <1>1, <2>2, <2>3, QuietChecked, Zenon
  <2> QED
    BY <1>1, <1>3, <2>2, <2>4, QuietKeeps, Zenon
<1>7. CASE Promote(p)
  <2> DEFINE r == req'[p]
  <2>1. r.ph = "check" /\ r.todo = Schemas
    BY <1>4, <1>7, Zenon DEF Promote, NoRequest
  <2>2. r.ph \notin Busy /\ Begun(req[p])' /\ LoopChecked(r) /\ RequestChecked(r)
    BY <2>1, Zenon DEF Busy, Begun, LoopChecked, RequestChecked
  <2>3. LoopChecked(req[p])' /\ RequestChecked(req[p])'
    BY <1>1, <2>2, QuietChecked, Zenon
  <2> QED
    BY <1>1, <1>3, <2>2, <2>3, QuietKeeps, Zenon
<1>8. CASE DiscardStaging(p)
  <2> DEFINE r == req'[p]
  <2>1. r.ph = "discard" /\ r.todo = StagedRows
    BY <1>4, <1>8, Zenon DEF DiscardStaging, NoRequest
  <2>2. StagedRows' = StagedRows
    BY <1>1, Zenon DEF StagedRows
  <2>3. r.ph \notin Busy /\ Begun(req[p])' /\ LoopChecked(r) /\ RequestChecked(r)
    BY <2>1, <2>2, Zenon DEF Busy, Begun, LoopChecked, RequestChecked
  <2>4. LoopChecked(req[p])' /\ RequestChecked(req[p])'
    BY <1>1, <2>3, QuietChecked, Zenon
  <2> QED
    BY <1>1, <1>3, <2>3, <2>4, QuietKeeps, Zenon
<1> QED
  BY <1>5, <1>6, <1>7, <1>8, Zenon DEF Arrive

(* The number chosen is above the current one, which the log holds. *)
LEMMA SerialListVersions ==
  ASSUME NEW p \in Procs, IInv, SerialInv(p), ListVersions(p), restarted' = restarted
  PROVE  SerialInv(p)'
<1>1. UNCHANGED <<versions, current, staged, memVars, history, restarted>>
  BY Zenon DEF ListVersions, dbVars
<1>2. req[p].ph = "list"
  BY Zenon DEF ListVersions
<1>3. req[p].ph \notin Busy
  BY <1>2, Zenon DEF Busy
<1>4. req \in [Procs -> Requests] /\ req[p] \in Requests /\ req[p].s \in Schemas
  BY <1>2, Zenon DEF IInv, TypeOK, HandlersBacked, HandlerOK
<1> DEFINE r == req'[p]
           s == req[p].s
<1>5. r.s = s /\ r.v = LastVersion(s) + 1 /\ r.ph \in {"unchanged", "blobs"}
  BY <1>4, Zenon DEF ListVersions, Requests
<1>6. PICK n \in Nat : DOMAIN versions[s] = 1..n
  BY <1>4, Zenon DEF IInv, Contiguous
<1>7. LastVersion(s) = n
  BY <1>4, <1>6, LastVersionOfLog, Zenon
<1>8. current[s] \in Nat /\ (current[s] # 0 => current[s] \in DOMAIN versions[s])
  BY <1>4, Zenon DEF IInv, TypeOK, PointersBacked
<1>9. r.v > current[s]
  BY <1>5, <1>6, <1>7, <1>8
<1>10. r.ph \notin Busy /\ Begun(req[p])' /\ LoopChecked(r) /\ RequestChecked(r)
  BY <1>5, <1>9, Zenon DEF Busy, Begun, LoopChecked, RequestChecked
<1>11. LoopChecked(req[p])' /\ RequestChecked(req[p])'
  BY <1>1, <1>10, QuietChecked, Zenon
<1> QED
  BY <1>1, <1>3, <1>10, <1>11, QuietKeeps, Zenon

(* A publisher on its way to the store keeps its number. *)
LEMMA PublisherKeeps ==
  ASSUME NEW p \in Procs, IInv, SerialInv(p),
         UNCHANGED <<current, staged, memVars, history, restarted>>,
         \A s \in Schemas : \A v \in DOMAIN versions[s] : versions'[s][v] = versions[s][v],
         req[p].ph \in {"unchanged", "blobs", "version"},
         NEW ph \in {"blobs", "version", "stage"}, Goto(p, ph)
  PROVE  SerialInv(p)'
<1>1. req[p].ph \notin Busy /\ ph \notin Busy
  BY Zenon DEF Busy
<1>2. req'[p].ph = ph /\ req'[p].s = req[p].s /\ req'[p].v = req[p].v
  BY GotoFields, Zenon
<1>3. Begun(req[p])' /\ LoopChecked(req[p])'
  BY <1>2, Zenon DEF Begun, LoopChecked
<1>4. ASSUME ~restarted PROVE RequestChecked(req[p])'
  <2>1. req[p].v > current[req[p].s]
    BY <1>4, Zenon DEF SerialInv, RequestChecked
  <2> QED
    BY <1>2, <2>1, Zenon DEF RequestChecked
<1> QED
  BY <1>1, <1>2, <1>3, <1>4, QuietKeeps, Zenon

(* An unchanged publish ends, the others go on. *)
LEMMA SerialCheckUnchanged ==
  ASSUME NEW p \in Procs, IInv, SerialInv(p), CheckUnchanged(p), restarted' = restarted
  PROVE  SerialInv(p)'
<1>1. /\ UNCHANGED <<versions, current, staged, memVars, history, restarted>>
      /\ req[p].ph = "unchanged"
  BY Zenon DEF CheckUnchanged, dbVars
<1>2. CASE Return(p)
  <2>1. req[p].ph \notin Busy
    BY <1>1, Zenon DEF Busy
  <2> QED
    BY <1>1, <1>2, <2>1, ReturnFields, PlainKeeps, Zenon
<1>3. CASE Goto(p, "blobs")
  BY <1>1, <1>3, PublisherKeeps, Zenon
<1> QED
  BY <1>2, <1>3, Zenon DEF CheckUnchanged

(* Sources are stored. *)
LEMMA SerialPutBlobs ==
  ASSUME NEW p \in Procs, IInv, SerialInv(p), PutBlobs(p), restarted' = restarted
  PROVE  SerialInv(p)'
  BY PublisherKeeps, Zenon DEF PutBlobs

(* Inserting a row keeps the others. *)
LEMMA PutVersionKeepsRows ==
  ASSUME IInv, NEW p \in Procs, PutVersion(p)
  PROVE  \A s \in Schemas : \A v \in DOMAIN versions[s] :
            v \in DOMAIN versions'[s] /\ versions'[s][v] = versions[s][v]
<1>1. req[p].s \in Schemas /\ DOMAIN versions = Schemas
  BY Zenon DEF IInv, TypeOK, HandlersBacked, HandlerOK, PutVersion
<1> QED
  BY <1>1 DEF PutVersion

(* The row is inserted, or its number was taken. *)
LEMMA SerialPutVersion ==
  ASSUME NEW p \in Procs, IInv, SerialInv(p), PutVersion(p), restarted' = restarted
  PROVE  SerialInv(p)'
<1>1. /\ UNCHANGED <<current, staged, memVars, history, restarted>>
      /\ req[p].ph = "version"
  BY Zenon DEF PutVersion
<1>2. CASE Return(p) /\ versions' = versions
  <2>1. req[p].ph \notin Busy
    BY <1>1, Zenon DEF Busy
  <2> QED
    BY <1>1, <1>2, <2>1, ReturnFields, PlainKeeps, Zenon
<1>3. CASE Goto(p, "stage")
  BY <1>1, <1>3, PutVersionKeepsRows, PublisherKeeps, Zenon
<1> QED
  BY <1>2, <1>3, Zenon DEF PutVersion

(* A failing call leaves what was done. *)
LEMMA SerialFail ==
  ASSUME NEW p \in Procs, IInv, SerialInv(p), Fail(p), restarted' = restarted
  PROVE  SerialInv(p)'
<1>1. /\ UNCHANGED <<versions, current, staged, memVars, history, restarted>>
      /\ req'[p].ph = "idle"
  BY ReturnFields, Zenon DEF Fail, dbVars
<1>2. req[p].ph \notin Busy
  BY Zenon DEF Fail, Busy
<1> QED
  BY <1>1, <1>2, PlainKeeps, Zenon

(* A promotion loads what is staged of the next schema. *)
LEMMA SerialLoadStaged ==
  ASSUME NEW p \in Procs, IInv, SerialInv(p), NEW s \in Schemas, LoadStaged(p, s),
         restarted' = restarted
  PROVE  SerialInv(p)'
<1>1. /\ UNCHANGED <<versions, current, staged, memVars, history, restarted>>
      /\ req[p].ph = "check" /\ s \in req[p].todo
  BY Zenon DEF LoadStaged, dbVars
<1>2. req[p].ph \notin Busy
  BY <1>1, Zenon DEF Busy
<1>3. req \in [Procs -> Requests] /\ req[p] \in Requests
  BY Zenon DEF IInv, TypeOK
<1> DEFINE r == req'[p]
<1>4. /\ r.ph = "compare" /\ r.s = s /\ r.todo = req[p].todo \ {s}
      /\ r.held = memStaged[s]
  BY <1>3, Zenon DEF LoadStaged, Requests
<1>5. r.ph \notin Busy /\ Begun(req[p])' /\ RequestChecked(r)
  BY <1>4, Zenon DEF Busy, Begun, RequestChecked
<1>6. ASSUME ~restarted PROVE LoopChecked(r)
  <2>1. LoopChecked(req[p])
    BY <1>6, Zenon DEF SerialInv
  <2> QED
    BY <1>1, <1>4, <2>1, Zenon DEF LoopChecked
<1>7. ~restarted => LoopChecked(req[p])' /\ RequestChecked(req[p])'
  BY <1>1, <1>5, <1>6, QuietChecked, Zenon
<1> QED
  BY <1>1, <1>2, <1>5, <1>7, QuietKeeps, Zenon

(* What the loop has compared in memory is what the rows hold. *)
LEMMA PassedSchema ==
  ASSUME NEW p \in Procs, IInv, SerialInv(p), ~restarted, req[p].ph = "compare",
         PassesCheck(memCurrent[req[p].s], req[p].held),
         staged[req[p].s] # 0, current[req[p].s] # 0
  PROVE  \/ staged[req[p].s] <= current[req[p].s]
         \/ Replaces(req[p].s, versions[req[p].s][staged[req[p].s]])
<1> DEFINE s == req[p].s
           old == memCurrent[s]
           new == req[p].held
<1>1. s \in Schemas
  BY Zenon DEF IInv, HandlersBacked, HandlerOK
<1>2. new = memStaged[s]
  BY Zenon DEF SerialInv, RequestChecked
<1>3. req[p].ph \notin Busy
  BY Zenon DEF Busy
<1>4. old.v = current[s] /\ new.v = staged[s]
  BY <1>1, <1>2, <1>3, Zenon DEF SerialInv, Apart, Matches
<1>5. old # NoSnap /\ new # NoSnap
  BY <1>4 DEF NoSnap
<1>6. old.c = versions[s][current[s]] /\ new.c = versions[s][staged[s]]
  BY <1>1, <1>2, <1>4, <1>5, SnapshotBacked, Zenon
<1>7. new.v <= old.v \/ <<old.c, new.c>> \in Compatible
  BY <1>5, Zenon DEF PassesCheck
<1> QED
  BY <1>4, <1>6, <1>7, Zenon DEF Replaces

(* The schema passes and the loop goes on, or the request ends. *)
LEMMA SerialCheckSchema ==
  ASSUME NEW p \in Procs, IInv, SerialInv(p), CheckSchema(p), restarted' = restarted
  PROVE  SerialInv(p)'
<1>1. /\ UNCHANGED <<versions, current, staged, memVars, history, restarted>>
      /\ req[p].ph = "compare"
  BY Zenon DEF CheckSchema, dbVars
<1>2. req[p].ph \notin Busy
  BY <1>1, Zenon DEF Busy
<1>3. req \in [Procs -> Requests] /\ req[p] \in Requests
  BY Zenon DEF IInv, TypeOK
<1>4. CASE Return(p)
  BY <1>1, <1>2, <1>4, ReturnFields, PlainKeeps, Zenon
<1>5. CASE PassesCheck(memCurrent[req[p].s], req[p].held)
  <2> DEFINE r == req'[p]
  <2>1. /\ r.todo = req[p].todo
        /\ r.ph = IF req[p].todo = {} THEN "begin" ELSE "check"
    BY <1>3, <1>5 DEF CheckSchema, Requests
  <2>2. r.ph \notin Busy /\ Begun(req[p])' /\ RequestChecked(r)
    BY <2>1, Zenon DEF Busy, Begun, RequestChecked
  <2>3. ASSUME ~restarted PROVE LoopChecked(r)
    <3> SUFFICES ASSUME NEW s \in Schemas, staged[s] # 0, current[s] # 0,
                        ~(r.ph = "check" /\ s \in r.todo)
                 PROVE  staged[s] <= current[s] \/ Replaces(s, versions[s][staged[s]])
      BY Zenon DEF LoopChecked
    <3>1. s \notin req[p].todo
      BY <2>1, Zenon
    <3>2. CASE s = req[p].s
      BY <1>1, <1>5, <2>3, <3>2, PassedSchema, Zenon
    <3>3. CASE s # req[p].s
      BY <1>1, <2>3, <3>1, <3>3, Zenon DEF SerialInv, LoopChecked
    <3> QED
      BY <3>2, <3>3, Zenon
  <2>4. ~restarted => LoopChecked(req[p])' /\ RequestChecked(req[p])'
    BY <1>1, <2>2, <2>3, QuietChecked, Zenon
  <2> QED
    BY <1>1, <1>2, <2>2, <2>4, QuietKeeps, Zenon
<1> QED
  BY <1>4, <1>5, Zenon DEF CheckSchema

(* The statement starts with the rows staged. *)
LEMMA SerialBeginPromote ==
  ASSUME NEW p \in Procs, IInv, SerialInv(p), BeginPromote(p), restarted' = restarted
  PROVE  SerialInv(p)'
<1>1. /\ UNCHANGED <<versions, current, staged, memVars, history, restarted>>
      /\ req[p].ph = "begin"
  BY Zenon DEF BeginPromote, dbVars
<1>2. req[p].ph \notin Busy
  BY <1>1, Zenon DEF Busy
<1>3. req \in [Procs -> Requests] /\ req[p] \in Requests
  BY Zenon DEF IInv, TypeOK
<1> DEFINE r == req'[p]
<1>4. r.ph = "promote" /\ r.todo = StagedRows
  BY <1>3, Zenon DEF BeginPromote, Requests
<1>5. StagedRows' = StagedRows
  BY <1>1, Zenon DEF StagedRows
<1>6. r.ph \notin Busy /\ Begun(req[p])' /\ RequestChecked(r)
  BY <1>4, <1>5, Zenon DEF Busy, Begun, RequestChecked
<1>7. ASSUME ~restarted PROVE LoopChecked(r)
  BY <1>1, <1>4, <1>7, Zenon DEF SerialInv, LoopChecked
<1>8. ~restarted => LoopChecked(req[p])' /\ RequestChecked(req[p])'
  BY <1>1, <1>6, <1>7, QuietChecked, Zenon
<1> QED
  BY <1>1, <1>2, <1>6, <1>8, QuietKeeps, Zenon

-----------------------------------------------------------------------------
(* The steps that write a pointer, of a row or in memory. *)

(* A request that is writing, or has ended, has nothing left to check. *)
LEMMA NothingToCheck ==
  ASSUME NEW p \in Procs, req'[p].ph \in Busy \cup {"idle"}
  PROVE  Begun(req[p])' /\ LoopChecked(req[p])' /\ RequestChecked(req[p])'
<1>1. /\ req'[p].ph \notin {"promote", "discard"}
      /\ req'[p].ph \notin {"check", "compare", "begin", "promote"}
      /\ req'[p].ph \notin {"unchanged", "blobs", "version", "stage"}
      /\ req'[p].ph # "compare"
  BY Zenon DEF Busy
<1> QED
  BY <1>1, Zenon DEF Begun, LoopChecked, RequestChecked

(* A write to memory leaves the rows as they were checked. *)
LEMMA MemoryKeeps ==
  ASSUME NEW p \in Procs, SerialInv(p), UNCHANGED <<dbVars, history, restarted>>,
         req'[p].ph \in Busy \cup {"idle"}, OnlyPromotedVisible', Apart(req[p])'
  PROVE  SerialInv(p)'
<1>1. UNCHANGED <<versions, current, staged, promoted, waived, restarted>>
  BY Zenon DEF dbVars, history
<1>2. ServesPromoted'
  BY <1>1, Zenon DEF SerialInv, ServesPromoted
<1>3. RowsChecked => RowsChecked'
  BY <1>1, Zenon DEF RowsChecked, Replaces
<1>4. ~restarted' => ~restarted
  BY <1>1
<1> QED
  BY <1>2, <1>3, <1>4, NothingToCheck, Zenon DEF SerialInv

(* The row is staged, memory not yet. *)
LEMMA SerialSetStaged ==
  ASSUME NEW p \in Procs, IInv, SerialInv(p), SetStaged(p), restarted' = restarted
  PROVE  SerialInv(p)'
<1> DEFINE s0 == req[p].s
           v == req[p].v
<1>1. /\ UNCHANGED <<versions, current, memCurrent, memStaged, promoted, restarted>>
      /\ req[p].ph = "stage" /\ Goto(p, "mem")
  BY Zenon DEF SetStaged, memVars
<1>2. s0 \in Schemas /\ StoredAs(s0, v, req[p].c)
  BY <1>1, Zenon DEF IInv, HandlersBacked, HandlerOK
<1>3. staged \in [Schemas -> Nat] /\ waived \in [Schemas -> BOOLEAN]
  BY Zenon DEF IInv, TypeOK
<1>4. /\ staged'[s0] = v /\ waived'[s0] = req[p].force
      /\ \A s \in Schemas \ {s0} : staged'[s] = staged[s] /\ waived'[s] = waived[s]
  BY <1>2, <1>3, Zenon DEF SetStaged
<1>5. req'[p].ph = "mem" /\ req'[p].s = s0 /\ req'[p].v = v
  BY <1>1, GotoFields, Zenon
<1>6. req[p].ph \notin Busy /\ req'[p].ph \in Busy \cup {"idle"}
  BY <1>1, <1>5, Zenon DEF Busy
<1>7. ServesPromoted'
  BY <1>1, Zenon DEF SerialInv, ServesPromoted, OnlyPromotedVisible
<1>8. \A s \in Schemas : Matches(s)
  BY <1>6, Zenon DEF SerialInv, Apart
<1>9. Apart(req[p])'
  <2> SUFFICES ASSUME NEW s \in Schemas
               PROVE  /\ ~restarted' => memCurrent'[s].v = current'[s]
                      /\ IF s = s0 THEN staged'[s] = v ELSE Matches(s)'
    BY <1>5, Zenon DEF Apart, Busy
  <2>1. ~restarted' => memCurrent'[s].v = current'[s]
    BY <1>1, <1>8 DEF Matches
  <2>2. s # s0 => Matches(s)'
    BY <1>1, <1>4, <1>8 DEF Matches
  <2> QED
    BY <1>4, <2>1, <2>2, Zenon
<1>10. ASSUME ~restarted PROVE RowsChecked'
  <2> SUFFICES ASSUME NEW s \in Schemas, staged'[s] # 0, current[s] # 0
               PROVE  waived'[s] \/ staged'[s] > current[s] \/
                         Replaces(s, versions[s][staged'[s]])
    BY <1>1, Zenon DEF RowsChecked, Replaces
  <2>1. CASE s = s0
    <3>1. \/ v > current[s0]
          \/ req[p].force \/ current[s0] = 0 \/ Replaces(s0, req[p].c)
      BY <1>1, <1>10, Zenon DEF SerialInv, RequestChecked
    <3>2. req[p].c = versions[s0][v]
      BY <1>2, Zenon DEF StoredAs
    <3> QED
      BY <1>4, <2>1, <3>1, <3>2, Zenon
  <2>2. CASE s # s0
    BY <1>4, <1>10, <2>2, Zenon DEF SerialInv, RowsChecked
  <2> QED
    BY <2>1, <2>2, Zenon
<1>11. ~restarted' => ~restarted
  BY <1>1
<1> QED
  BY <1>6, <1>7, <1>9, <1>10, <1>11, NothingToCheck, Zenon DEF SerialInv

(* What was staged in the row is staged in memory. *)
LEMMA SerialSetStagedMemory ==
  ASSUME NEW p \in Procs, IInv, SerialInv(p), SetStagedMemory(p), restarted' = restarted
  PROVE  SerialInv(p)'
<1> DEFINE s0 == req[p].s
<1>1. /\ UNCHANGED <<dbVars, memCurrent, history, restarted>>
      /\ UNCHANGED <<current, staged, promoted>>
      /\ req[p].ph = "mem" /\ Return(p)
  BY Zenon DEF SetStagedMemory, dbVars, history
<1>2. s0 \in Schemas
  BY <1>1, Zenon DEF IInv, HandlersBacked, HandlerOK
<1>3. memStaged \in [Schemas -> Snapshots]
  BY Zenon DEF IInv, TypeOK
<1>4. /\ memStaged'[s0].v = req[p].v
      /\ \A s \in Schemas \ {s0} : memStaged'[s] = memStaged[s]
  BY <1>2, <1>3, Zenon DEF SetStagedMemory
<1>5. req'[p].ph = "idle"
  BY <1>1, ReturnFields, Zenon
<1>6. OnlyPromotedVisible'
  BY <1>1, Zenon DEF SerialInv, ServesPromoted, OnlyPromotedVisible
<1>7. ASSUME NEW s \in Schemas
      PROVE  /\ ~restarted => memCurrent[s].v = current[s]
             /\ IF s = s0 THEN staged[s] = req[p].v ELSE Matches(s)
  BY <1>1, Zenon DEF SerialInv, Apart
<1>8. ASSUME NEW s \in Schemas PROVE Matches(s)'
  BY <1>1, <1>4, <1>7 DEF Matches
<1>9. Apart(req[p])'
  BY <1>5, <1>8, Zenon DEF Apart, Busy
<1> QED
  BY <1>1, <1>5, <1>6, <1>9, MemoryKeeps, Zenon

(* The rows are promoted together; memory still holds what was staged.     *)
LEMMA SerialCommitPromote ==
  ASSUME NEW p \in Procs, IInv, SerialInv(p), CommitPromote(p), restarted' = restarted
  PROVE  SerialInv(p)'
<1>1. /\ UNCHANGED <<memCurrent, memStaged, restarted>>
      /\ req[p].ph = "promote"
  BY Zenon DEF CommitPromote, memVars
<1>2. req \in [Procs -> Requests] /\ req[p] \in Requests
  BY Zenon DEF IInv, TypeOK
<1>3. req'[p].ph = "swap" /\ req'[p].todo = Schemas
  BY <1>2, Zenon DEF CommitPromote, Requests
<1>4. req[p].todo \cap StagedRows = StagedRows
  BY <1>1, Zenon DEF SerialInv, Begun
<1>5. ASSUME NEW s \in Schemas
      PROVE  /\ staged'[s] = 0
             /\ current'[s] = IF staged[s] # 0 THEN staged[s] ELSE current[s]
             /\ promoted'[s] = IF staged[s] # 0 THEN promoted[s] \cup {staged[s]}
                               ELSE promoted[s]
  BY <1>4, Zenon DEF CommitPromote, StagedRows
<1>6. ServesPromoted'
  <2>1. ASSUME NEW s \in Schemas, memCurrent[s] # NoSnap
        PROVE  memCurrent[s].v \in promoted'[s]
    BY <1>5, <2>1, Zenon DEF SerialInv, ServesPromoted, OnlyPromotedVisible
  <2>2. ASSUME NEW s \in Schemas, current'[s] # 0
        PROVE  current'[s] \in promoted'[s]
    BY <1>5, <2>2, Zenon DEF SerialInv, ServesPromoted
  <2> QED
    BY <1>1, <2>1, <2>2, Zenon DEF ServesPromoted, OnlyPromotedVisible
<1>7. req[p].ph \notin Busy /\ req'[p].ph \in Busy \cup {"idle"}
  BY <1>1, <1>3, Zenon DEF Busy
<1>8. Apart(req[p])'
  <2>1. ASSUME NEW s \in Schemas PROVE Matches(s)
    BY <1>7, Zenon DEF SerialInv, Apart
  <2>2. ASSUME NEW s \in Schemas
        PROVE  /\ memStaged'[s] # NoSnap => memStaged'[s].v = current'[s]
               /\ ~restarted' /\ memStaged'[s] = NoSnap => memCurrent'[s].v = current'[s]
    <3>1. CASE memStaged[s] # NoSnap
      <4>1. memStaged[s].v = staged[s] /\ staged[s] # 0
        BY <2>1, <3>1, SnapshotBacked DEF Matches
      <4> QED
        BY <1>1, <1>5, <3>1, <4>1, ZenonT(20)
    <3>2. CASE memStaged[s] = NoSnap /\ ~restarted
      <4>1. memCurrent[s].v = current[s] /\ memStaged[s].v = staged[s]
        BY <2>1, <3>2, Zenon DEF Matches
      <4>2. staged[s] = 0
        BY <3>2, <4>1 DEF NoSnap
      <4> QED
        BY <1>1, <1>5, <3>2, <4>1, <4>2, ZenonT(20)
    <3> QED
      BY <1>1, <3>1, <3>2
  <2> QED
    BY <1>3, <1>5, <2>2, Zenon DEF Apart, Busy
<1>9. RowsChecked'
  BY <1>5, Zenon DEF RowsChecked
<1> QED
  BY <1>6, <1>7, <1>8, <1>9, NothingToCheck, Zenon DEF SerialInv

(* A slot is emptied; what it held is kept until it is stored. *)
LEMMA SerialSwapSlot ==
  ASSUME NEW p \in Procs, IInv, SerialInv(p), NEW s0 \in Schemas, SwapSlot(p, s0),
         restarted' = restarted
  PROVE  SerialInv(p)'
<1> DEFINE rest == req[p].todo \ {s0}
           r == req'[p]
<1>1. /\ UNCHANGED <<dbVars, memCurrent, history, restarted>>
      /\ UNCHANGED <<current, staged, promoted>>
      /\ req[p].ph = "swap" /\ s0 \in req[p].todo
  BY Zenon DEF SwapSlot, dbVars, history
<1>2. req \in [Procs -> Requests] /\ req[p] \in Requests
  BY Zenon DEF IInv, TypeOK
<1>3. memStaged \in [Schemas -> Snapshots]
  BY Zenon DEF IInv, TypeOK
<1>4. /\ memStaged'[s0] = NoSnap
      /\ \A s \in Schemas \ {s0} : memStaged'[s] = memStaged[s]
  BY <1>3, Zenon DEF SwapSlot
<1>5. OnlyPromotedVisible'
  BY <1>1, Zenon DEF SerialInv, ServesPromoted, OnlyPromotedVisible
<1>6. ASSUME NEW s \in Schemas
      PROVE  /\ staged[s] = 0
             /\ s \notin req[p].todo => memStaged[s] = NoSnap
             /\ memStaged[s] # NoSnap => memStaged[s].v = current[s]
             /\ ~restarted /\ memStaged[s] = NoSnap => memCurrent[s].v = current[s]
  BY <1>1, Zenon DEF SerialInv, Apart
<1>7. ASSUME NEW s \in Schemas
      PROVE  /\ staged'[s] = 0
             /\ s \notin rest => memStaged'[s] = NoSnap
             /\ memStaged'[s] # NoSnap => memStaged'[s].v = current'[s]
             /\ ~restarted' /\ memStaged'[s] = NoSnap /\ (s = s0 => memStaged[s0] = NoSnap)
                   => memCurrent'[s].v = current'[s]
  <2>1. CASE s = s0
    BY <1>1, <1>4, <1>6, <2>1
  <2>2. CASE s # s0
    BY <1>1, <1>4, <1>6, <2>2
  <2> QED
    BY <2>1, <2>2, Zenon
<1>8. CASE memStaged[s0] # NoSnap
  <2>1. r.ph = "store" /\ r.todo = rest /\ r.s = s0 /\ r.held = memStaged[s0]
    BY <1>2, <1>8 DEF SwapSlot, Requests
  <2>2. memStaged[s0].v = current'[s0]
    BY <1>1, <1>6, <1>8, Zenon
  <2>3. Apart(req[p])'
    BY <1>4, <1>7, <1>8, <2>1, <2>2, Zenon DEF Apart, Busy
  <2>4. r.ph \in Busy \cup {"idle"}
    BY <2>1 DEF Busy
  <2> QED
    BY <1>1, <1>5, <2>3, <2>4, MemoryKeeps, Zenon
<1>9. CASE memStaged[s0] = NoSnap /\ rest # {}
  <2>1. r.ph = "swap" /\ r.todo = rest
    BY <1>1, <1>2, <1>9 DEF SwapSlot, Requests
  <2>3. Apart(req[p])'
    BY <1>7, <1>9, <2>1, Zenon DEF Apart, Busy
  <2>4. r.ph \in Busy \cup {"idle"}
    BY <2>1, Zenon DEF Busy
  <2> QED
    BY <1>1, <1>5, <2>3, <2>4, MemoryKeeps, Zenon
<1>10. CASE memStaged[s0] = NoSnap /\ rest = {}
  <2>1. r.ph = "idle"
    BY <1>10, ReturnFields, Zenon DEF SwapSlot
  <2>2. ASSUME NEW s \in Schemas PROVE Matches(s)'
    <3>1. memStaged'[s] = NoSnap /\ memStaged'[s].v = staged'[s]
      BY <1>7, <1>10 DEF NoSnap
    <3> QED
      BY <1>7, <1>10, <3>1 DEF Matches
  <2>3. Apart(req[p])'
    BY <2>1, <2>2, Zenon DEF Apart, Busy
  <2>4. r.ph \in Busy \cup {"idle"}
    BY <2>1, Zenon
  <2> QED
    BY <1>1, <1>5, <2>3, <2>4, MemoryKeeps, Zenon
<1> QED
  BY <1>8, <1>9, <1>10, Zenon

(* What was swapped out is what the row has as current. *)
LEMMA SerialStoreCurrent ==
  ASSUME NEW p \in Procs, IInv, SerialInv(p), StoreCurrent(p), restarted' = restarted
  PROVE  SerialInv(p)'
<1> DEFINE s0 == req[p].s
           r == req'[p]
<1>1. /\ UNCHANGED <<dbVars, memStaged, history, restarted>>
      /\ UNCHANGED <<current, staged, promoted>>
      /\ req[p].ph = "store"
  BY Zenon DEF StoreCurrent, dbVars, history
<1>2. req \in [Procs -> Requests] /\ req[p] \in Requests
  BY Zenon DEF IInv, TypeOK
<1>3. s0 \in Schemas /\ (req[p].held # NoSnap => StoredAs(s0, req[p].held.v, req[p].held.c))
  BY <1>1, Zenon DEF IInv, HandlersBacked, HandlerOK
<1>4. memCurrent \in [Schemas -> Snapshots]
  BY Zenon DEF IInv, TypeOK
<1>5. /\ memCurrent'[s0] = req[p].held
      /\ \A s \in Schemas \ {s0} : memCurrent'[s] = memCurrent[s]
  BY <1>3, <1>4, Zenon DEF StoreCurrent
<1>6. ASSUME NEW s \in Schemas
      PROVE  /\ staged[s] = 0
             /\ s \notin req[p].todo => memStaged[s] = NoSnap
             /\ memStaged[s] # NoSnap => memStaged[s].v = current[s]
             /\ ~restarted /\ memStaged[s] = NoSnap /\ s # s0
                   => memCurrent[s].v = current[s]
             /\ s = s0 => req[p].held # NoSnap /\ req[p].held.v = current[s0]
  BY <1>1, Zenon DEF SerialInv, Apart
<1>7. OnlyPromotedVisible'
  <2> SUFFICES ASSUME NEW s \in Schemas, memCurrent'[s] # NoSnap
               PROVE  memCurrent'[s].v \in promoted[s]
    BY <1>1, Zenon DEF OnlyPromotedVisible
  <2>1. CASE s = s0
    <3>1. PICK n \in Nat : DOMAIN versions[s0] = 1..n
      BY <1>3, Zenon DEF IInv, Contiguous
    <3>2. current[s0] # 0
      BY <1>3, <1>6, <3>1 DEF StoredAs
    <3> QED
      BY <1>3, <1>5, <1>6, <2>1, <3>2, Zenon DEF SerialInv, ServesPromoted
  <2>2. CASE s # s0
    BY <1>5, <2>2, Zenon DEF SerialInv, ServesPromoted, OnlyPromotedVisible
  <2> QED
    BY <2>1, <2>2, Zenon
<1>8. ASSUME NEW s \in Schemas
      PROVE  /\ staged'[s] = 0
             /\ s \notin req[p].todo => memStaged'[s] = NoSnap
             /\ memStaged'[s] # NoSnap => memStaged'[s].v = current'[s]
             /\ ~restarted' /\ memStaged'[s] = NoSnap => memCurrent'[s].v = current'[s]
  <2>1. CASE s = s0
    BY <1>1, <1>5, <1>6, <2>1
  <2>2. CASE s # s0
    BY <1>1, <1>5, <1>6, <2>2
  <2> QED
    BY <2>1, <2>2, Zenon
<1>9. CASE req[p].todo # {}
  <2>1. r.ph = "swap" /\ r.todo = req[p].todo
    BY <1>2, <1>9 DEF StoreCurrent, Requests
  <2>3. Apart(req[p])'
    BY <1>8, <2>1, Zenon DEF Apart, Busy
  <2>4. r.ph \in Busy \cup {"idle"}
    BY <2>1, Zenon DEF Busy
  <2> QED
    BY <1>1, <1>7, <2>3, <2>4, MemoryKeeps, Zenon
<1>10. CASE req[p].todo = {}
  <2>1. r.ph = "idle"
    BY <1>10, ReturnFields, Zenon DEF StoreCurrent
  <2>2. ASSUME NEW s \in Schemas PROVE Matches(s)'
    <3>1. memStaged'[s] = NoSnap /\ memStaged'[s].v = staged'[s]
      BY <1>8, <1>10 DEF NoSnap
    <3> QED
      BY <1>8, <3>1, Zenon DEF Matches
  <2>3. Apart(req[p])'
    BY <2>1, <2>2, Zenon DEF Apart, Busy
  <2>4. r.ph \in Busy \cup {"idle"}
    BY <2>1, Zenon
  <2> QED
    BY <1>1, <1>7, <2>3, <2>4, MemoryKeeps, Zenon
<1> QED
  BY <1>9, <1>10, Zenon

(* The rows lose what was staged, together. *)
LEMMA SerialCommitDiscard ==
  ASSUME NEW p \in Procs, IInv, SerialInv(p), CommitDiscard(p), restarted' = restarted
  PROVE  SerialInv(p)'
<1>1. /\ UNCHANGED <<current, promoted, memCurrent, memStaged, restarted>>
      /\ req[p].ph = "discard"
  BY Zenon DEF CommitDiscard, memVars
<1>2. req \in [Procs -> Requests] /\ req[p] \in Requests
  BY Zenon DEF IInv, TypeOK
<1>3. req'[p].ph = "clear" /\ req'[p].todo = Schemas
  BY <1>2, Zenon DEF CommitDiscard, Requests
<1>4. req[p].todo \cap StagedRows = StagedRows
  BY <1>1, Zenon DEF SerialInv, Begun
<1>5. \A s \in Schemas : staged'[s] = 0
  BY <1>4, Zenon DEF CommitDiscard, StagedRows
<1>6. ServesPromoted'
  BY <1>1, Zenon DEF SerialInv, ServesPromoted, OnlyPromotedVisible
<1>7. req[p].ph \notin Busy /\ req'[p].ph \in Busy \cup {"idle"}
  BY <1>1, <1>3 DEF Busy
<1>8. Apart(req[p])'
  <2>1. ASSUME NEW s \in Schemas PROVE Matches(s)
    BY <1>7, Zenon DEF SerialInv, Apart
  <2>2. ASSUME NEW s \in Schemas PROVE ~restarted' => memCurrent'[s].v = current'[s]
    BY <1>1, <2>1 DEF Matches
  <2> QED
    BY <1>3, <1>5, <2>2 DEF Apart, Busy
<1>9. RowsChecked'
  BY <1>5, Zenon DEF RowsChecked
<1> QED
  BY <1>6, <1>7, <1>8, <1>9, NothingToCheck, Zenon DEF SerialInv

(* A slot is cleared. *)
LEMMA SerialClearSlot ==
  ASSUME NEW p \in Procs, IInv, SerialInv(p), NEW s0 \in Schemas, ClearSlot(p, s0),
         restarted' = restarted
  PROVE  SerialInv(p)'
<1> DEFINE rest == req[p].todo \ {s0}
           r == req'[p]
<1>1. /\ UNCHANGED <<dbVars, memCurrent, history, restarted>>
      /\ UNCHANGED <<current, staged, promoted>>
      /\ req[p].ph = "clear" /\ s0 \in req[p].todo
  BY Zenon DEF ClearSlot, dbVars, history
<1>2. req \in [Procs -> Requests] /\ req[p] \in Requests
  BY Zenon DEF IInv, TypeOK
<1>3. memStaged \in [Schemas -> Snapshots]
  BY Zenon DEF IInv, TypeOK
<1>4. /\ memStaged'[s0] = NoSnap
      /\ \A s \in Schemas \ {s0} : memStaged'[s] = memStaged[s]
  BY <1>3, Zenon DEF ClearSlot
<1>5. OnlyPromotedVisible'
  BY <1>1, Zenon DEF SerialInv, ServesPromoted, OnlyPromotedVisible
<1>6. ASSUME NEW s \in Schemas
      PROVE  /\ staged[s] = 0
             /\ s \notin req[p].todo => memStaged[s] = NoSnap
             /\ ~restarted => memCurrent[s].v = current[s]
  BY <1>1, Zenon DEF SerialInv, Apart
<1>7. ASSUME NEW s \in Schemas
      PROVE  /\ staged'[s] = 0
             /\ s \notin rest => memStaged'[s] = NoSnap
             /\ ~restarted' => memCurrent'[s].v = current'[s]
  BY <1>1, <1>4, <1>6
<1>8. CASE rest # {}
  <2>1. r.ph = "clear" /\ r.todo = rest
    BY <1>1, <1>2, <1>8 DEF ClearSlot, Requests
  <2>2. Apart(req[p])'
    BY <1>7, <2>1, Zenon DEF Apart, Busy
  <2>3. r.ph \in Busy \cup {"idle"}
    BY <2>1, Zenon DEF Busy
  <2> QED
    BY <1>1, <1>5, <2>2, <2>3, MemoryKeeps, Zenon
<1>9. CASE rest = {}
  <2>1. r.ph = "idle"
    BY <1>9, ReturnFields, Zenon DEF ClearSlot
  <2>2. ASSUME NEW s \in Schemas PROVE Matches(s)'
    <3>1. memStaged'[s] = NoSnap /\ memStaged'[s].v = staged'[s]
      BY <1>7, <1>9 DEF NoSnap
    <3> QED
      BY <1>7, <3>1, Zenon DEF Matches
  <2>3. Apart(req[p])'
    BY <2>1, <2>2, Zenon DEF Apart, Busy
  <2>4. r.ph \in Busy \cup {"idle"}
    BY <2>1, Zenon
  <2> QED
    BY <1>1, <1>5, <2>3, <2>4, MemoryKeeps, Zenon
<1> QED
  BY <1>8, <1>9, Zenon

(* Recovery loads what the rows have as current, and nothing staged. *)
LEMMA SerialRestart ==
  ASSUME NEW p \in Procs, IInv, SerialInv(p), Restart, restarted' = TRUE
  PROVE  SerialInv(p)'
<1>1. UNCHANGED <<current, staged, promoted>> /\ req'[p] = NoRequest
  BY Zenon DEF Restart, dbVars, history
<1>2. req'[p].ph = "idle"
  BY <1>1 DEF NoRequest
<1>3. ASSUME NEW s \in Schemas
      PROVE  memCurrent'[s] = BuildSnapshot(s) /\ memStaged'[s] = NoSnap
  BY Zenon DEF Restart
<1>4. ASSUME NEW s \in Schemas, memCurrent'[s] # NoSnap
      PROVE  memCurrent'[s].v \in promoted[s]
  <2>1. current[s] # 0 /\ memCurrent'[s] = [v |-> current[s], c |-> versions[s][current[s]]]
    BY <1>3, <1>4, Zenon DEF BuildSnapshot
  <2> QED
    BY <2>1 DEF SerialInv, ServesPromoted
<1>5. ServesPromoted'
  BY <1>1, <1>4, Zenon DEF SerialInv, ServesPromoted, OnlyPromotedVisible
<1>6. ASSUME NEW s \in Schemas PROVE Matches(s)'
  BY <1>3, Zenon DEF Matches
<1>7. Apart(req[p])' /\ Begun(req[p])'
  BY <1>2, <1>6, Zenon DEF Apart, Busy, Begun
<1> QED
  BY <1>5, <1>7, Zenon DEF SerialInv

(* Nothing is stored, in memory or under way. *)
LEMMA SerialInit ==
  ASSUME NEW p \in Procs, Init
  PROVE  SerialInv(p)
<1>1. req[p].ph = "idle"
  BY Zenon DEF Init, NoRequest
<1>2. ASSUME NEW s \in Schemas
      PROVE  /\ current[s] = 0 /\ staged[s] = 0
             /\ memCurrent[s] = NoSnap /\ memStaged[s] = NoSnap
  BY Zenon DEF Init
<1>3. ServesPromoted
  BY <1>2, Zenon DEF ServesPromoted, OnlyPromotedVisible
<1>4. ASSUME NEW s \in Schemas PROVE Matches(s)
  BY <1>2 DEF Matches, NoSnap
<1>5. Apart(req[p]) /\ Begun(req[p])
  BY <1>1, <1>4, Zenon DEF Apart, Busy, Begun
<1>6. RowsChecked /\ LoopChecked(req[p]) /\ RequestChecked(req[p])
  BY <1>1, <1>2, Zenon DEF RowsChecked, LoopChecked, RequestChecked
<1> QED
  BY <1>3, <1>5, <1>6, Zenon DEF SerialInv

(* A step of the only handler. *)
LEMMA SerialStep ==
  ASSUME NEW p \in Procs, IInv, SerialInv(p), Step(p), restarted' = restarted
  PROVE  SerialInv(p)'
  BY SerialListVersions, SerialCheckUnchanged, SerialPutBlobs, SerialPutVersion,
     SerialSetStaged, SerialSetStagedMemory, SerialLoadStaged, SerialCheckSchema,
     SerialBeginPromote, SerialCommitPromote, SerialSwapSlot, SerialStoreCurrent,
     SerialCommitDiscard, SerialClearSlot, Zenon DEF Step

(* Every step of a server that takes one request at a time. *)
LEMMA SerialNext ==
  ASSUME NEW p, Serial(p), IInv, SerialInv(p), [Next]_vars
  PROVE  SerialInv(p)'
<1>1. p \in Procs /\ ~MayLoseReply /\ \A q \in Procs : q = p
  BY Zenon DEF Serial
<1>2. CASE Restart /\ restarted' = TRUE
  BY <1>1, <1>2, SerialRestart, Zenon
<1>3. ASSUME NEW q \in Procs, Arrive(q) \/ Step(q) \/ Fail(q) \/ LoseReply(q),
             restarted' = restarted
      PROVE  SerialInv(p)'
  <2>1. q = p /\ ~LoseReply(q)
    BY <1>1, Zenon DEF LoseReply
  <2> QED
    BY <1>1, <1>3, <2>1, SerialArrive, SerialStep, SerialFail, Zenon
<1>4. CASE UNCHANGED vars
  <2>1. UNCHANGED <<versions, current, staged, memVars, history, req, promoted, waived,
                    memCurrent, memStaged>> /\ (restarted' <=> restarted)
    BY <1>4, Zenon DEF vars, memVars, history
  <2>2. \A s \in Schemas : Matches(s)' <=> Matches(s)
    BY <2>1, Zenon DEF Matches
  <2>3. Apart(req[p])' /\ Begun(req[p])'
    BY <2>1, <2>2, Zenon DEF SerialInv, Apart, Begun, StagedRows
  <2>4. ServesPromoted'
    BY <2>1, Zenon DEF SerialInv, ServesPromoted, OnlyPromotedVisible
  <2>5. ~restarted => RowsChecked' /\ LoopChecked(req[p])' /\ RequestChecked(req[p])'
    BY <2>1, Zenon DEF SerialInv, RowsChecked, LoopChecked, RequestChecked, Replaces
  <2> QED
    BY <2>1, <2>3, <2>4, <2>5, Zenon DEF SerialInv
<1> QED
  BY <1>2, <1>3, <1>4, Zenon DEF Next

(* With one handler that hears every reply, the store and memory are only  *)
(* apart while it is writing them.                                         *)
THEOREM SerialInvariance ==
  ASSUME NEW p, Serial(p)
  PROVE  Spec => []SerialInv(p)
<1>1. Init => SerialInv(p)
  BY SerialInit, Zenon DEF Serial
<1>2. IInv /\ SerialInv(p) /\ [Next]_vars => SerialInv(p)'
  BY SerialNext, Zenon
<1> QED
  BY <1>1, <1>2, Invariance, PTL DEF Spec

(* Whenever no request is under way, what is staged in memory is staged in *)
(* the rows, and until the first restart memory is what the rows say: each *)
(* handler repairs what it disturbed before it returns.                    *)
THEOREM MemoryCorrect ==
  ASSUME NEW p, Serial(p)
  PROVE  Spec => []MemoryMatchesStore
<1>1. SerialInv(p) => MemoryMatchesStore
  <2> SUFFICES ASSUME SerialInv(p), \A q \in Procs : Idle(q)
               PROVE  \A s \in Schemas : Matches(s)
    BY Zenon DEF MemoryMatchesStore, Matches
  <2>1. req[p].ph \notin Busy
    BY Zenon DEF Serial, Idle, Busy
  <2> QED
    BY <2>1, Zenon DEF SerialInv, Apart
<1> QED
  BY <1>1, SerialInvariance, PTL

(* What memory serves as current has been promoted in the store, through   *)
(* crashes at any point of a promotion.                                    *)
THEOREM VisibleCorrect ==
  ASSUME NEW p, Serial(p)
  PROVE  Spec => []OnlyPromotedVisible
<1>1. SerialInv(p) => OnlyPromotedVisible
  BY Zenon DEF SerialInv, ServesPromoted
<1> QED
  BY <1>1, SerialInvariance, PTL

(* Until the first restart, the promotion of a version that was not forced *)
(* replaces the current one by one that is compatible with it: the check   *)
(* that Promote makes in memory is a check of the rows.                    *)
THEOREM PromotionsChecked ==
  ASSUME NEW p, Serial(p)
  PROVE  Spec => [][~restarted => \A s \in Schemas :
                      current'[s] # current[s] /\ current[s] # 0 /\ ~waived[s] =>
                          <<versions[s][current[s]], versions[s][staged[s]]>>
                              \in Compatible]_vars
<1> DEFINE Checked == ~restarted => \A s \in Schemas :
              current'[s] # current[s] /\ current[s] # 0 /\ ~waived[s] =>
                  <<versions[s][current[s]], versions[s][staged[s]]>> \in Compatible
<1>1. IInv /\ SerialInv(p) /\ [Next]_vars => Checked
  <2> SUFFICES ASSUME IInv, SerialInv(p), [Next]_vars, ~restarted, NEW s \in Schemas,
                      current'[s] # current[s], current[s] # 0, ~waived[s]
               PROVE  Replaces(s, versions[s][staged[s]])
    BY Zenon DEF Replaces
  <2>1. PICK q \in Procs : CommitPromote(q)
    <3>1. ASSUME NEW q \in Procs, Arrive(q) PROVE current' = current
      BY <3>1, Zenon DEF Arrive, Publish, Rebase, Rollback, Promote, DiscardStaging, dbVars
    <3>2. ASSUME NEW q \in Procs, Step(q) PROVE current' = current \/ CommitPromote(q)
      BY <3>2, Zenon DEF Step, ListVersions, CheckUnchanged, PutBlobs, PutVersion, SetStaged,
         SetStagedMemory, LoadStaged, CheckSchema, BeginPromote, SwapSlot, StoreCurrent,
         CommitDiscard, ClearSlot, dbVars
    <3>3. Restart => current' = current
      BY Zenon DEF Restart, dbVars
    <3>4. ASSUME NEW q \in Procs, Fail(q) \/ LoseReply(q) PROVE current' = current
      BY <3>4, Zenon DEF Fail, LoseReply, dbVars
    <3> QED
      BY <3>1, <3>2, <3>3, <3>4, Zenon DEF Next, vars
  <2>2. req[p].ph = "promote" /\ staged[s] # 0
    BY <2>1, Zenon DEF Serial, CommitPromote, StagedRows
  <2>3. staged[s] \in Nat /\ current[s] \in Nat
    BY SnapshotBacked, Zenon
  <2>4. staged[s] > current[s] \/ Replaces(s, versions[s][staged[s]])
    BY <2>2, Zenon DEF SerialInv, RowsChecked
  <2>5. staged[s] <= current[s] \/ Replaces(s, versions[s][staged[s]])
    BY <2>2, Zenon DEF SerialInv, LoopChecked
  <2> QED
    BY <2>3, <2>4, <2>5
<1> QED
  BY <1>1, Invariance, SerialInvariance, PTL DEF Spec

(* The descriptors of two contents differ in what Check looks at, never in *)
(* the package of a file.                                                  *)
PackagesStay(Snap) == \A a, b \in Contents : SamePackages(Snap[a], Snap[b])

(* Until the first restart, what one field held under a version reads back *)
(* under the version that replaces it unforced: the rules of compat.Check, *)
(* followed through Promote's loop and the store's promotion.              *)
THEOREM PromotionsLoseNothing ==
  ASSUME NEW p, Serial(p), NEW Snap, PackagesStay(Snap),
         \A a, b \in Contents : <<a, b>> \in Compatible => Check(Snap[a], Snap[b])
  PROVE  Spec => [][~restarted => \A s \in Schemas :
                      current'[s] # current[s] /\ current[s] # 0 /\ ~waived[s] =>
                          ReadsBack(Snap[versions[s][current[s]]],
                                    Snap[versions[s][staged[s]]])]_vars
<1> DEFINE Due(s) == current'[s] # current[s] /\ current[s] # 0 /\ ~waived[s]
           Checked == ~restarted => \A s \in Schemas : Due(s) =>
              <<versions[s][current[s]], versions[s][staged[s]]>> \in Compatible
           Read == ~restarted => \A s \in Schemas : Due(s) =>
              ReadsBack(Snap[versions[s][current[s]]], Snap[versions[s][staged[s]]])
<1>1. ASSUME NEW a, NEW b, <<a, b>> \in Compatible PROVE ReadsBack(Snap[a], Snap[b])
  <2>1. a \in Contents /\ b \in Contents
    BY <1>1, RegistryAssumption, Zenon
  <2> QED
    BY <1>1, <2>1, CheckSound, Zenon DEF PackagesStay
<1>2. Checked => Read
  BY <1>1, Zenon
<1>3. [Checked]_vars => [Read]_vars
  BY <1>2, Zenon
<1>4. Spec => [][Checked]_vars
  BY PromotionsChecked, Zenon
<1> QED
  BY <1>3, <1>4, PTL
=============================================================================
