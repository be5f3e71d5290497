---------------------------- MODULE SourceProofs ----------------------------
(***************************************************************************)
(* Proofs about what a version is compiled from and what its readers find, *)
(* for any namespaces, schemas, texts and number of handlers: stored       *)
(* descriptor sets stand alone, the pins of the version account for every  *)
(* text in them, the name check does what it says when nothing has moved,  *)
(* and a name has one answer as far as the sources allow.                  *)
(***************************************************************************)
EXTENDS LineageProofs, CompileProofs

-----------------------------------------------------------------------------
(* The other steps. *)

(* A step that leaves the log alone and starts no request. *)
LEMMA SourceKeeps ==
  ASSUME SourceInv, Shaped, log' = log, calm' = calm, promoted \subseteq promoted',
         promoted' \subseteq Rows, ParentsOK', binary' \in 0..1,
         \A s \in Schemas : memCurrent'[s] # NoSnap => memCurrent'[s].fds # None,
         \A p \in Procs : pub'[p] = pub[p] \/ pub'[p].ph = "idle"
  PROVE  SourceInv'
<1>1. LogGrows /\ promoted \subseteq Rows
  BY Zenon DEF LogGrows, Numbers, SourceInv
<1>2. ASSUME NEW s \in Schemas, NEW v \in Numbers(s)' PROVE RowSound(s, v)'
  BY <1>1, RowStays, Zenon DEF Numbers, SourceInv
<1>3. ASSUME NEW q \in Procs PROVE HandlerSound(pub[q])'
  <2>1. PICK r : r = pub'[q]
    BY Zenon
  <2>2. HandlerSound(r)
    BY <2>1, Zenon DEF SourceInv, HandlerSound
  <2> QED
    BY <1>1, <2>1, <2>2, HandlerStays, Zenon
<1>4. (promoted \cup calm)' \subseteq Rows'
  <2>1. Rows' = Rows
    BY DEF Rows
  <2> QED
    BY <2>1, Zenon DEF SourceInv
<1> QED
  BY <1>2, <1>3, <1>4, Zenon DEF SourceInv

(* What is promoted is a version. *)
LEMMA PromoteSource ==
  ASSUME IInv, SourceInv, NEW n, Promote(n)
  PROVE  SourceInv'
<1> DEFINE S == {s \in In(n) : staged[s] # 0}
           M == {s \in In(n) : memStaged[s] # NoSnap}
<1>1. PICK F : Shape(F)
  BY Zenon DEF IInv, Shaped
<1>2. /\ memCurrent' = [s \in Schemas |-> IF s \in M THEN memStaged[s] ELSE memCurrent[s]]
      /\ promoted' = promoted \cup {<<s, staged[s]>> : s \in S}
      /\ log' = log /\ pub' = pub /\ calm' = calm /\ parent' = parent /\ binary' = binary
  BY Zenon DEF Promote, server
<1>3. ASSUME NEW s \in S PROVE <<s, staged[s]>> \in Rows
  <2>1. s \in Schemas /\ staged[s] \in Numbers(s)
    BY Zenon DEF IInv, PointersOK, In
  <2> QED
    BY <1>1, <2>1, RowIn, Zenon
<1>4. promoted' \subseteq Rows
  BY <1>2, <1>3, Zenon DEF SourceInv
<1>5. ASSUME NEW s \in Schemas, memCurrent'[s] # NoSnap PROVE memCurrent'[s].fds # None
  <2>1. CASE memStaged[s] # NoSnap /\ memCurrent'[s] = memStaged[s]
    <3>1. staged[s] \in Numbers(s) /\ memStaged[s].fds = log[s][staged[s]].fds
      BY <2>1, Zenon DEF IInv, PointersOK
    <3>2. log[s][staged[s]].fds # None
      BY <3>1, Zenon DEF SourceInv, RowSound, Sound
    <3> QED
      BY <2>1, <3>1, <3>2, Zenon
  <2>2. CASE memCurrent'[s] = memCurrent[s]
    BY <1>5, <2>2, Zenon DEF SourceInv
  <2> QED
    BY <1>2, <2>1, <2>2, Zenon
<1>6. ParentsOK' /\ binary' \in 0..1
  BY <1>2, Zenon DEF SourceInv, ParentsOK
<1> QED
  BY <1>2, <1>4, <1>5, <1>6, SourceKeeps, Zenon DEF IInv

(* A snapshot that could be built has descriptors. *)
LEMMA RestartSource ==
  ASSUME IInv, SourceInv, NEW b \in 0..1, Restart(b)
  PROVE  SourceInv'
<1> DEFINE live == {s \in Schemas : current[s] # 0}
           snap(s) == [v |-> current[s], fds |-> BuildSnapshot(s, b)]
           ended(p) == [NoRequest EXCEPT !.out = IF p \in Kept THEN "error" ELSE "none"]
<1>1. /\ memCurrent' = [s \in Schemas |-> IF s \in live THEN snap(s) ELSE NoSnap]
      /\ pub' = [p \in Procs |-> IF Idle(p) THEN pub[p] ELSE ended(p)]
      /\ log' = log /\ promoted' = promoted /\ calm' = calm /\ parent' = parent
      /\ binary' = b
      /\ \A s \in live : BuildSnapshot(s, b) # None
  BY Zenon DEF Restart, storeVars, history
<1>2. ASSUME NEW s \in Schemas, memCurrent'[s] # NoSnap PROVE memCurrent'[s].fds # None
  <2>1. s \in live /\ memCurrent'[s] = snap(s)
    BY <1>1, <1>2, Zenon
  <2>2. snap(s).fds = BuildSnapshot(s, b)
    BY Zenon
  <2> HIDE DEF snap
  <2> QED
    BY <1>1, <2>1, <2>2, Zenon
<1>3. \A p \in Procs : pub'[p] = pub[p] \/ pub'[p].ph = "idle"
  <2>1. \A p \in Procs : ended(p).ph = "idle"
    BY Zenon DEF NoRequest
  <2> HIDE DEF ended
  <2> QED
    BY <1>1, <2>1, Zenon
<1>4. ParentsOK' /\ binary' \in 0..1 /\ promoted' \subseteq Rows /\ promoted \subseteq promoted'
  BY <1>1, Zenon DEF SourceInv, ParentsOK
<1> HIDE DEF live, snap, ended
<1> QED
  BY <1>1, <1>2, <1>3, <1>4, SourceKeeps, Zenon DEF IInv

(* The namespaces stay a forest of namespaces. *)
LEMMA SetParentSource ==
  ASSUME IInv, SourceInv, NEW m \in Moves, SetNamespaceParent(m.n, m.to)
  PROVE  SourceInv'
<1>1. /\ log' = log /\ promoted' = promoted /\ calm' = calm /\ binary' = binary /\ pub' = pub
      /\ memCurrent' = memCurrent /\ parent' = [parent EXCEPT ![m.n] = m.to]
  BY Zenon DEF SetNamespaceParent, storeVars, memVars, history
<1>2. m.to \in Namespaces \cup {None}
  <2>1. m \in [n : Namespaces, to : Namespaces \cup {None}]
    BY LineageAssumption, Zenon
  <2> QED
    BY <2>1, Zenon
<1>3. ParentsOK'
  BY <1>1, <1>2, Zenon DEF SourceInv, ParentsOK
<1>4. /\ binary' \in 0..1 /\ promoted' \subseteq Rows /\ promoted \subseteq promoted'
      /\ \A s \in Schemas : memCurrent'[s] # NoSnap => memCurrent'[s].fds # None
      /\ \A p \in Procs : pub'[p] = pub[p]
  BY <1>1, Zenon DEF SourceInv
<1> QED
  BY <1>1, <1>3, <1>4, SourceKeeps, Zenon DEF IInv

(* Nothing the invariant is about changes. *)
LEMMA StutterSource ==
  ASSUME IInv, SourceInv, UNCHANGED <<log, memCurrent, pub, promoted, calm, parent, binary>>
  PROVE  SourceInv'
<1>1. /\ ParentsOK' /\ binary' \in 0..1 /\ promoted' \subseteq Rows /\ promoted \subseteq promoted'
      /\ \A s \in Schemas : memCurrent'[s] # NoSnap => memCurrent'[s].fds # None
      /\ \A p \in Procs : pub'[p] = pub[p]
  BY Zenon DEF SourceInv, ParentsOK
<1> QED
  BY <1>1, SourceKeeps, Zenon DEF IInv

(* The steps of a handler. *)
LEMMA StepSource ==
  ASSUME IInv, SourceInv, NEW p \in Procs, Step(p), IInv'
  PROVE  SourceInv'
  BY GatherTierSource, CompileSourcesSource, CheckConflictsSource, RecordSource, Zenon DEF Step

(* Requests of any handler, and all that goes on beside them. *)
LEMMA OthersSource ==
  ASSUME IInv, SourceInv, NEW P \in SUBSET Procs, Others(P), IInv'
  PROVE  SourceInv'
<1>1. ASSUME NEW p \in Procs, Arrive(p) PROVE SourceInv'
  <2>1. ASSUME NEW u \in Uploads, Publish(p, u) PROVE SourceInv'
    BY <2>1, GatherSource, LineageAssumption, Zenon DEF Publish
  <2>2. ASSUME NEW s \in Schemas, Rebase(p, s) PROVE SourceInv'
    <3>1. IsSourceSet(log[s][memCurrent[s].v].files)
      BY <2>2, Zenon DEF Rebase, IInv, PointersOK, SourceInv, RowSound, Sound
    <3> QED
      BY <2>2, <3>1, GatherSource, Zenon DEF Rebase
  <2> QED
    BY <1>1, <2>1, <2>2, Zenon DEF Arrive
<1>2. ASSUME NEW n, DiscardStaging(n) PROVE SourceInv'
  BY <1>2, StutterSource, Zenon DEF DiscardStaging, history, server
<1>3. ASSUME NEW s, NEW v, Rollback(s, v) PROVE SourceInv'
  BY <1>3, StutterSource, Zenon DEF Rollback, history, server
<1>4. ASSUME Operate PROVE SourceInv'
  BY <1>2, <1>3, <1>4, PromoteSource, SetParentSource, RestartSource, Zenon DEF Operate
<1> QED
  BY <1>1, <1>4, StepSource, Zenon DEF Others, Counted

(* Every step keeps the invariant. *)
LEMMA NextSource == IInv /\ SourceInv /\ [Next]_vars => SourceInv'
<1> SUFFICES ASSUME IInv, SourceInv, [Next]_vars PROVE SourceInv'
  BY Zenon
<1>1. CASE Next
  BY <1>1, NextIInv, OthersSource, Zenon DEF Next
<1>2. CASE UNCHANGED vars
  BY <1>2, StutterSource, Zenon DEF vars
<1> QED
  BY <1>1, <1>2, Zenon

(* So does every step of the command, and of others beside it. *)
LEMMA LoadNextSource == IInv /\ SourceInv /\ [LoadNext]_allVars => SourceInv'
<1> SUFFICES ASSUME IInv, SourceInv, [LoadNext]_allVars PROVE SourceInv'
  BY Zenon
<1>1. Loader \in Procs /\ IInv'
  <2>1. IInv'
    BY LoadNextIInv, Zenon
  <2> QED
    BY <2>1, LineageAssumption, LoadAssumption
<1>2. ASSUME UNCHANGED registry \/ UNCHANGED allVars PROVE SourceInv'
  BY <1>2, StutterSource, Zenon DEF registry, allVars, vars, storeVars, memVars, history, server
<1>3. ASSUME NEW i \in 1..Len(Dir), PublishFile(i) PROVE SourceInv'
  <2> DEFINE files == [f \in {Dir[i].f} |-> Dir[i].t]
             u == [s |-> Dir[i].s, files |-> files]
  <2>1. Dir[i] \in [f : Paths, t : Texts, s : 0..NumSchemas]
    <3> DEFINE T == [f : Paths, t : Texts, s : 0..NumSchemas]
    <3>1. Dir \in Seq(T)
      BY LoadAssumption, Zenon
    <3> HIDE DEF T
    <3>2. Dir[i] \in T
      BY <3>1
    <3> QED
      BY <3>2, Zenon DEF T
  <2>2. Dir[i].f \in Paths /\ Dir[i].t \in Texts /\ Dir[i].s \in 0..NumSchemas
    BY <2>1, Zenon
  <2>3. Dir[i].s # 0 /\ Publish(Loader, u)
    BY <1>3, Zenon DEF PublishFile
  <2>4. Dir[i].s \in Schemas
    BY <2>2, <2>3, LineageAssumption DEF Schemas
  <2>5. IsSourceSet(files)
    BY <2>2, Zenon DEF IsSourceSet
  <2>6. u.s = Dir[i].s /\ u.files = files
    BY Zenon
  <2> HIDE DEF u, files
  <2> QED
    BY <1>1, <2>3, <2>4, <2>5, <2>6, GatherSource, Zenon DEF Publish
<1>4. ASSUME TakeReply PROVE SourceInv'
  <2>1. PICK F : Shape(F)
    BY Zenon DEF IInv, Shaped
  <2> DEFINE r == pub[Loader]
             R == [r EXCEPT !.out = "none"]
  <2>2. /\ pub' = [pub EXCEPT ![Loader] = R] /\ r \in Requests(F)
        /\ UNCHANGED <<log, memCurrent, promoted, calm, parent, binary>>
    BY <1>1, <1>4, <2>1, Zenon DEF TakeReply, Shape, storeVars, memVars, history, server
  <2>3. /\ R.s = r.s /\ R.ph = r.ph /\ R.files = r.files /\ R.deps = r.deps
        /\ R.tiers = r.tiers /\ R.fds = r.fds /\ R.chain = r.chain /\ R.calm = r.calm
    BY <2>2, Zenon DEF Requests
  <2>4. HandlerSound(r)
    BY <1>1, Zenon DEF SourceInv
  <2> HIDE DEF r, R
  <2>5. Pins(R) = Pins(r)
    BY <2>3, Zenon DEF Pins
  <2>6. HandlerSound(R)
    BY <2>3, <2>4, <2>5, Zenon DEF HandlerSound
  <2> QED
    BY <1>1, <2>2, <2>6, SourceStays, Zenon DEF IInv
<1>5. ASSUME Command PROVE SourceInv'
  BY <1>2, <1>3, <1>4, <1>5, PromoteSource, Zenon
  DEF Command, FailFile, StartPass, EndPass, PromoteLoaded
<1>6. ASSUME Step(Loader) PROVE SourceInv'
  BY <1>1, <1>6, StepSource, Zenon
<1>7. Procs \ {Loader} \in SUBSET Procs
  BY Zenon
<1> QED
  BY <1>1, <1>2, <1>5, <1>6, <1>7, OthersSource, Zenon DEF LoadNext, LoadStep, Quiet

(* The seeds are their own descriptors. *)
LEMMA InitSource == Init => SourceInv
<1> SUFFICES ASSUME Init PROVE SourceInv
  BY Zenon
<1> DEFINE seed(s) == (CHOOSE u \in Seed : u.s = s).files
           seeded == {u.s : u \in Seed}
           row(s) == [files |-> seed(s), deps |-> {}, fds |-> seed(s), cv |-> 0]
           snap(s) == [v |-> 1, fds |-> seed(s)]
<1>1. /\ log = [s \in Schemas |-> IF s \notin seeded THEN << >> ELSE <<row(s)>>]
      /\ memCurrent = [s \in Schemas |-> IF s \in seeded THEN snap(s) ELSE NoSnap]
      /\ pub = [p \in Procs |-> NoRequest]
      /\ promoted = {<<s, 1>> : s \in seeded}
      /\ calm = {} /\ parent = Start /\ binary = 0
  BY Zenon DEF Init
<1>2. ASSUME NEW s \in seeded
      PROVE  IsSourceSet(seed(s)) /\ StandsAlone(seed(s)) /\ seed(s) # None /\ s \in Schemas
  <2> DEFINE u == CHOOSE x \in Seed : x.s = s
  <2>1. u \in Seed /\ u.s = s /\ seed(s) = u.files
    BY Zenon
  <2> HIDE DEF u, seed, seeded
  <2> QED
    BY <2>1, LineageAssumption, Zenon
<1>3. /\ \A s : row(s).files = seed(s) /\ row(s).fds = seed(s) /\ row(s).deps = {} /\ row(s).cv = 0
      /\ \A s : snap(s).fds = seed(s)
  BY Zenon
<1> HIDE DEF seed, seeded, row, snap
<1>4. ASSUME NEW s \in Schemas, NEW v \in Numbers(s) PROVE s \in seeded /\ v = 1 /\ log[s][v] = row(s)
  BY <1>1 DEF Numbers
<1>5. ASSUME NEW s \in Schemas, NEW v \in Numbers(s) PROVE RowSound(s, v)
  <2> DEFINE x == seed(s)
  <2>1. s \in seeded /\ log[s][v].files = x /\ log[s][v].deps = {} /\ log[s][v].fds = x
        /\ log[s][v].cv = 0
    BY <1>3, <1>4, Zenon
  <2>2. IsSourceSet(x) /\ StandsAlone(x) /\ x # None
    BY <1>2, <2>1, Zenon
  <2> HIDE DEF x
  <2>3. ASSUME NEW f \in DOMAIN x PROVE FromPins(s, x, {}, x, f)
    BY Zenon DEF FromPins, Siblings, Offers
  <2>4. Sound(s, x, {}, x)
    BY <2>2, <2>3, Zenon DEF Sound
  <2>5. 0 \in 0..1
    OBVIOUS
  <2> QED
    BY <1>1, <2>1, <2>4, <2>5, Zenon DEF RowSound
<1>6. \A s \in Schemas : memCurrent[s] # NoSnap => memCurrent[s].fds # None
  BY <1>1, <1>2, <1>3, Zenon
<1>7. \A p \in Procs : HandlerSound(pub[p])
  BY <1>1, Zenon DEF HandlerSound, NoRequest
<1>8. promoted \cup calm \subseteq Rows
  <2> SUFFICES ASSUME NEW s \in seeded PROVE <<s, 1>> \in Rows
    BY <1>1, Zenon
  <2>1. s \in Schemas /\ log[s] = <<row(s)>>
    BY <1>1, <1>2, Zenon
  <2>2. 1 \in DOMAIN log[s]
    BY <2>1
  <2> QED
    BY <2>1, <2>2 DEF Rows
<1>9. ParentsOK /\ binary \in 0..1
  BY <1>1, LineageAssumption DEF ParentsOK
<1> QED
  BY <1>5, <1>6, <1>7, <1>8, <1>9, Zenon DEF SourceInv

-----------------------------------------------------------------------------
(* What the invariant says of the versions. *)

(* The invariant holds of the server alone and with the load command.      *)
THEOREM SourceInvariance ==
  (Spec => [](IInv /\ SourceInv)) /\ (LoadSpec => [](IInv /\ SourceInv))
<1>1. Init => IInv /\ SourceInv
  BY InitIInv, InitSource, Zenon
<1>2. IInv /\ SourceInv /\ [Next]_vars => (IInv /\ SourceInv)'
  BY NextIInv, NextSource, Zenon
<1>3. IInv /\ SourceInv /\ [LoadNext]_allVars => (IInv /\ SourceInv)'
  BY LoadNextIInv, LoadNextSource, Zenon
<1>4. Spec => [](IInv /\ SourceInv)
  BY <1>1, <1>2, PTL DEF Spec
<1>5. LoadInit => IInv /\ SourceInv
  BY <1>1, Zenon DEF LoadInit
<1>6. LoadSpec => [](IInv /\ SourceInv)
  BY <1>3, <1>5, PTL DEF LoadSpec
<1> QED
  BY <1>4, <1>6, Zenon

(* Every stored version is sound. *)
LEMMA StoredSound ==
  ASSUME IInv, SourceInv, NEW r \in Rows
  PROVE  /\ Sound(r[1], Row(r).files, Row(r).deps, Row(r).fds)
         /\ Row(r).cv \in 0..1
         /\ r \in calm => Clear(r[1], Row(r).files, Row(r).deps, Row(r).fds)
<1>1. r[1] \in Schemas /\ r[2] \in Numbers(r[1]) /\ r = <<r[1], r[2]>>
  BY RowOf, Zenon DEF IInv, Shaped
<1>2. RowSound(r[1], r[2])
  BY <1>1, Zenon DEF SourceInv
<1> QED
  BY <1>1, <1>2, Zenon DEF RowSound, Row

(* Compile puts all that a file imports, directly or not, in the set and   *)
(* refuses a name declared twice, however many paths there are and however *)
(* deep the imports go: a stored descriptor set stands alone.              *)
THEOREM DescriptorsSelfContained == LoadSpec => []SelfContained
<1>1. IInv /\ SourceInv => SelfContained
  BY StoredSound, Zenon DEF SelfContained, Sound
<1> QED
  BY <1>1, SourceInvariance, PTL

(* Every text of a stored descriptor set is accounted for by its pins, its *)
(* own sources or promoted built-ins, whatever changed while it was being  *)
(* compiled.                                                               *)
THEOREM CompiledFromItsPins == LoadSpec => []CompiledFromPins
<1>1. ASSUME IInv, SourceInv PROVE CompiledFromPins
  <2> SUFFICES ASSUME NEW r \in Rows, NEW f \in DOMAIN Row(r).fds
               PROVE  LET row == Row(r)
                          offers == {d \in row.deps : d.f = f}
                          siblings == {d \in offers : Home[d.s] = Home[r[1]]}
                      IN  IF siblings # {}
                          THEN \E d \in siblings : /\ GetBlob(d) = row.fds[f]
                                                   /\ \A e \in siblings : e.s <= d.s
                          ELSE IF f \in DOMAIN row.files THEN row.fds[f] = row.files[f]
                          ELSE IF offers # {}
                          THEN \E d \in offers : GetBlob(d) = row.fds[f]
                          ELSE \E b \in promoted :
                                  /\ Home[b[1]] = Builtins
                                  /\ f \in DOMAIN Row(b).files
                                  /\ Row(b).files[f] = row.fds[f]
    BY Zenon DEF CompiledFromPins
  <2> DEFINE row == Row(r)
             offers == {d \in row.deps : d.f = f}
             siblings == {d \in offers : Home[d.s] = Home[r[1]]}
  <2>1. offers = Offers(row.deps, f) /\ siblings = Siblings(r[1], row.deps, f)
    BY Zenon DEF Offers, Siblings
  <2>2. FromPins(r[1], row.files, row.deps, row.fds, f)
    BY <1>1, StoredSound, Zenon DEF Sound
  <2> HIDE DEF row, offers, siblings
  <2>3. IF siblings # {}
        THEN \E d \in siblings : /\ GetBlob(d) = row.fds[f]
                                 /\ \A e \in siblings : e.s <= d.s
        ELSE IF f \in DOMAIN row.files THEN row.fds[f] = row.files[f]
        ELSE IF offers # {}
        THEN \E d \in offers : GetBlob(d) = row.fds[f]
        ELSE \E b \in promoted :
                /\ Home[b[1]] = Builtins
                /\ f \in DOMAIN Row(b).files
                /\ Row(b).files[f] = row.fds[f]
    BY <2>1, <2>2, Zenon DEF FromPins
  <2> QED
    BY <2>3, Zenon DEF row, offers, siblings
<1> QED
  BY <1>1, SourceInvariance, PTL

(* A version that passed the name check while the snapshots in memory were *)
(* those it was compiled with takes no name of an ancestor it pins, except *)
(* in a file of the same path.                                             *)
THEOREM ShadowsAreSamePath == LoadSpec => []ShadowsOnlySamePath
<1>1. ASSUME IInv, SourceInv PROVE ShadowsOnlySamePath
  <2> SUFFICES ASSUME NEW r \in calm, NEW f \in DOMAIN Row(r).files, NEW d \in Row(r).deps,
                      Home[d.s] # Home[r[1]], f # d.f
               PROVE  Defines[Row(r).fds[f]] \cap Defines[log[d.s][d.v].fds[d.f]] = {}
    BY Zenon DEF ShadowsOnlySamePath
  <2>1. r \in Rows
    BY <1>1, Zenon DEF SourceInv
  <2>2. Clear(r[1], Row(r).files, Row(r).deps, Row(r).fds)
    BY <1>1, <2>1, StoredSound, Zenon
  <2> QED
    BY <2>2, Zenon DEF Clear
<1> QED
  BY <1>1, SourceInvariance, PTL

(* The bound on requests and restarts. *)
Within == ops \in 0..MaxOps

(* The variables have their types. *)
THEOREM TypesOK == LoadSpec => []TypeOK
<1>1. LoadInit => Within
  BY LineageAssumption DEF LoadInit, Init, Within
<1>2. Within /\ [LoadNext]_allVars => Within'
  <2> SUFFICES ASSUME Within, [LoadNext]_allVars PROVE Within'
    BY Zenon
  <2>1. CASE ops' = ops
    BY <2>1, Zenon DEF Within
  <2>2. CASE ops < MaxOps /\ ops' = ops + 1
    BY <2>2, LineageAssumption DEF Within
  <2>3. ops' = ops \/ (ops < MaxOps /\ ops' = ops + 1)
    BY Zenon DEF LoadNext, LoadStep, Quiet, Others, Counted, allVars, vars
  <2> QED
    BY <2>1, <2>2, <2>3, Zenon
<1>3. LoadSpec => []Within
  BY <1>1, <1>2, PTL DEF LoadSpec
<1>4. ASSUME IInv, SourceInv, Within PROVE TypeOK
  <2>1. PICK F : Shape(F)
    BY <1>4, Zenon DEF IInv, Shaped
  <2>2. ASSUME NEW s \in Schemas
        PROVE  /\ {current[s], staged[s]} \subseteq 0..Len(log[s])
               /\ {memCurrent[s].v, memStaged[s].v} \subseteq 0..Len(log[s])
    <3> DEFINE k == Len(log[s])
    <3>1. k \in Nat
      BY <2>1 DEF Shape
    <3>2. \A v : v \in Numbers(s) \/ v = 0 => v \in 0..k
      BY <3>1 DEF Numbers
    <3>3. NoSnap.v = 0
      BY Zenon DEF NoSnap
    <3>4. /\ current[s] \in Numbers(s) \/ current[s] = 0
          /\ staged[s] \in Numbers(s) \/ staged[s] = 0
          /\ memCurrent[s].v \in Numbers(s) \/ memCurrent[s].v = 0
          /\ memStaged[s].v \in Numbers(s) \/ memStaged[s].v = 0
      BY <1>4, <3>3, Zenon DEF IInv, PointersOK
    <3> HIDE DEF k
    <3>5. /\ {current[s], staged[s]} \subseteq 0..k
          /\ {memCurrent[s].v, memStaged[s].v} \subseteq 0..k
      BY <3>2, <3>4, Zenon
    <3> QED
      BY <3>5, Zenon DEF k
  <2>3. \A r \in Rows : /\ Row(r).fds \in [DOMAIN Row(r).fds -> Texts]
                        /\ Row(r).cv \in 0..1
    BY <1>4, StoredSound, Zenon DEF Sound, IsSourceSet
  <2>4. \A p \in Procs : pub[p].ph \in {"idle", "tiers", "check", "record"}
    BY <2>1, Zenon DEF Shape, Requests, Phases
  <2> QED
    BY <1>4, <2>2, <2>3, <2>4, Zenon DEF TypeOK, SourceInv, ParentsOK, Within
<1> QED
  BY <1>3, <1>4, SourceInvariance, PTL

(* Whichever snapshot comes first in the iteration of a Go map, and for    *)
(* any hierarchy, a name that has two answers is declared twice in what a  *)
(* namespace on the way can see, or one of its snapshots is not what a     *)
(* compilation would give now, or siblings share a path.                   *)
THEOREM AnswersAreOne == LoadSpec => []AnswersAgree
<1>1. ASSUME IInv, SourceInv PROVE AnswersAgree
  <2>1. ASSUME NEW s \in Schemas, memCurrent[s] # NoSnap
        PROVE  /\ memCurrent[s].v # 0
               /\ IsSourceSet(log[s][memCurrent[s].v].files)
               /\ memCurrent[s].fds # None
    <3>1. memCurrent[s].v \in Numbers(s)
      BY <1>1, <2>1, Zenon DEF IInv, PointersOK
    <3>2. memCurrent[s].v # 0
      BY <3>1 DEF Numbers
    <3> QED
      BY <1>1, <2>1, <3>1, <3>2, Zenon DEF SourceInv, RowSound, Sound
  <2>2. ParentsOK /\ InMemory
    BY <1>1, <2>1, Zenon DEF SourceInv, InMemory
  <2> QED
    BY <2>2, AnswersFollow, Zenon
<1> QED
  BY <1>1, SourceInvariance, PTL
=============================================================================
