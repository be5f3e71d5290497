--------------------------- MODULE LineageProofs ---------------------------
(***************************************************************************)
(* Proofs, for any namespaces, schemas, texts and number of handlers, and  *)
(* whatever Compile makes of them, of what a version may be pinned to and  *)
(* of the agreement of the two read paths, with or without the load        *)
(* command among the callers; and about the command itself, that it        *)
(* accounts for its files and never waits in vain.                         *)
(***************************************************************************)
EXTENDS LineageInv, TLAPS

-----------------------------------------------------------------------------

(* The empty request has the shape of one. *)
LEMMA NoRequestShape ==
  ASSUME NEW F, NoFiles \in F, {} \in F
  PROVE  NoRequest \in Requests(F)
<1>1. 0 \in 0..NumSchemas /\ 0 \in Nat /\ << >> \in Seq(F) /\ FALSE \in BOOLEAN
  BY LineageAssumption
<1> QED
  BY <1>1, Zenon DEF NoRequest, Requests, NoFiles, Ops, Phases, Outcomes

(* So has the one that holds a reply. *)
LEMMA ReplyShape ==
  ASSUME NEW F, NEW r \in Requests(F), NEW out \in Outcomes
  PROVE  [r EXCEPT !.out = out] \in Requests(F)
  BY Zenon DEF Requests

(* The seeds are current, and nothing is pinned. *)
LEMMA InitIInv == Init => IInv
<1> SUFFICES ASSUME Init PROVE IInv
  BY Zenon
<1> DEFINE seed(s) == (CHOOSE u \in Seed : u.s = s).files
           seeded == {u.s : u \in Seed}
           row(s) == [files |-> seed(s), deps |-> {}, fds |-> seed(s), cv |-> 0]
           snap(s) == [v |-> 1, fds |-> seed(s)]
           F == {NoFiles, {}, NoSnap} \cup {row(s) : s \in Schemas} \cup {snap(s) : s \in Schemas}
<1>1. /\ log = [s \in Schemas |-> IF s \notin seeded THEN << >> ELSE <<row(s)>>]
      /\ current = [s \in Schemas |-> IF s \in seeded THEN 1 ELSE 0]
      /\ staged = [s \in Schemas |-> 0]
      /\ memCurrent = [s \in Schemas |-> IF s \in seeded THEN snap(s) ELSE NoSnap]
      /\ memStaged = [s \in Schemas |-> NoSnap]
      /\ pub = [p \in Procs |-> NoRequest]
      /\ promoted = {<<s, 1>> : s \in seeded}
      /\ binary = 0
  BY Zenon DEF Init
<1>2. /\ NoFiles \in F /\ {} \in F /\ NoSnap \in F
      /\ \A s \in Schemas : row(s) \in F /\ snap(s) \in F
  BY Zenon
<1>3. \A s \in Schemas : row(s).fds = snap(s).fds /\ row(s).deps = {} /\ snap(s).v = 1
  OBVIOUS
<1> HIDE DEF seed, seeded, row, snap, F
<1>4. Shape(F)
  <2>1. \A s \in Schemas : log[s] \in Seq(F)
    BY <1>1, <1>2
  <2>2. NoRequest \in Requests(F)
    BY <1>2, NoRequestShape, Zenon
  <2> QED
    BY <1>1, <1>2, <2>1, <2>2, Zenon DEF Shape
<1>5. PointersOK
  <2> SUFFICES ASSUME NEW s \in Schemas
               PROVE  /\ current[s] # 0 => current[s] \in Numbers(s) /\ <<s, current[s]>> \in promoted
                      /\ staged[s] = 0 /\ memStaged[s] = NoSnap
                      /\ memCurrent[s] # NoSnap =>
                            /\ memCurrent[s].v \in Numbers(s)
                            /\ <<s, memCurrent[s].v>> \in promoted
                            /\ memCurrent[s].fds = log[s][memCurrent[s].v].fds
    BY Zenon DEF PointersOK
  <2>1. CASE s \in seeded
    <3>1. log[s] = <<row(s)>> /\ Len(log[s]) = 1 /\ log[s][1] = row(s)
      BY <1>1, <2>1, Zenon
    <3> QED
      BY <1>1, <1>3, <2>1, <3>1 DEF Numbers
  <2>2. CASE s \notin seeded
    BY <1>1, <2>2, Zenon
  <2> QED
    BY <2>1, <2>2, Zenon
<1>6. \A p \in Procs : HandlerOK(pub[p])
  BY <1>1, Zenon DEF HandlerOK, NoRequest
<1>7. AncestorPinsPromoted
  <2> SUFFICES ASSUME NEW s \in Schemas, NEW v \in DOMAIN log[s]
               PROVE  log[s][v].deps = {}
    BY DEF AncestorPinsPromoted, Rows, Row
  <2>1. s \in seeded /\ log[s] = <<row(s)>> /\ v = 1
    BY <1>1
  <2> QED
    BY <1>3, <2>1
<1> QED
  BY <1>4, <1>5, <1>6, <1>7, Zenon DEF IInv, Shaped

-----------------------------------------------------------------------------
(* A larger set will do as well. *)
LEMMA ShapeGrows ==
  ASSUME NEW F, NEW G, F \subseteq G, Shape(F)
  PROVE  Shape(G) /\ Requests(F) \subseteq Requests(G)
<1>1. Seq(F) \subseteq Seq(G)
  OBVIOUS
<1>2. Requests(F) \subseteq Requests(G)
  BY <1>1, Zenon DEF Requests
<1> QED
  BY <1>1, <1>2, Zenon DEF Shape

(* A step that changes nothing but the request of p, to R. *)
LEMMA KeepsStore ==
  ASSUME IInv, NEW p \in Procs, NEW G, Shape(G), NEW R \in Requests(G),
         pub' = [pub EXCEPT ![p] = R],
         UNCHANGED <<log, current, staged, memCurrent, memStaged, promoted, binary>>,
         HandlerOK(R)
  PROVE  IInv'
<1>1. Shape(G)' /\ pub'[p] = R /\ \A q \in Procs \ {p} : pub'[q] = pub[q]
  BY Zenon DEF Shape
<1>2. PointersOK'
  BY Zenon DEF IInv, PointersOK, Numbers
<1>3. ASSUME NEW q \in Procs PROVE HandlerOK(pub[q])'
  <2>1. HandlerOK(pub'[q])
    BY <1>1, Zenon DEF IInv
  <2> QED
    BY <2>1, Zenon DEF HandlerOK
<1>4. AncestorPinsPromoted'
  BY DEF IInv, AncestorPinsPromoted, Rows, Row
<1> QED
  BY <1>1, <1>2, <1>3, <1>4, Zenon DEF IInv, Shaped

(* A reply changes nothing else and claims nothing. *)
LEMMA ReplyOK ==
  ASSUME NEW p \in Procs, NEW out \in Outcomes, NEW F, Shape(F), Reply(p, out)
  PROVE  \E G : \E R \in Requests(G) :
            /\ F \subseteq G
            /\ pub' = [pub EXCEPT ![p] = R]
            /\ R.ph = "idle"
<1> DEFINE G == F \cup {NoFiles, {}}
           o == IF p \in Kept THEN out ELSE "none"
           R == [NoRequest EXCEPT !.out = o]
<1>1. NoRequest \in Requests(G) /\ o \in Outcomes
  BY NoRequestShape, Zenon DEF Outcomes
<1>2. R \in Requests(G) /\ R.ph = "idle"
  <2>1. R \in Requests(G)
    BY <1>1, ReplyShape, Zenon
  <2>2. R.ph = "idle"
    BY Zenon DEF NoRequest
  <2> QED
    BY <2>1, <2>2, Zenon
<1>3. pub' = [pub EXCEPT ![p] = R] /\ F \subseteq G
  BY Zenon DEF Reply
<1> QED
  BY <1>2, <1>3, Zenon

(* A request that ends with a reply and no other change. *)
LEMMA ReplyKeeps ==
  ASSUME IInv, NEW p \in Procs, NEW out \in Outcomes, Reply(p, out),
         UNCHANGED <<log, current, staged, memCurrent, memStaged, promoted, binary>>
  PROVE  IInv'
<1>1. PICK F : Shape(F)
  BY Zenon DEF IInv, Shaped
<1>2. PICK G : \E R \in Requests(G) : F \subseteq G /\ pub' = [pub EXCEPT ![p] = R] /\ R.ph = "idle"
  BY <1>1, ReplyOK
<1>3. PICK R \in Requests(G) : F \subseteq G /\ pub' = [pub EXCEPT ![p] = R] /\ R.ph = "idle"
  BY <1>2, Zenon
<1>4. Shape(G) /\ HandlerOK(R)
  BY <1>1, <1>3, ShapeGrows, Zenon DEF HandlerOK
<1> QED
  BY <1>3, <1>4, KeepsStore, Zenon

-----------------------------------------------------------------------------
(* The actions of a publish. *)

(* A row that is read belongs to its namespace and its version. *)
LEMMA RowsRead ==
  ASSUME NEW n, NEW ver, NEW d \in FileRows(n, ver)
  PROVE  d.s \in Schemas /\ Home[d.s] = n /\ d.v = ver[d.s] /\ ver[d.s] # 0
  BY DEF FileRows, In

(* What gatherDeps reads is of the schema's own namespace. *)
LEMMA GatherKeeps ==
  ASSUME IInv, NEW p \in Procs, NEW op \in {"publish", "rebase"}, NEW s \in Schemas,
         NEW files, Gather(p, op, s, files)
  PROVE  IInv'
<1>1. PICK F : Shape(F)
  BY Zenon DEF IInv, Shaped
<1> DEFINE deps == {d \in LoadNamespaceProposed(Home[s]) : d.s # s}
           chain == Ancestors(Home[s])
           G == F \cup {NoFiles, {}, files, deps, chain}
           R == [NoRequest EXCEPT !.op = op, !.ph = "tiers", !.s = s, !.files = files,
                     !.deps = deps, !.chain = chain]
<1>2. pub' = [pub EXCEPT ![p] = R]
  BY Zenon DEF Gather
<1>3. UNCHANGED <<log, current, staged, memCurrent, memStaged, promoted, binary>>
  BY Zenon DEF Gather, storeVars, memVars, history, server
<1>4. \A d \in deps : Home[d.s] = Home[s]
  BY RowsRead, Zenon DEF LoadNamespaceProposed
<1>5. /\ files \in G /\ deps \in G /\ chain \in G /\ NoFiles \in G /\ {} \in G
      /\ F \subseteq G
  BY Zenon
<1> HIDE DEF deps, chain, G
<1>6. R \in Requests(G)
  <2>1. NoRequest \in Requests(G)
    BY <1>5, NoRequestShape, Zenon
  <2>2. s \in 0..NumSchemas /\ op \in Ops /\ "tiers" \in Phases
    BY LineageAssumption DEF Schemas, Ops, Phases
  <2> QED
    BY <1>5, <2>1, <2>2, Zenon DEF Requests
<1>7. R.s = s /\ R.v = 0 /\ R.deps = deps /\ R.tiers = << >>
  BY Zenon DEF NoRequest
<1>8. HandlerOK(R)
  <2>1. Len(log[s]) \in Nat
    BY <1>1 DEF Shape
  <2> QED
    BY <1>4, <1>7, <2>1 DEF HandlerOK
<1>9. Shape(G)
  BY <1>1, <1>5, ShapeGrows, Zenon
<1> QED
  BY <1>2, <1>3, <1>6, <1>8, <1>9, KeepsStore, Zenon

(* What is read of an ancestor is current there, hence promoted. *)
LEMMA GatherTierKeeps ==
  ASSUME IInv, NEW p \in Procs, GatherTier(p)
  PROVE  IInv'
<1>1. PICK F : Shape(F)
  BY Zenon DEF IInv, Shaped
<1> DEFINE r == pub[p]
           X == LoadNamespaceCurrent(Head(r.chain))
           G == F \cup {Tail(r.chain), X}
           R == [r EXCEPT !.chain = Tail(@), !.tiers = Append(@, X)]
<1>2. pub' = [pub EXCEPT ![p] = R]
  BY <1>1, Zenon DEF GatherTier, Shape
<1>3. /\ UNCHANGED <<log, current, staged, memCurrent, memStaged, promoted, binary>>
      /\ r.ph = "tiers"
  BY Zenon DEF GatherTier, storeVars, memVars, history, server
<1>4. \A d \in X : <<d.s, d.v>> \in promoted
  <2> SUFFICES ASSUME NEW d \in FileRows(Head(r.chain), current)
               PROVE  <<d.s, d.v>> \in promoted
    BY Zenon DEF LoadNamespaceCurrent
  <2>1. d.s \in Schemas /\ d.v = current[d.s] /\ current[d.s] # 0
    BY RowsRead
  <2> QED
    BY <2>1, Zenon DEF IInv, PointersOK
<1>5. Tail(r.chain) \in G /\ X \in G /\ F \subseteq G
  BY Zenon
<1>6. Shape(G) /\ r \in Requests(G) /\ r.tiers \in Seq(G)
  <2>1. Shape(G)
    BY <1>1, <1>5, ShapeGrows, Zenon
  <2>2. r \in Requests(G)
    BY <2>1, Zenon DEF Shape
  <2> QED
    BY <2>1, <2>2, Zenon DEF Requests
<1> HIDE DEF X, G
<1>7. Append(r.tiers, X) \in Seq(G)
  BY <1>5, <1>6
<1>8. R \in Requests(G)
  BY <1>5, <1>6, <1>7, Zenon DEF Requests
<1>9. R.ph = r.ph /\ R.s = r.s /\ R.v = r.v /\ R.deps = r.deps /\ R.tiers = Append(r.tiers, X)
  BY <1>6, Zenon DEF Requests
<1>10. \A i \in 1..Len(R.tiers) : \A d \in R.tiers[i] : <<d.s, d.v>> \in promoted
  <2>1. \A i \in 1..Len(r.tiers) : \A d \in r.tiers[i] : <<d.s, d.v>> \in promoted
    BY <1>3, Zenon DEF IInv, HandlerOK
  <2>2. /\ Len(R.tiers) = Len(r.tiers) + 1 /\ R.tiers[Len(r.tiers) + 1] = X
        /\ \A i \in 1..Len(r.tiers) : R.tiers[i] = r.tiers[i]
        /\ Len(r.tiers) \in Nat
    BY <1>5, <1>6, <1>9
  <2>3. ASSUME NEW i \in 1..Len(R.tiers) PROVE i \in 1..Len(r.tiers) \/ R.tiers[i] = X
    BY <2>2
  <2> HIDE DEF R, r
  <2> QED
    BY <1>4, <2>1, <2>2, <2>3, Zenon
<1>11. HandlerOK(R)
  <2>1. HandlerOK(r)
    BY Zenon DEF IInv
  <2> HIDE DEF R, r
  <2> QED
    BY <1>3, <1>9, <1>10, <2>1, Zenon DEF HandlerOK
<1> QED
  BY <1>2, <1>3, <1>6, <1>8, <1>11, KeepsStore, Zenon

(* The number is the next one, and what was gathered stays as it is. *)
LEMMA CompileSourcesKeeps ==
  ASSUME IInv, NEW p \in Procs, CompileSources(p)
  PROVE  IInv'
<1>1. PICK F : Shape(F)
  BY Zenon DEF IInv, Shaped
<1> DEFINE r == pub[p]
           fds == Compile(r.files, r.deps, r.tiers, GatherBuiltins(Home[r.s]))
           G == F \cup {fds}
           v == Len(log[r.s]) + 1
           R == [r EXCEPT !.fds = fds, !.v = v, !.ph = "check"]
<1>2. /\ UNCHANGED <<log, current, staged, memCurrent, memStaged, promoted, binary>>
      /\ r.ph = "tiers"
  BY Zenon DEF CompileSources, storeVars, memVars, history, server
<1>3. CASE Reply(p, "error")
  BY <1>2, <1>3, ReplyKeeps, Zenon DEF Outcomes
<1>4. CASE pub' = [pub EXCEPT ![p].fds = fds, ![p].v = v, ![p].ph = "check"]
  <2>1. pub' = [pub EXCEPT ![p] = R]
    BY <1>1, <1>4, Zenon DEF Shape
  <2>2. fds \in G /\ F \subseteq G
    BY Zenon
  <2>3. Shape(G) /\ r \in Requests(G)
    <3>1. Shape(G)
      BY <1>1, <2>2, ShapeGrows, Zenon
    <3> QED
      BY <3>1, Zenon DEF Shape
  <2>4. r.s \in Schemas /\ HandlerOK(r)
    BY <1>2, Zenon DEF IInv, HandlerOK
  <2>5. v \in Nat /\ v <= Len(log[r.s]) + 1 /\ "check" \in Phases
    BY <1>1, <2>4 DEF Shape, Phases
  <2> HIDE DEF fds, G, v
  <2>6. R \in Requests(G)
    BY <2>2, <2>3, <2>5, Zenon DEF Requests
  <2>7. R.s = r.s /\ R.v = v /\ R.deps = r.deps /\ R.tiers = r.tiers
    BY <2>3, Zenon DEF Requests
  <2>8. HandlerOK(R)
    BY <1>2, <2>4, <2>5, <2>7 DEF HandlerOK
  <2> QED
    BY <1>2, <2>1, <2>3, <2>6, <2>8, KeepsStore, Zenon
<1> QED
  BY <1>3, <1>4, Zenon DEF CompileSources

(* The name check passes or ends the request. *)
LEMMA CheckConflictsKeeps ==
  ASSUME IInv, NEW p \in Procs, CheckConflicts(p)
  PROVE  IInv'
<1>1. PICK F : Shape(F)
  BY Zenon DEF IInv, Shaped
<1> DEFINE r == pub[p]
<1>2. /\ UNCHANGED <<log, current, staged, memCurrent, memStaged, promoted, binary>>
      /\ r.ph = "check"
  BY Zenon DEF CheckConflicts, storeVars, memVars, history, server
<1>3. CASE Reply(p, "error")
  BY <1>2, <1>3, ReplyKeeps, Zenon DEF Outcomes
<1>4. ASSUME NEW c \in BOOLEAN, pub' = [pub EXCEPT ![p].ph = "record", ![p].calm = c]
      PROVE  IInv'
  <2> DEFINE R == [r EXCEPT !.ph = "record", !.calm = c]
  <2>1. pub' = [pub EXCEPT ![p] = R] /\ r \in Requests(F)
    BY <1>1, <1>4, Zenon DEF Shape
  <2>2. R \in Requests(F) /\ R.s = r.s /\ R.v = r.v /\ R.deps = r.deps /\ R.tiers = r.tiers
    <3>1. "record" \in Phases
      BY Zenon DEF Phases
    <3> QED
      BY <2>1, <3>1, Zenon DEF Requests
  <2>3. HandlerOK(R)
    BY <1>2, <2>2, SMTT(30) DEF IInv, HandlerOK
  <2> QED
    BY <1>1, <1>2, <2>1, <2>2, <2>3, KeepsStore, Zenon
<1> QED
  BY <1>3, <1>4, Zenon DEF CheckConflicts

(* The row is appended under the number it is staged with. *)
LEMMA RecordKeeps ==
  ASSUME IInv, NEW p \in Procs, Record(p)
  PROVE  IInv'
<1>1. PICK F : Shape(F)
  BY Zenon DEF IInv, Shaped
<1> DEFINE r == pub[p]
           row == [files |-> r.files, deps |-> Pins(r), fds |-> r.fds, cv |-> binary]
           snap == [v |-> r.v, fds |-> r.fds]
<1>2. binary' = binary /\ r.ph = "record"
  BY Zenon DEF Record, server
<1>3. CASE UNCHANGED <<storeVars, memVars, history>>
  <2>1. Reply(p, "ok") \/ Reply(p, "error")
    BY Zenon DEF Record
  <2>2. UNCHANGED <<log, current, staged, memCurrent, memStaged, promoted, binary>>
    BY <1>2, <1>3, Zenon DEF storeVars, memVars, history
  <2> QED
    BY <2>1, <2>2, ReplyKeeps, SMTT(30) DEF Outcomes
<1>4. CASE /\ ~(Len(log[r.s]) >= r.v)
           /\ log' = [log EXCEPT ![r.s] = Append(@, row)]
           /\ staged' = [staged EXCEPT ![r.s] = r.v]
           /\ memStaged' = [memStaged EXCEPT ![r.s] = snap]
           /\ Reply(p, "ok")
           /\ UNCHANGED <<current, memCurrent, promoted>>
  <2>1. PICK G : \E R \in Requests(G) : F \subseteq G /\ pub' = [pub EXCEPT ![p] = R] /\ R.ph = "idle"
    BY <1>1, <1>4, ReplyOK, SMTT(30) DEF Outcomes
  <2>2. PICK R \in Requests(G) : F \subseteq G /\ pub' = [pub EXCEPT ![p] = R] /\ R.ph = "idle"
    BY <2>1, Zenon
  <2>a. PICK H : H = G \cup {row, snap}
    BY Zenon
  <2>b. current' = current /\ memCurrent' = memCurrent /\ promoted' = promoted
    BY <1>4, Zenon
  <2> DEFINE s == r.s
             L == Len(log[s])
  <2>3. /\ Shape(G) /\ Shape(H) /\ R \in Requests(H)
    <3>1. Shape(G) /\ G \subseteq H
      BY <1>1, <2>a, <2>2, ShapeGrows, SMTT(30)
    <3> QED
      BY <3>1, ShapeGrows, SMTT(30)
  <2>4. /\ s \in Schemas /\ HandlerOK(r) /\ r.v \in Nat
    BY <1>1, <1>2, SMTT(30) DEF IInv, HandlerOK, Shape, Requests
  <2>5. log[s] \in Seq(H) /\ L \in Nat /\ r.v = L + 1
    BY <1>2, <1>4, <2>3, <2>4, SMTT(30) DEF Shape, HandlerOK
  <2>6. row \in H /\ snap \in H
    BY <2>a, Zenon
  <2>7. /\ row.deps = Pins(r) /\ row.fds = r.fds
        /\ snap.v = r.v /\ snap.fds = r.fds
    BY Zenon
  <2> HIDE DEF row, snap
  <2>8. /\ log'[s] = Append(log[s], row) /\ log'[s] \in Seq(H)
        /\ \A t \in Schemas \ {s} : log'[t] = log[t]
        /\ log' \in [Schemas -> Seq(H)]
    <3>1. Append(log[s], row) \in Seq(H)
      BY <2>5, <2>6, SMTT(30)
    <3> QED
      BY <1>4, <2>3, <2>4, <3>1, SMTT(30) DEF Shape
  <2>9. /\ Len(log'[s]) = L + 1 /\ log'[s][L + 1] = row
        /\ \A i \in 1..L : log'[s][i] = log[s][i]
    BY <2>5, <2>6, <2>8, SMTT(30)
  <2>10. /\ staged' \in [Schemas -> Nat] /\ staged'[s] = L + 1
         /\ memStaged' \in [Schemas -> H] /\ memStaged'[s] = snap
         /\ \A t \in Schemas \ {s} : staged'[t] = staged[t] /\ memStaged'[t] = memStaged[t]
    BY <1>4, <2>3, <2>4, <2>5, <2>6, Zenon DEF Shape
  <2>11. /\ pub' \in [Procs -> Requests(H)] /\ pub'[p] = R
         /\ \A q \in Procs \ {p} : pub'[q] = pub[q]
    BY <2>2, <2>3, SMTT(30) DEF Shape
  <2>12. Shape(H)'
    BY <2>b, <2>3, <2>8, <2>10, <2>11, SMTT(30) DEF Shape
  <2>13. \A t \in Schemas : Numbers(t) \subseteq Numbers(t)' /\
             \A i \in Numbers(t) : log'[t][i] = log[t][i]
    <3>1. 1..L \subseteq 1..(L + 1)
      BY <2>5
    <3> QED
      BY <2>8, <2>9, <3>1, ZenonT(30) DEF Numbers
  <2> HIDE DEF r, s, L
  <2>14. PointersOK'
    <3> SUFFICES ASSUME NEW t \in Schemas
                 PROVE  /\ current'[t] # 0 => current'[t] \in Numbers(t)' /\ <<t, current'[t]>> \in promoted'
                        /\ staged'[t] # 0 => staged'[t] \in Numbers(t)'
                        /\ memStaged'[t] # NoSnap =>
                              /\ memStaged'[t].v = staged'[t] /\ staged'[t] # 0
                              /\ memStaged'[t].fds = log'[t][staged'[t]].fds
                        /\ memCurrent'[t] # NoSnap =>
                              /\ memCurrent'[t].v \in Numbers(t)'
                              /\ <<t, memCurrent'[t].v>> \in promoted'
                              /\ log'[t][memCurrent'[t].v].cv = binary' =>
                                    memCurrent'[t].fds = log'[t][memCurrent'[t].v].fds
      BY Zenon DEF PointersOK
    <3>a. Numbers(t) \subseteq Numbers(t)' /\ \A i \in Numbers(t) : log'[t][i] = log[t][i]
      BY <2>13, SMTT(30)
    <3>1. /\ current'[t] # 0 => current'[t] \in Numbers(t)' /\ <<t, current'[t]>> \in promoted'
          /\ memCurrent'[t] # NoSnap =>
                /\ memCurrent'[t].v \in Numbers(t)'
                /\ <<t, memCurrent'[t].v>> \in promoted'
                /\ log'[t][memCurrent'[t].v].cv = binary' =>
                      memCurrent'[t].fds = log'[t][memCurrent'[t].v].fds
      BY <1>2, <2>b, <3>a, SMTT(30) DEF IInv, PointersOK
    <3>2. CASE t = s
      <4>1. staged'[t] = L + 1 /\ L + 1 \in Numbers(t)' /\ L + 1 # 0
        BY <2>5, <2>9, <2>10, <3>2, SMTT(30) DEF Numbers
      <4> QED
        BY <2>5, <2>7, <2>9, <2>10, <3>1, <3>2, <4>1, SMTT(30)
    <3>3. CASE t # s
      <4>1. staged'[t] = staged[t] /\ memStaged'[t] = memStaged[t]
        BY <2>10, <3>3, Zenon
      <4>2. /\ staged[t] # 0 => staged[t] \in Numbers(t)
            /\ memStaged[t] # NoSnap =>
                  /\ memStaged[t].v = staged[t] /\ staged[t] # 0
                  /\ memStaged[t].fds = log[t][staged[t]].fds
        BY Zenon DEF IInv, PointersOK
      <4>3. staged[t] # 0 => staged[t] \in Numbers(t)' /\ log'[t][staged[t]] = log[t][staged[t]]
        BY <3>a, <4>2, Zenon
      <4> QED
        BY <3>1, <4>1, <4>2, <4>3, Zenon
    <3> QED
      BY <3>2, <3>3, Zenon
  <2>15. ASSUME NEW q \in Procs PROVE HandlerOK(pub[q])'
    <3>1. CASE q = p
      BY <2>2, <2>11, <3>1, Zenon DEF HandlerOK
    <3>2. CASE q # p /\ pub[q].ph # "idle"
      <4>1. pub'[q] = pub[q] /\ HandlerOK(pub[q]) /\ pub[q] \in Requests(H)
        BY <2>3, <2>11, <3>2, Zenon DEF IInv, Shape
      <4>2. pub[q].s \in Schemas /\ pub[q].v \in Nat /\ pub[q].v <= Len(log[pub[q].s]) + 1
        BY <3>2, <4>1, Zenon DEF HandlerOK, Requests
      <4>3. \A t \in Schemas : Len(log[t]) \in Nat /\ Len(log'[t]) \in Nat /\ Len(log[t]) <= Len(log'[t])
        <5> SUFFICES ASSUME NEW t \in Schemas
                     PROVE  Len(log[t]) \in Nat /\ Len(log'[t]) \in Nat /\ Len(log[t]) <= Len(log'[t])
          BY Zenon
        <5>1. Len(log[t]) \in Nat /\ Len(log'[t]) \in Nat
          BY <2>3, <2>8 DEF Shape
        <5>2. CASE t = s
          BY <2>5, <2>9, <5>1, <5>2, SMTT(30) DEF L
        <5>3. CASE t # s
          BY <2>8, <5>1, <5>3
        <5> QED
          BY <5>1, <5>2, <5>3, Zenon
      <4>4. pub[q].v <= Len(log'[pub[q].s]) + 1
        <5>1. /\ Len(log[pub[q].s]) \in Nat /\ Len(log'[pub[q].s]) \in Nat
              /\ Len(log[pub[q].s]) <= Len(log'[pub[q].s])
          BY <4>2, <4>3, Zenon
        <5> QED
          BY <4>2, <5>1
      <4> QED
        BY <1>4, <4>1, <4>2, <4>4, ZenonT(30) DEF HandlerOK
    <3>3. CASE q # p /\ pub[q].ph = "idle"
      BY <2>11, <3>3, Zenon DEF HandlerOK
    <3> QED
      BY <3>1, <3>2, <3>3, Zenon
  <2>16. AncestorPinsPromoted'
    <3> SUFFICES ASSUME NEW t \in Schemas, NEW v \in DOMAIN log'[t], NEW d \in log'[t][v].deps,
                        Home[d.s] # Home[t]
                 PROVE  <<d.s, d.v>> \in promoted
      BY <1>4, SMTT(30) DEF AncestorPinsPromoted, Rows, Row
    <3>1. CASE t = s /\ v = L + 1
      <4>1. d \in Pins(r)
        BY <2>7, <2>9, <3>1, SMTT(30)
      <4>2. /\ \A e \in r.deps : Home[e.s] = Home[s]
            /\ \A i \in 1..Len(r.tiers) : \A e \in r.tiers[i] : <<e.s, e.v>> \in promoted
        BY <1>2, <2>4, Zenon DEF HandlerOK, s
      <4> QED
        BY <3>1, <4>1, <4>2, SMTT(30) DEF Pins, Elements
    <3>2. CASE ~(t = s /\ v = L + 1)
      <4>1. v \in DOMAIN log[t] /\ log'[t][v] = log[t][v]
        <5>1. DOMAIN log[t] = 1..Len(log[t]) /\ DOMAIN log'[t] = 1..Len(log'[t])
          BY <2>3, <2>8, SMTT(30) DEF Shape
        <5>2. CASE t # s
          BY <2>8, <5>2, SMTT(30)
        <5>3. CASE t = s
          BY <2>5, <2>9, <3>2, <5>1, <5>3, SMTT(30) DEF L
        <5> QED
          BY <5>2, <5>3, SMTT(30)
      <4>2. <<t, v>> \in Rows /\ Row(<<t, v>>) = log[t][v] /\ <<t, v>>[1] = t
        BY <4>1 DEF Rows, Row
      <4> QED
        BY <4>1, <4>2, Zenon DEF IInv, AncestorPinsPromoted
    <3> QED
      BY <3>1, <3>2, SMTT(30)
  <2> QED
    BY <2>12, <2>14, <2>15, <2>16, Zenon DEF IInv, Shaped
<1> QED
  BY <1>3, <1>4, Zenon DEF Record

-----------------------------------------------------------------------------
(* The other operations: none touches the stored versions. *)

(* Handlers go on or are idle, and what is promoted stays promoted. *)
LEMMA KeepsLog ==
  ASSUME IInv, log' = log, promoted \subseteq promoted',
         \A p \in Procs : pub'[p] = pub[p] \/ pub'[p].ph = "idle",
         Shaped', PointersOK'
  PROVE  IInv'
<1>1. ASSUME NEW p \in Procs PROVE HandlerOK(pub[p])'
  <2>1. CASE pub'[p].ph = "idle"
    BY <2>1, Zenon DEF HandlerOK
  <2>2. CASE pub'[p] = pub[p]
    <3>1. HandlerOK(pub[p])
      BY SMTT(30) DEF IInv
    <3> QED
      BY <2>2, <3>1, Zenon DEF HandlerOK
  <2> QED
    BY <2>1, <2>2, SMTT(30)
<1>2. AncestorPinsPromoted'
  BY DEF IInv, AncestorPinsPromoted, Rows, Row
<1> QED
  BY <1>1, <1>2, Zenon DEF IInv

(* What is promoted in memory is what is promoted in the rows. *)
LEMMA PromoteKeeps ==
  ASSUME IInv, NEW n, Promote(n)
  PROVE  IInv'
<1> DEFINE S == {s \in In(n) : staged[s] # 0}
           M == {s \in In(n) : memStaged[s] # NoSnap}
<1>1. PICK F : Shape(F)
  BY SMTT(30) DEF IInv, Shaped
<1>2. /\ current' = [s \in Schemas |-> IF s \in S THEN staged[s] ELSE current[s]]
      /\ staged' = [s \in Schemas |-> IF s \in S THEN 0 ELSE staged[s]]
      /\ memCurrent' = [s \in Schemas |-> IF s \in M THEN memStaged[s] ELSE memCurrent[s]]
      /\ memStaged' = [s \in Schemas |-> IF s \in M THEN NoSnap ELSE memStaged[s]]
      /\ promoted' = promoted \cup {<<s, staged[s]>> : s \in S}
      /\ log' = log /\ pub' = pub /\ binary' = binary
  BY Zenon DEF Promote, server
<1>3. S \subseteq Schemas /\ M \subseteq S
  BY Zenon DEF In, IInv, PointersOK
<1>4. PICK G : G = F \cup {NoSnap}
  BY Zenon
<1>5. Shape(G)'
  <2>1. Shape(G) /\ NoSnap \in G
    BY <1>1, <1>4, ShapeGrows, SMTT(30)
  <2> HIDE DEF S, M
  <2> QED
    BY <1>2, <2>1, Zenon DEF Shape
<1>6. PointersOK'
  <2> SUFFICES ASSUME NEW s \in Schemas
               PROVE  /\ current'[s] # 0 => current'[s] \in Numbers(s) /\ <<s, current'[s]>> \in promoted'
                      /\ staged'[s] # 0 => staged'[s] \in Numbers(s)
                      /\ memStaged'[s] # NoSnap =>
                            /\ memStaged'[s].v = staged'[s] /\ staged'[s] # 0
                            /\ memStaged'[s].fds = log[s][staged'[s]].fds
                      /\ memCurrent'[s] # NoSnap =>
                            /\ memCurrent'[s].v \in Numbers(s)
                            /\ <<s, memCurrent'[s].v>> \in promoted'
                            /\ log[s][memCurrent'[s].v].cv = binary =>
                                  memCurrent'[s].fds = log[s][memCurrent'[s].v].fds
    BY <1>2, ZenonT(30) DEF PointersOK, Numbers
  <2>1. /\ current[s] # 0 => current[s] \in Numbers(s) /\ <<s, current[s]>> \in promoted
        /\ staged[s] # 0 => staged[s] \in Numbers(s)
        /\ memStaged[s] # NoSnap =>
              /\ memStaged[s].v = staged[s] /\ staged[s] # 0
              /\ memStaged[s].fds = log[s][staged[s]].fds
        /\ memCurrent[s] # NoSnap =>
              /\ memCurrent[s].v \in Numbers(s)
              /\ <<s, memCurrent[s].v>> \in promoted
              /\ log[s][memCurrent[s].v].cv = binary =>
                    memCurrent[s].fds = log[s][memCurrent[s].v].fds
    BY ZenonT(30) DEF IInv, PointersOK
  <2>2. s \in S => <<s, staged[s]>> \in promoted'
    BY <1>2, SMTT(30)
  <2>3. promoted \subseteq promoted'
    BY <1>2, Zenon
  <2>4. s \in S => staged[s] # 0
    BY Zenon
  <2>5. s \in M <=> s \in In(n) /\ memStaged[s] # NoSnap
    BY Zenon
  <2>6. s \in S <=> s \in In(n) /\ staged[s] # 0
    BY Zenon
  <2> HIDE DEF S, M
  <2>a. /\ current'[s] = IF s \in S THEN staged[s] ELSE current[s]
        /\ staged'[s] = IF s \in S THEN 0 ELSE staged[s]
        /\ memCurrent'[s] = IF s \in M THEN memStaged[s] ELSE memCurrent[s]
        /\ memStaged'[s] = IF s \in M THEN NoSnap ELSE memStaged[s]
    BY <1>2, Zenon
  <2>7. CASE s \in M
    <3>1. /\ s \in S /\ current'[s] = staged[s] /\ staged'[s] = 0
          /\ memCurrent'[s] = memStaged[s] /\ memStaged'[s] = NoSnap
      BY <1>3, <2>a, <2>7, Zenon
    <3> QED
      BY <2>1, <2>2, <2>5, <2>6, <2>7, <3>1, ZenonT(30)
  <2>8. CASE s \notin M /\ s \in S
    <3>1. /\ current'[s] = staged[s] /\ staged'[s] = 0
          /\ memCurrent'[s] = memCurrent[s] /\ memStaged'[s] = memStaged[s]
      BY <2>a, <2>8, Zenon
    <3> QED
      BY <2>1, <2>2, <2>3, <2>5, <2>6, <2>8, <3>1, ZenonT(30)
  <2>9. CASE s \notin S
    BY <1>3, <2>a, <2>1, <2>3, <2>5, <2>6, <2>9, SMTT(30)
  <2> QED
    BY <2>7, <2>8, <2>9, ZenonT(30)
<1> QED
  BY <1>2, <1>5, <1>6, KeepsLog, Zenon DEF Shaped

(* A rollback stages the descriptors that are stored. *)
LEMMA RollbackKeeps ==
  ASSUME IInv, NEW s \in Schemas, NEW v \in DOMAIN log[s], Rollback(s, v)
  PROVE  IInv'
<1> DEFINE snap == [v |-> v, fds |-> log[s][v].fds]
<1>1. PICK F : Shape(F)
  BY Zenon DEF IInv, Shaped
<1>2. /\ staged' = [staged EXCEPT ![s] = v]
      /\ memStaged' = [memStaged EXCEPT ![s] = snap]
      /\ log' = log /\ current' = current /\ memCurrent' = memCurrent
      /\ pub' = pub /\ promoted' = promoted /\ binary' = binary
  BY Zenon DEF Rollback, history, server
<1>3. snap.v = v /\ snap.fds = log[s][v].fds
  BY Zenon
<1>4. PICK G : G = F \cup {snap}
  BY ZenonT(30)
<1>5. Shape(G) /\ snap \in G /\ v \in Nat /\ v \in Numbers(s) /\ v # 0
  <2>1. DOMAIN log[s] = 1..Len(log[s]) /\ Len(log[s]) \in Nat
    BY <1>1 DEF Shape
  <2>2. Shape(G) /\ snap \in G
    BY <1>1, <1>4, ShapeGrows, Zenon
  <2> QED
    BY <2>1, <2>2, SMTT(30) DEF Numbers
<1> HIDE DEF snap
<1>6. Shape(G)'
  BY <1>2, <1>5, Zenon DEF Shape
<1>7. /\ staged'[s] = v /\ memStaged'[s] = snap
      /\ \A t \in Schemas \ {s} : staged'[t] = staged[t] /\ memStaged'[t] = memStaged[t]
  BY <1>2, <1>5, Zenon DEF Shape
<1>8. PointersOK'
  <2> SUFFICES ASSUME NEW t \in Schemas
               PROVE  /\ staged'[t] # 0 => staged'[t] \in Numbers(t)
                      /\ memStaged'[t] # NoSnap =>
                            /\ memStaged'[t].v = staged'[t] /\ staged'[t] # 0
                            /\ memStaged'[t].fds = log[t][staged'[t]].fds
    BY <1>2, ZenonT(30) DEF IInv, PointersOK, Numbers
  <2>1. CASE t = s
    BY <1>3, <1>5, <1>7, <2>1, SMTT(30)
  <2>2. CASE t # s
    BY <1>7, <2>2, ZenonT(30) DEF IInv, PointersOK
  <2> QED
    BY <2>1, <2>2, SMTT(30)
<1> QED
  BY <1>2, <1>6, <1>8, KeepsLog, Zenon DEF Shaped

(* Nothing of the namespace is staged any more, in rows or in memory. *)
LEMMA DiscardKeeps ==
  ASSUME IInv, NEW n, DiscardStaging(n)
  PROVE  IInv'
<1>1. PICK F : Shape(F)
  BY Zenon DEF IInv, Shaped
<1>2. /\ staged' = [s \in Schemas |-> IF s \in In(n) THEN 0 ELSE staged[s]]
      /\ memStaged' = [s \in Schemas |-> IF s \in In(n) THEN NoSnap ELSE memStaged[s]]
      /\ log' = log /\ current' = current /\ memCurrent' = memCurrent
      /\ pub' = pub /\ promoted' = promoted /\ binary' = binary
  BY Zenon DEF DiscardStaging, history, server
<1>3. PICK G : G = F \cup {NoSnap}
  BY Zenon
<1>4. Shape(G) /\ NoSnap \in G
  BY <1>1, <1>3, ShapeGrows, Zenon
<1>5. Shape(G)'
  BY <1>2, <1>4, SMTT(30) DEF Shape
<1>6. PointersOK'
  BY <1>2, SMTT(30) DEF IInv, PointersOK, Numbers
<1> QED
  BY <1>2, <1>5, <1>6, KeepsLog, Zenon DEF Shaped

(* Restore reads the current versions back: from their rows, if they were  *)
(* written by the same compiler.                                           *)
LEMMA RestartKeeps ==
  ASSUME IInv, NEW b, Restart(b)
  PROVE  IInv'
<1> DEFINE live == {s \in Schemas : current[s] # 0}
           snap(s) == [v |-> current[s], fds |-> BuildSnapshot(s, b)]
           ended(p) == [NoRequest EXCEPT !.out = IF p \in Kept THEN "error" ELSE "none"]
<1>1. PICK F : Shape(F)
  BY Zenon DEF IInv, Shaped
<1>2. /\ memCurrent' = [s \in Schemas |-> IF s \in live THEN snap(s) ELSE NoSnap]
      /\ memStaged' = [s \in Schemas |-> NoSnap]
      /\ pub' = [p \in Procs |-> IF Idle(p) THEN pub[p] ELSE ended(p)]
      /\ log' = log /\ current' = current /\ staged' = staged
      /\ promoted' = promoted /\ binary' = b
  BY SMTT(30) DEF Restart, storeVars, history
<1>3. PICK G : G = F \cup {NoFiles, {}, NoSnap} \cup {snap(s) : s \in Schemas}
  BY Zenon
<1>4. /\ Shape(G) /\ NoSnap \in G /\ NoFiles \in G /\ {} \in G
      /\ \A s \in Schemas : snap(s) \in G
  BY <1>1, <1>3, ShapeGrows, Zenon
<1>5. \A s \in Schemas : snap(s).v = current[s] /\ snap(s).fds = BuildSnapshot(s, b)
  BY Zenon
<1>6. ASSUME NEW p \in Procs PROVE ended(p) \in Requests(G) /\ ended(p).ph = "idle"
  <2>1. NoRequest \in Requests(G) /\ (IF p \in Kept THEN "error" ELSE "none") \in Outcomes
    BY <1>4, NoRequestShape, Zenon DEF Outcomes
  <2>2. ended(p) \in Requests(G)
    BY <2>1, ReplyShape, Zenon
  <2>3. ended(p).ph = "idle"
    BY SMTT(30) DEF NoRequest
  <2> QED
    BY <2>2, <2>3, Zenon
<1>7. \A s \in Schemas : log[s][current[s]].cv = b => BuildSnapshot(s, b) = log[s][current[s]].fds
  BY Zenon DEF BuildSnapshot
<1>8. live \subseteq Schemas /\ \A s \in live : current[s] # 0
  BY SMTT(30)
<1> HIDE DEF live, snap, ended
<1>9. Shape(G)'
  BY <1>2, <1>4, <1>6, SMTT(30) DEF Shape
<1>10. PointersOK'
  <2> SUFFICES ASSUME NEW s \in Schemas
               PROVE  /\ current[s] # 0 => current[s] \in Numbers(s) /\ <<s, current[s]>> \in promoted
                      /\ staged[s] # 0 => staged[s] \in Numbers(s)
                      /\ memCurrent'[s] # NoSnap =>
                            /\ memCurrent'[s].v \in Numbers(s)
                            /\ <<s, memCurrent'[s].v>> \in promoted
                            /\ log[s][memCurrent'[s].v].cv = b =>
                                  memCurrent'[s].fds = log[s][memCurrent'[s].v].fds
    BY <1>2, SMTT(30) DEF PointersOK, Numbers
  <2>1. /\ current[s] # 0 => current[s] \in Numbers(s) /\ <<s, current[s]>> \in promoted
        /\ staged[s] # 0 => staged[s] \in Numbers(s)
    BY Zenon DEF IInv, PointersOK
  <2>2. memCurrent'[s] # NoSnap => s \in live /\ memCurrent'[s] = snap(s)
    BY <1>2, Zenon
  <2> QED
    BY <1>5, <1>7, <1>8, <2>1, <2>2, SMTT(30)
<1>11. \A p \in Procs : pub'[p] = pub[p] \/ pub'[p].ph = "idle"
  BY <1>2, <1>6, Zenon
<1> QED
  BY <1>2, <1>9, <1>10, <1>11, KeepsLog, Zenon DEF Shaped

(* Nothing the invariant is about changes. *)
LEMMA StutterKeeps ==
  ASSUME IInv,
         UNCHANGED <<log, current, staged, memCurrent, memStaged, pub, promoted, binary>>
  PROVE  IInv'
<1>1. PICK F : Shape(F)
  BY Zenon DEF IInv, Shaped
<1>2. Shape(F)'
  BY <1>1, SMTT(30) DEF Shape
<1>3. PointersOK'
  BY Zenon DEF IInv, PointersOK, Numbers
<1> QED
  BY <1>2, <1>3, KeepsLog, Zenon DEF Shaped

(* Requests of any handler, and all that goes on beside them. *)
LEMMA OthersKeep ==
  ASSUME IInv, NEW P \in SUBSET Procs, Others(P)
  PROVE  IInv'
<1>1. ASSUME NEW p \in Procs, Step(p) PROVE IInv'
  BY <1>1, GatherTierKeeps, CompileSourcesKeeps, CheckConflictsKeeps, RecordKeeps, SMTT(30) DEF Step
<1>2. ASSUME NEW p \in Procs, Arrive(p) PROVE IInv'
  <2>1. ASSUME NEW u \in Uploads, Publish(p, u) PROVE IInv'
    BY <2>1, GatherKeeps, LineageAssumption, Zenon DEF Publish
  <2>2. ASSUME NEW s \in Schemas, Rebase(p, s) PROVE IInv'
    BY <2>2, GatherKeeps, ZenonT(30) DEF Rebase
  <2> QED
    BY <1>2, <2>1, <2>2, ZenonT(30) DEF Arrive
<1>3. ASSUME NEW n, NEW to, SetNamespaceParent(n, to) PROVE IInv'
  BY <1>3, StutterKeeps, ZenonT(30) DEF SetNamespaceParent, storeVars, memVars, history
<1>4. ASSUME Operate PROVE IInv'
  BY <1>3, <1>4, PromoteKeeps, DiscardKeeps, RollbackKeeps, RestartKeeps, Zenon DEF Operate
<1> QED
  BY <1>1, <1>2, <1>4, Zenon DEF Others, Counted

(* Every step keeps the invariant. *)
LEMMA NextIInv == IInv /\ [Next]_vars => IInv'
<1>1. ASSUME IInv, Next PROVE IInv'
  BY <1>1, OthersKeep, Zenon DEF Next
<1>2. ASSUME IInv, UNCHANGED vars PROVE IInv'
  BY <1>2, StutterKeeps, Zenon DEF vars
<1> QED
  BY <1>1, <1>2, Zenon

(* So does every step of the command, and of others beside it. *)
LEMMA LoadNextIInv == IInv /\ [LoadNext]_allVars => IInv'
<1> SUFFICES ASSUME IInv, [LoadNext]_allVars PROVE IInv'
  BY Zenon
<1>1. Loader \in Procs
  BY LineageAssumption, LoadAssumption, SMTT(30)
<1>2. ASSUME UNCHANGED registry \/ UNCHANGED allVars PROVE IInv'
  BY <1>2, StutterKeeps, SMTT(30) DEF registry, allVars, vars, storeVars, memVars, history, server
<1>3. ASSUME NEW i \in 1..Len(Dir), PublishFile(i) PROVE IInv'
  <2>1. Dir[i].s \in Schemas
    <3>1. NumSchemas \in Nat
      BY LineageAssumption, Zenon
    <3>2. Dir[i].s \in 0..NumSchemas
      <4> DEFINE T == [f : Paths, t : Texts, s : 0..NumSchemas]
      <4>1. Dir[i] \in T
        <5>1. Dir \in Seq(T)
          BY LoadAssumption, Zenon
        <5> HIDE DEF T
        <5> QED
          BY <5>1
      <4> QED
        BY <4>1, Zenon
    <3>3. Dir[i].s # 0
      BY <1>3, Zenon DEF PublishFile
    <3> QED
      BY <3>1, <3>2, <3>3 DEF Schemas
  <2> QED
    BY <1>1, <1>3, <2>1, GatherKeeps, SMTT(30) DEF PublishFile, Publish
<1>4. ASSUME TakeReply PROVE IInv'
  <2>1. PICK F : Shape(F)
    BY Zenon DEF IInv, Shaped
  <2> DEFINE r == pub[Loader]
             R == [r EXCEPT !.out = "none"]
  <2>2. /\ pub' = [pub EXCEPT ![Loader] = R] /\ r \in Requests(F)
        /\ UNCHANGED <<log, current, staged, memCurrent, memStaged, promoted, binary>>
    BY <1>1, <1>4, <2>1, Zenon DEF TakeReply, Shape, storeVars, memVars, history, server
  <2>3. R \in Requests(F)
    BY <2>2, ReplyShape, ZenonT(30) DEF Outcomes
  <2>4. R.ph = r.ph /\ R.s = r.s /\ R.v = r.v /\ R.deps = r.deps /\ R.tiers = r.tiers
    BY <2>2, Zenon DEF Requests
  <2>5. HandlerOK(R)
    BY <1>1, <2>4, Zenon DEF IInv, HandlerOK
  <2> QED
    BY <1>1, <2>1, <2>2, <2>3, <2>5, KeepsStore, ZenonT(30)
<1>5. ASSUME Command PROVE IInv'
  BY <1>2, <1>3, <1>4, <1>5, PromoteKeeps, Zenon
  DEF Command, FailFile, StartPass, EndPass, PromoteLoaded
<1>6. ASSUME Step(Loader) PROVE IInv'
  BY <1>1, <1>6, GatherTierKeeps, CompileSourcesKeeps, CheckConflictsKeeps, RecordKeeps, Zenon
  DEF Step
<1>7. Procs \ {Loader} \in SUBSET Procs
  BY SMTT(30)
<1> QED
  BY <1>2, <1>5, <1>6, <1>7, OthersKeep, Zenon DEF LoadNext, LoadStep, Quiet

-----------------------------------------------------------------------------
(* What the invariant gives the readers. *)
LEMMA ReadersServed == IInv => ReadsAgree
<1> SUFFICES ASSUME IInv, NEW n \in Namespaces, NEW s \in Live(n)
             PROVE  /\ <<s, memCurrent[s].v>> \in promoted
                    /\ log[s][memCurrent[s].v].cv = binary => memCurrent[s].fds = GetDescriptor(s)
  BY Zenon DEF ReadsAgree
<1>1. s \in Schemas /\ memCurrent[s] # NoSnap
  BY Zenon DEF Live, In
<1> QED
  BY <1>1, Zenon DEF IInv, PointersOK, GetDescriptor

(* The invariant holds of the server alone and with the load command.      *)
THEOREM Invariance == (Spec => []IInv) /\ (LoadSpec => []IInv)
<1>1. Spec => []IInv
  BY InitIInv, NextIInv, PTL DEF Spec
<1>2. LoadInit => IInv
  BY InitIInv, Zenon DEF LoadInit
<1>3. LoadSpec => []IInv
  BY <1>2, LoadNextIInv, PTL DEF LoadSpec
<1> QED
  BY <1>1, <1>3, Zenon

(* gatherChainTiers reads current versions only, so whatever is published, *)
(* promoted, rolled back, re-parented or restarted meanwhile, by however   *)
(* many handlers, no version is ever pinned to one of another namespace    *)
(* that was not promoted.                                                  *)
THEOREM PinsSettled == LoadSpec => []AncestorPinsPromoted
<1>1. IInv => AncestorPinsPromoted
  BY Zenon DEF IInv
<1> QED
  BY <1>1, Invariance, PTL

(* The snapshot names are resolved in and the descriptor set GetDescriptor *)
(* returns are the same, and of a promoted version, for any number of      *)
(* handlers and restarts, as long as the compiler is the row's.            *)
THEOREM ReadPathsAgree == LoadSpec => []ReadsAgree
<1> QED
  BY ReadersServed, Invariance, PTL

-----------------------------------------------------------------------------
(* The load command. *)

(* File i is done with, or waits for another that is not loaded. *)
Accounted(i) == Done(Dir[i].f) \/ Missing(i) # {}

(* A file under way was still to do and had what it imports; the files     *)
(* that a pass without progress has behind it are accounted for.           *)
LoadInv ==
    /\ at \in 1..(Len(Dir) + 1)
    /\ pass = "next" => at = 1
    /\ pass = "wait" => at \in 1..Len(Dir) /\ ~Done(Dir[at].f) /\ Missing(at) = {}
    /\ pass \in {"scan", "wait"} /\ ~progress => \A i \in 1..(at - 1) : Accounted(i)
    /\ pass \in {"promote", "ended"} => \A i \in 1..Len(Dir) : Accounted(i)
    /\ loaded \cap failed = {}
    /\ \A i \in 1..Len(Dir) : Dir[i].f \in loaded => Missing(i) = {}

(* The handler that serves the command is at work or holds a reply, never  *)
(* both, and the command waits for the one or the other.                   *)
ReplyInv ==
    /\ ReplyComes
    /\ ~Idle(Loader) => pub[Loader].out = "none"

(* What is done stays done, and what a file lacks can only become less. *)
LEMMA LoadGrows ==
  ASSUME NEW i \in 1..Len(Dir), loaded \subseteq loaded', failed \subseteq failed'
  PROVE  /\ Done(Dir[i].f) => Done(Dir[i].f)'
         /\ Missing(i)' \subseteq Missing(i)
         /\ loaded' = loaded /\ Accounted(i) => Accounted(i)'
  BY DEF Done, Missing, Accounted, FileSet

(* The scan has come to file i: all before it are accounted for unless the *)
(* pass has made progress.                                                 *)
LEMMA ScanAccounts ==
  ASSUME LoadInv, NEW i \in 1..(Len(Dir) + 1), Reaches(i), ~progress
  PROVE  \A j \in 1..(i - 1) : Accounted(j)
<1>1. at \in Nat /\ i \in Nat /\ Len(Dir) \in Nat
  BY LoadAssumption DEF LoadInv
<1>2. \A j \in 1..(at - 1) : Accounted(j)
  BY Zenon DEF LoadInv, Reaches
<1>3. \A j \in at..(i - 1) : Accounted(j)
  BY Zenon DEF Reaches, PassedOver, Accounted
<1> QED
  BY <1>1, <1>2, <1>3

(* A file is reported as failed. *)
LEMMA FailFileAccounts ==
  ASSUME LoadInv, NEW i \in 1..Len(Dir), FailFile(i)
  PROVE  LoadInv'
<1>1. Len(Dir) \in Nat /\ i \in Nat /\ i + 1 \in 1..(Len(Dir) + 1) /\ i \in 1..(Len(Dir) + 1)
  BY LoadAssumption
<1>2. /\ Reaches(i) /\ ~Done(Dir[i].f) /\ failed' = failed \cup {Dir[i].f}
      /\ at' = i + 1 /\ pass = "scan" /\ pass' = "scan" /\ progress' = progress /\ loaded' = loaded
  BY Zenon DEF FailFile, Reaches
<1>3. \A j \in 1..Len(Dir) : Missing(j)' = Missing(j)
  BY <1>2, Zenon DEF Missing
<1>4. ASSUME ~progress PROVE \A j \in 1..(at' - 1) : Accounted(j)'
  <2>1. \A j \in 1..(i - 1) : Accounted(j)
    BY <1>1, <1>2, <1>4, ScanAccounts, Zenon
  <2>2. \A j \in 1..(i - 1) : Accounted(j)'
    <3> TAKE j \in 1..(i - 1)
    <3>1. j \in 1..Len(Dir)
      BY <1>1
    <3> QED
      BY <1>2, <2>1, <3>1, LoadGrows
  <2>3. Accounted(i)'
    BY <1>2 DEF Accounted, Done
  <2>4. \A j \in 1..(at' - 1) : j \in 1..(i - 1) \/ j = i
    BY <1>1, <1>2
  <2> QED
    BY <2>2, <2>3, <2>4, Zenon
<1>5. loaded' \cap failed' = {}
  BY <1>2, Zenon DEF LoadInv, Done
<1> QED
  BY <1>1, <1>2, <1>3, <1>4, <1>5, Zenon DEF LoadInv

(* A file is sent to the server. *)
LEMMA PublishFileAccounts ==
  ASSUME LoadInv, NEW i \in 1..Len(Dir), PublishFile(i)
  PROVE  LoadInv'
<1>1. Len(Dir) \in Nat /\ i \in 1..(Len(Dir) + 1)
  BY LoadAssumption
<1>2. /\ Reaches(i) /\ ~Done(Dir[i].f) /\ Missing(i) = {} /\ at' = i /\ pass' = "wait"
      /\ progress' = progress /\ loaded' = loaded /\ failed' = failed
  BY Zenon DEF PublishFile
<1>3. \A j \in 1..Len(Dir) : /\ Missing(j)' = Missing(j)
                             /\ Done(Dir[j].f)' <=> Done(Dir[j].f)
                             /\ Accounted(j)' <=> Accounted(j)
  BY <1>2, Zenon DEF Missing, Done, Accounted
<1>4. ASSUME ~progress PROVE \A j \in 1..(i - 1) : Accounted(j)'
  <2>1. \A j \in 1..(i - 1) : j \in 1..Len(Dir)
    BY <1>1
  <2> QED
    BY <1>1, <1>2, <1>3, <1>4, <2>1, ScanAccounts, Zenon
<1> QED
  BY <1>1, <1>2, <1>3, <1>4, Zenon DEF LoadInv

(* The reply is taken. *)
LEMMA TakeReplyAccounts ==
  ASSUME LoadInv, TakeReply
  PROVE  LoadInv'
<1>1. /\ Len(Dir) \in Nat /\ at \in 1..Len(Dir) /\ at \in Nat
      /\ at + 1 \in 1..(Len(Dir) + 1)
  <2>1. Len(Dir) \in Nat
    BY LoadAssumption
  <2>2. at \in 1..Len(Dir)
    BY Zenon DEF TakeReply, LoadInv
  <2> QED
    BY <2>1, <2>2
<1>2. /\ pass' = "scan" /\ at' = at + 1
      /\ ~Done(Dir[at].f) /\ Missing(at) = {}
  BY Zenon DEF TakeReply, LoadInv
<1>3. CASE pub[Loader].out = "ok"
  <2>1. loaded' = loaded \cup {Dir[at].f} /\ progress' = TRUE /\ failed' = failed
    BY <1>3, Zenon DEF TakeReply
  <2>2. loaded' \cap failed' = {}
    BY <1>2, <2>1, Zenon DEF LoadInv, Done
  <2>3. ASSUME NEW i \in 1..Len(Dir), Dir[i].f \in loaded' PROVE Missing(i)' = {}
    <3>1. Missing(i)' \subseteq Missing(i)
      BY <2>1, LoadGrows
    <3>2. CASE Dir[i].f \in loaded
      BY <3>1, <3>2, Zenon DEF LoadInv
    <3>3. CASE Dir[i].f = Dir[at].f
      <4>1. i = at
        BY <1>1, <3>3, LoadAssumption, Zenon
      <4> QED
        BY <1>2, <3>1, <4>1, Zenon
    <3> QED
      BY <2>1, <2>3, <3>2, <3>3, Zenon
  <2> QED
    BY <1>1, <1>2, <2>1, <2>2, <2>3, Zenon DEF LoadInv
<1>4. CASE pub[Loader].out # "ok"
  <2>1. failed' = failed \cup {Dir[at].f} /\ loaded' = loaded /\ progress' = progress
    BY <1>4, Zenon DEF TakeReply
  <2>2. loaded' \cap failed' = {}
    BY <1>2, <2>1, Zenon DEF LoadInv, Done
  <2>3. \A i \in 1..Len(Dir) : Missing(i)' = Missing(i)
    BY <2>1, Zenon DEF Missing
  <2>4. ASSUME ~progress PROVE \A i \in 1..(at' - 1) : Accounted(i)'
    <3>1. \A i \in 1..(at - 1) : Accounted(i)
      BY <2>4, Zenon DEF LoadInv, TakeReply
    <3>2. \A i \in 1..(at - 1) : Accounted(i)'
      <4> TAKE i \in 1..(at - 1)
      <4>1. i \in 1..Len(Dir)
        BY <1>1
      <4> QED
        BY <2>1, <3>1, <4>1, LoadGrows
    <3>3. PICK i \in 1..Len(Dir) : i = at
      BY <1>1, Zenon
    <3>5. Accounted(i)'
      BY <2>1, <3>3 DEF Accounted, Done
    <3>4. \A j \in 1..(at' - 1) : j \in 1..(at - 1) \/ j = i
      BY <1>1, <1>2, <3>3
    <3> QED
      BY <3>2, <3>4, <3>5, Zenon
  <2> QED
    BY <1>1, <1>2, <2>1, <2>2, <2>3, <2>4, Zenon DEF LoadInv
<1> QED
  BY <1>3, <1>4, Zenon


(* A pass ends, and with it the command if it made no progress. *)
LEMMA EndPassAccounts ==
  ASSUME LoadInv, EndPass
  PROVE  LoadInv'
<1>1. Len(Dir) \in Nat /\ 1 \in 1..(Len(Dir) + 1) /\ Len(Dir) + 1 \in 1..(Len(Dir) + 1)
  BY LoadAssumption
<1>2. /\ Reaches(Len(Dir) + 1) /\ at' = 1 /\ loaded' = loaded /\ failed' = failed
      /\ progress => pass' = "next"
      /\ ~progress => pass' \in {"promote", "ended"}
  BY Zenon DEF EndPass
<1>3. \A j \in 1..Len(Dir) : Missing(j)' = Missing(j) /\ (Accounted(j)' <=> Accounted(j))
  BY <1>2, Zenon DEF Missing, Done, Accounted
<1>4. ASSUME ~progress PROVE \A j \in 1..Len(Dir) : Accounted(j)
  <2>1. \A j \in 1..((Len(Dir) + 1) - 1) : Accounted(j)
    BY <1>1, <1>2, <1>4, ScanAccounts, Zenon
  <2> QED
    BY <1>1, <2>1
<1>5. pass' \in {"next", "promote", "ended"}
  BY <1>2, Zenon
<1>6. pass' \in {"promote", "ended"} => ~progress
  BY <1>2, Zenon
<1> QED
  BY <1>1, <1>2, <1>3, <1>4, <1>5, <1>6, Zenon DEF LoadInv

(* The steps that leave the books of the command alone. *)
LEMMA BooksKept ==
  ASSUME LoadInv, UNCHANGED <<at, progress, loaded, failed>>,
         \/ pass' = pass
         \/ pass = "next" /\ pass' = "scan"
         \/ pass = "promote" /\ pass' = "ended"
  PROVE  LoadInv'
<1>1. \A j : /\ Missing(j)' = Missing(j)
             /\ Done(Dir[j].f)' <=> Done(Dir[j].f)
             /\ Accounted(j)' <=> Accounted(j)
  BY Zenon DEF Missing, Done, Accounted
<1>2. 1..(1 - 1) = {}
  OBVIOUS
<1>3. CASE pass' = pass
  BY <1>1, <1>3, Zenon DEF LoadInv, Done, Missing
<1>4. CASE pass = "next" /\ pass' = "scan"
  <2>1. at = 1 /\ at' = 1 /\ \A j \in 1..(at' - 1) : FALSE
    BY <1>2, <1>4, Zenon DEF LoadInv
  <2> QED
    BY <1>1, <1>4, <2>1, Zenon DEF LoadInv
<1>5. CASE pass = "promote" /\ pass' = "ended"
  BY <1>1, <1>5, Zenon DEF LoadInv
<1> QED
  BY <1>3, <1>4, <1>5, Zenon

(* No step loses account of a file. *)
LEMMA LoadNextAccounts == LoadInv /\ [LoadNext]_allVars => LoadInv'
<1> SUFFICES ASSUME LoadInv, [LoadNext]_allVars PROVE LoadInv'
  BY Zenon
<1>1. ASSUME UNCHANGED loadVars PROVE LoadInv'
  BY <1>1, BooksKept, Zenon DEF loadVars
<1>2. ASSUME StartPass \/ PromoteLoaded PROVE LoadInv'
  BY <1>2, BooksKept, Zenon DEF StartPass, PromoteLoaded
<1>3. ASSUME Command PROVE LoadInv'
  BY <1>2, <1>3, FailFileAccounts, PublishFileAccounts, TakeReplyAccounts, EndPassAccounts, Zenon
  DEF Command
<1> QED
  BY <1>1, <1>3, Zenon DEF LoadNext, LoadStep, Quiet, allVars

(* The command begins with nothing loaded. *)
LEMMA LoadInitAccounts == LoadInit => LoadInv
<1> SUFFICES ASSUME LoadInit PROVE LoadInv
  BY Zenon
<1>1. 1 \in 1..(Len(Dir) + 1)
  BY LoadAssumption
<1> QED
  BY <1>1, Zenon DEF LoadInit, LoadInv

(* The passes of load account for every file: the order of imports is      *)
(* kept, nothing is both loaded and failed, and at the end a file that is  *)
(* neither waits for another that is not loaded, whatever the server       *)
(* answers and for any directory.                                          *)
THEOREM LoadCorrect == LoadSpec => []LoadAccounts
<1>1. LoadInv => LoadAccounts
  BY Zenon DEF LoadInv, LoadAccounts, Accounted
<1> QED
  BY <1>1, LoadInitAccounts, LoadNextAccounts, PTL DEF LoadSpec

-----------------------------------------------------------------------------
(* The command and the handler that serves it. *)

(* A step of the handler goes on or leaves a reply. *)
LEMMA StepReplies ==
  ASSUME IInv, ReplyInv, Step(Loader)
  PROVE  /\ ~Idle(Loader)
         /\ ~Idle(Loader)' => pub'[Loader].out = "none"
         /\ Idle(Loader)' => pub'[Loader].out # "none"
<1>1. Loader \in Procs /\ Loader \in Kept
  BY LineageAssumption, LoadAssumption, SMTT(30)
<1>2. PICK F : pub \in [Procs -> Requests(F)]
  BY Zenon DEF IInv, Shaped, Shape
<1>3. pub[Loader] \in Requests(F)
  BY <1>1, <1>2, Zenon
<1>4. ~Idle(Loader) /\ pub[Loader].out = "none"
  BY Zenon DEF Step, GatherTier, CompileSources, CheckConflicts, Record, Idle, ReplyInv
<1>5. ASSUME NEW out, out # "none", Reply(Loader, out)
      PROVE  Idle(Loader)' /\ pub'[Loader].out # "none"
  <2>1. pub'[Loader] = [NoRequest EXCEPT !.out = out]
    BY <1>1, <1>2, <1>5, Zenon DEF Reply
  <2> QED
    BY <1>5, <2>1 DEF Idle, NoRequest
<1>6. ASSUME GatherTier(Loader) PROVE ~Idle(Loader)' /\ pub'[Loader].out = "none"
  BY <1>1, <1>2, <1>3, <1>4, <1>6 DEF GatherTier, Requests, Idle
<1>7. ASSUME CompileSources(Loader)
      PROVE  \/ Reply(Loader, "error")
             \/ ~Idle(Loader)' /\ pub'[Loader].out = "none"
  BY <1>1, <1>2, <1>3, <1>4, <1>7 DEF CompileSources, Requests, Idle
<1>8. ASSUME CheckConflicts(Loader)
      PROVE  \/ Reply(Loader, "error")
             \/ ~Idle(Loader)' /\ pub'[Loader].out = "none"
  BY <1>1, <1>2, <1>3, <1>4, <1>8 DEF CheckConflicts, Requests, Idle
<1>9. ASSUME Record(Loader) PROVE Reply(Loader, "ok") \/ Reply(Loader, "error")
  BY <1>9, Zenon DEF Record
<1> QED
  BY <1>4, <1>5, <1>6, <1>7, <1>8, <1>9, Zenon DEF Step


(* A step of another handler, or an operation on a namespace, leaves the   *)
(* command's handler alone, unless the server restarts: then a request     *)
(* under way is answered with an error.                                    *)
LEMMA OthersReply ==
  ASSUME IInv, Others(Procs \ {Loader})
  PROVE  \/ pub'[Loader] = pub[Loader]
         \/ ~Idle(Loader) /\ Idle(Loader)' /\ pub'[Loader].out # "none"
<1>1. Loader \in Procs /\ Loader \in Kept
  BY LineageAssumption, LoadAssumption, SMTT(30)
<1>2. PICK F : pub \in [Procs -> Requests(F)]
  BY Zenon DEF IInv, Shaped, Shape
<1>3. ASSUME NEW p \in Procs, p # Loader, NEW r, pub' = [pub EXCEPT ![p] = r]
      PROVE  pub'[Loader] = pub[Loader]
  BY <1>1, <1>2, <1>3, Zenon
<1>4. ASSUME NEW p \in Procs, p # Loader, Arrive(p) PROVE pub'[Loader] = pub[Loader]
  BY <1>3, <1>4, Zenon DEF Arrive, Publish, Rebase, Gather
<1>5. ASSUME NEW p \in Procs, p # Loader, Step(p) PROVE pub'[Loader] = pub[Loader]
  BY <1>1, <1>2, <1>5, Zenon
  DEF Step, GatherTier, CompileSources, CheckConflicts, Record, Reply
<1>6. ASSUME NEW b, Restart(b)
      PROVE  \/ pub'[Loader] = pub[Loader]
             \/ ~Idle(Loader) /\ Idle(Loader)' /\ pub'[Loader].out # "none"
  <2>1. pub'[Loader] = IF Idle(Loader) THEN pub[Loader] ELSE [NoRequest EXCEPT !.out = "error"]
    BY <1>1, <1>6, Zenon DEF Restart
  <2>2. LET r == [NoRequest EXCEPT !.out = "error"] IN r.ph = "idle" /\ r.out # "none"
    BY DEF NoRequest
  <2> QED
    BY <2>1, <2>2, Zenon DEF Idle
<1>7. ASSUME Operate
      PROVE  \/ pub'[Loader] = pub[Loader]
             \/ ~Idle(Loader) /\ Idle(Loader)' /\ pub'[Loader].out # "none"
  BY <1>6, <1>7, Zenon DEF Operate, Promote, DiscardStaging, Rollback, SetNamespaceParent
<1>8. \A p \in Procs \ {Loader} : p \in Procs /\ p # Loader
  BY Zenon
<1> QED
  BY <1>4, <1>5, <1>7, <1>8, Zenon DEF Others, Counted

(* The command's own steps. *)
LEMMA CommandReplies ==
  ASSUME IInv, ReplyInv, Command
  PROVE  ReplyInv'
<1>1. Loader \in Procs
  BY LineageAssumption, LoadAssumption, SMTT(30)
<1>2. PICK F : pub \in [Procs -> Requests(F)]
  BY Zenon DEF IInv, Shaped, Shape
<1>3. pub[Loader] \in Requests(F)
  BY <1>1, <1>2, Zenon
<1>4. ASSUME NEW i \in 1..Len(Dir), PublishFile(i) PROVE ReplyInv'
  <2>1. /\ pass' = "wait"
        /\ Gather(Loader, "publish", Dir[i].s, [f \in {Dir[i].f} |-> Dir[i].t])
    BY <1>4 DEF PublishFile, Publish
  <2>2. pub'[Loader].ph = "tiers" /\ pub'[Loader].out = "none"
    BY <1>1, <1>2, <2>1 DEF Gather, NoRequest
  <2> QED
    BY <2>1, <2>2, Zenon DEF ReplyInv, ReplyComes, Idle
<1>5. ASSUME TakeReply PROVE ReplyInv'
  <2>1. pass' = "scan" /\ Idle(Loader) /\ pub' = [pub EXCEPT ![Loader].out = "none"]
    BY <1>5, Zenon DEF TakeReply, ReplyInv
  <2>2. pub'[Loader].ph = pub[Loader].ph /\ pub'[Loader].out = "none"
    BY <1>1, <1>2, <1>3, <2>1 DEF Requests
  <2> QED
    BY <2>1, <2>2, Zenon DEF ReplyInv, ReplyComes, Idle
<1>6. ASSUME pub' = pub, pass # "wait", pass' # "wait" PROVE ReplyInv'
  BY <1>6, Zenon DEF ReplyInv, ReplyComes, Idle
<1>7. ASSUME NEW i \in 1..Len(Dir), FailFile(i) PROVE ReplyInv'
  BY <1>6, <1>7, Zenon DEF FailFile, Reaches, registry
<1>8. ASSUME StartPass \/ EndPass PROVE ReplyInv'
  BY <1>6, <1>8, Zenon DEF StartPass, EndPass, Reaches, registry
<1>9. ASSUME PromoteLoaded PROVE ReplyInv'
  BY <1>6, <1>9, Zenon DEF PromoteLoaded, Promote, registry
<1> QED
  BY <1>4, <1>5, <1>7, <1>8, <1>9, Zenon DEF Command

(* Every step keeps the command and its handler in step. *)
LEMMA LoadNextReplies == IInv /\ ReplyInv /\ [LoadNext]_allVars => ReplyInv'
<1> SUFFICES ASSUME IInv, ReplyInv, [LoadNext]_allVars PROVE ReplyInv'
  BY Zenon
<1>1. ASSUME pub'[Loader] = pub[Loader], pass' = pass PROVE ReplyInv'
  BY <1>1, Zenon DEF ReplyInv, ReplyComes, Idle
<1>2. ASSUME Step(Loader), UNCHANGED loadVars PROVE ReplyInv'
  <2>1. pass' = pass
    BY <1>2, Zenon DEF loadVars
  <2> QED
    BY <1>2, <2>1, StepReplies, Zenon DEF ReplyInv, ReplyComes, Idle
<1>3. ASSUME Others(Procs \ {Loader}), UNCHANGED loadVars PROVE ReplyInv'
  <2>1. pass' = pass
    BY <1>3, Zenon DEF loadVars
  <2> QED
    BY <1>1, <1>3, <2>1, OthersReply, Zenon DEF ReplyInv, ReplyComes, Idle
<1>4. ASSUME UNCHANGED allVars PROVE ReplyInv'
  BY <1>1, <1>4, Zenon DEF allVars, vars, loadVars
<1> QED
  BY <1>2, <1>3, <1>4, CommandReplies, Zenon DEF LoadNext, LoadStep, Quiet

(* The command waits for a reply exactly while its request is under way or *)
(* the reply is there to be taken: no restart, and nothing another handler *)
(* does, leaves it waiting for a reply that cannot come.                   *)
THEOREM RepliesCome == LoadSpec => []ReplyComes
<1>1. LoadInit => ReplyInv
  <2> SUFFICES ASSUME LoadInit PROVE ReplyInv
    BY Zenon
  <2>1. Loader \in Procs
    BY LineageAssumption, LoadAssumption, SMTT(30)
  <2>2. pub[Loader] = NoRequest /\ pass = "next"
    BY <2>1, Zenon DEF LoadInit, Init
  <2>3. NoRequest.ph = "idle" /\ NoRequest.out = "none"
    BY DEF NoRequest
  <2> QED
    BY <2>2, <2>3, Zenon DEF ReplyInv, ReplyComes, Idle
<1>2. ReplyInv => ReplyComes
  BY Zenon DEF ReplyInv
<1> QED
  BY <1>1, <1>2, Invariance, LoadNextReplies, PTL DEF LoadSpec
=============================================================================
