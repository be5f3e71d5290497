------------------------------ MODULE Lineage ------------------------------
(***************************************************************************)
(* What a schema version is compiled from, and what its readers find: the  *)
(* gathering of sibling schemas, ancestors and built-ins by publishInternal *)
(* (registry.go), the resolver chain and self-contained descriptor sets of *)
(* the compiler (compiler/), the name check against ancestors, the pins it *)
(* records, Rebase, Restore, and the read paths of resolve/ and server/.   *)
(*                                                                         *)
(* A text is the source of one file; Defines and Imports say what it       *)
(* declares and which paths it imports.  The steps that store and stage a  *)
(* version, and those of Promote, are one step each here: Registry takes   *)
(* them apart.                                                             *)
(***************************************************************************)
EXTENDS Naturals, Sequences, FiniteSets

CONSTANTS NumSchemas,   \* schemas, in the order of their IDs
          Home,         \* Home[s]: the namespace of schema s
          Namespaces,   \* namespace IDs
          Builtins,     \* the namespace __builtins__
          None,         \* no namespace, no descriptor set
          Paths,        \* file names
          Defines,      \* Defines[t]: the names text t declares
          Imports,      \* Imports[t]: the paths text t imports
          Uploads,      \* source sets that are published, with their schema
          Start,        \* the parents to begin with
          Moves,        \* the re-parentings that are asked for: child, parent
          Procs,        \* request handlers
          Kept,         \* the handlers whose caller looks at the reply
          MaxVersion,   \* bound: no request arrives once a schema has this many
          Seed,         \* uploads that are current when the model starts
          MaxOps        \* bound: requests and restarts, those of Kept aside

Schemas == 1..NumSchemas
Texts == DOMAIN Defines
Names == UNION {Defines[t] : t \in Texts}
NoFiles == << >>   \* the function with an empty domain

(* Files, each with its text. *)
IsSourceSet(files) ==
    DOMAIN files \subseteq Paths /\ files \in [DOMAIN files -> Texts]

(* Every import is in the set, and no name twice. *)
StandsAlone(fds) ==
    /\ \A f \in DOMAIN fds : Imports[fds[f]] \subseteq DOMAIN fds
    /\ \A f, g \in DOMAIN fds : f # g => Defines[fds[f]] \cap Defines[fds[g]] = {}

ASSUME LineageAssumption ==
    /\ NumSchemas \in Nat
    /\ MaxOps \in Nat
    /\ IsFiniteSet(Namespaces)
    /\ IsFiniteSet(Paths)
    /\ Home \in [Schemas -> Namespaces]
    /\ Builtins \in Namespaces
    /\ None \notin Namespaces
    /\ DOMAIN Imports = Texts
    /\ \A t \in Texts : Imports[t] \subseteq Paths
    /\ \A u \in Uploads \cup Seed : u.s \in Schemas /\ IsSourceSet(u.files)
    /\ \A u \in Seed : u.files # None /\ StandsAlone(u.files)
    /\ Start \in [Namespaces -> Namespaces \cup {None}]
    /\ Moves \subseteq [n : Namespaces, to : Namespaces \cup {None}]
    /\ Kept \subseteq Procs

VARIABLES log,        \* schema_versions with their files, deps and descriptors
          current,    \* schemas.current_version, 0 for NULL
          staged,     \* schemas.staged_version, 0 for NULL
          memCurrent, \* schemaSlot.current
          memStaged,  \* schemaSlot.staged
          parent,     \* Namespace.parent, and the row it mirrors
          pub,        \* what each handler is doing
          promoted,   \* history: the <<schema, version>> that have been current
          calm,       \* history: versions checked against what they were compiled with
          binary,     \* compiler.Version() of the running server
          ops         \* requests and restarts so far

storeVars == <<log, current, staged>>
memVars == <<memCurrent, memStaged>>
history == <<promoted, calm>>
server == <<parent, binary>>
vars == <<log, current, staged, memCurrent, memStaged, parent, pub, promoted,
          calm, binary, ops>>

NoSnap == [v |-> 0, fds |-> NoFiles]

NoRequest == [op |-> "none", ph |-> "idle", s |-> 0, files |-> NoFiles, v |-> 0,
              deps |-> {}, chain |-> << >>, tiers |-> << >>, fds |-> NoFiles,
              calm |-> FALSE, out |-> "none"]

Idle(p) == pub[p].ph = "idle"

(* The reply stays until the caller, if it is one that looks, takes it. *)
Reply(p, out) ==
    pub' = [pub EXCEPT ![p] = [NoRequest EXCEPT !.out = IF p \in Kept THEN out ELSE "none"]]

(* A seed is its own descriptor set. *)
Init ==
    LET seed(s) == (CHOOSE u \in Seed : u.s = s).files
        seeded == {u.s : u \in Seed}
    IN
    /\ log = [s \in Schemas |-> IF s \notin seeded THEN << >> ELSE
                <<[files |-> seed(s), deps |-> {}, fds |-> seed(s), cv |-> 0]>>]
    /\ current = [s \in Schemas |-> IF s \in seeded THEN 1 ELSE 0]
    /\ staged = [s \in Schemas |-> 0]
    /\ memCurrent = [s \in Schemas |->
                        IF s \in seeded THEN [v |-> 1, fds |-> seed(s)] ELSE NoSnap]
    /\ memStaged = [s \in Schemas |-> NoSnap]
    /\ parent = Start
    /\ pub = [p \in Procs |-> NoRequest]
    /\ promoted = {<<s, 1>> : s \in seeded}
    /\ calm = {}
    /\ binary = 0
    /\ ops = 0

-----------------------------------------------------------------------------
(* The store's queries and the walk up the hierarchy. *)

In(n) == {s \in Schemas : Home[s] = n}

(* The files of versions ver[s] of the schemas of n, one row per file. *)
FileRows(n, ver) ==
    UNION {{[s |-> s, v |-> ver[s], f |-> f] : f \in DOMAIN log[s][ver[s]].files} :
           s \in {t \in In(n) : ver[t] # 0}}

LoadNamespaceCurrent(n) == FileRows(n, current)

(* COALESCE(staged_version, current_version). *)
LoadNamespaceProposed(n) ==
    FileRows(n, [s \in Schemas |-> IF staged[s] # 0 THEN staged[s] ELSE current[s]])

(* GetBlob for a row: the text of the file. *)
GetBlob(d) == log[d.s][d.v].files[d.f]

(* Namespace.Chain without the namespace itself, nearest first. *)
Ancestors(n) ==
    LET walk[d \in 0..Cardinality(Namespaces)] ==
            IF d = 0 THEN <<n>>
            ELSE LET c == walk[d - 1]
                     up == parent[c[Len(c)]]
                 IN  IF up = None \/ \E i \in 1..Len(c) : c[i] = up THEN c
                     ELSE Append(c, up)
    IN  Tail(walk[Cardinality(Namespaces)])

-----------------------------------------------------------------------------
(* The compiler. *)

(* sourceMapResolver: a later row replaces an earlier one and the schema's *)
(* own source of the same path.                                            *)
SourceMap(own, deps) ==
    [f \in DOMAIN own \cup {d.f : d \in deps} |->
        LET rows == {d \in deps : d.f = f}
        IN  IF rows = {} THEN own[f]
            ELSE GetBlob(CHOOSE d \in rows : \A e \in rows : e.s <= d.s)]

(* buildResolverChain: the namespace, its ancestors, the built-ins; what   *)
(* is bundled and the well-known types are never imported here.            *)
ResolverChain(files, deps, tiers, builtins) ==
    <<SourceMap(files, deps)>>
        \o [i \in 1..Len(tiers) |-> SourceMap(NoFiles, tiers[i])]
        \o <<SourceMap(NoFiles, builtins)>>

Found(chain) == UNION {DOMAIN chain[i] : i \in 1..Len(chain)}

(* The text of every path, from the first tier that has it. *)
Resolve(chain) ==
    [f \in Found(chain) |->
        chain[CHOOSE i \in 1..Len(chain) :
                  f \in DOMAIN chain[i] /\ \A j \in 1..(i - 1) : f \notin DOMAIN chain[j]][f]]

(* The paths of S and what they import, directly or not, so far as found. *)
Closure(S, text) ==
    LET reach[d \in 0..Cardinality(Paths)] ==
            IF d = 0 THEN S
            ELSE LET R == reach[d - 1]
                 IN  R \cup UNION {Imports[text[f]] : f \in R \cap DOMAIN text}
    IN  reach[Cardinality(Paths)]

(* Deviation: the direct imports only are put in the set. *)
CompileShallow(files, deps, tiers, builtins) ==
    LET text == Resolve(ResolverChain(files, deps, tiers, builtins))
        all == DOMAIN files \cup UNION {Imports[text[f]] : f \in DOMAIN files}
    IN  IF Closure(DOMAIN files, text) \subseteq DOMAIN text
        THEN [f \in all |-> text[f]] ELSE None

(* Compile: the schema's own paths and, by addFile, all they import.       *)
(* Nothing comes of an import nobody has, a cycle, or a name declared in   *)
(* two files.                                                              *)
Compile(files, deps, tiers, builtins) ==
    LET text == Resolve(ResolverChain(files, deps, tiers, builtins))
        all == Closure(DOMAIN files, text)
    IN  IF /\ all \subseteq DOMAIN text
           /\ \A f \in all : f \notin Closure(Imports[text[f]], text)
           /\ \A f, g \in all : f # g => Defines[text[f]] \cap Defines[text[g]] = {}
        THEN [f \in all |-> text[f]]
        ELSE None

(* collectFQNs: the names of a descriptor set, with their files. *)
CollectFQNs(fds) ==
    UNION {{[name |-> x, f |-> f] : x \in Defines[fds[f]]} : f \in DOMAIN fds}

(* Deviation: a name is a conflict only in a file of the same path. *)
DetectFQNConflictsSame(child, ancestor) ==
    \E c \in CollectFQNs(child), a \in CollectFQNs(ancestor) :
        c.name = a.name /\ c.f = a.f /\ child[c.f] # ancestor[a.f]

(* DetectFQNConflicts: a name that both have, in files of different paths. *)
DetectFQNConflicts(child, ancestor) ==
    \E c \in CollectFQNs(child), a \in CollectFQNs(ancestor) :
        c.name = a.name /\ c.f # a.f

-----------------------------------------------------------------------------
(* publishInternal, for Publish and for Rebase. *)

(* The request is accepted and gatherDeps reads the siblings: what is      *)
(* staged, else what is current, of every other schema of the namespace.   *)
(* The chain is read in the same step, before its first tier.              *)
Gather(p, op, s, files) ==
    /\ pub' = [pub EXCEPT ![p] = [NoRequest EXCEPT
          !.op = op, !.ph = "tiers", !.s = s, !.files = files,
          !.deps = {d \in LoadNamespaceProposed(Home[s]) : d.s # s},
          !.chain = Ancestors(Home[s])]]
    /\ UNCHANGED <<storeVars, memVars, history, server>>

Publish(p, u) == Idle(p) /\ Gather(p, "publish", u.s, u.files)

(* Rebase publishes the sources of the version that is current in memory. *)
Rebase(p, s) ==
    /\ Idle(p)
    /\ memCurrent[s] # NoSnap
    /\ Gather(p, "rebase", s, log[s][memCurrent[s].v].files)

(* Deviation: an ancestor contributes what it has staged. *)
GatherTierProposed(p) ==
    /\ pub[p].ph = "tiers"
    /\ pub[p].chain # << >>
    /\ pub' = [pub EXCEPT ![p].chain = Tail(@),
                   ![p].tiers = Append(@, LoadNamespaceProposed(Head(pub[p].chain)))]
    /\ UNCHANGED <<storeVars, memVars, history, server>>

(* gatherChainTiers, one ancestor: each is read at a moment of its own. *)
GatherTier(p) ==
    /\ pub[p].ph = "tiers"
    /\ pub[p].chain # << >>
    /\ pub' = [pub EXCEPT ![p].chain = Tail(@),
                   ![p].tiers = Append(@, LoadNamespaceCurrent(Head(pub[p].chain)))]
    /\ UNCHANGED <<storeVars, memVars, history, server>>

(* gatherBuiltins: every namespace but __builtins__ itself sees them. *)
GatherBuiltins(n) == IF n = Builtins THEN {} ELSE LoadNamespaceCurrent(Builtins)

(* Deviation: the number after the next. *)
CompileSourcesAhead(p) ==
    LET r == pub[p]
        fds == Compile(r.files, r.deps, r.tiers, GatherBuiltins(Home[r.s]))
    IN  /\ r.ph = "tiers"
        /\ r.chain = << >>
        /\ IF fds = None THEN Reply(p, "error")
           ELSE pub' = [pub EXCEPT ![p].fds = fds, ![p].v = Len(log[r.s]) + 2,
                                   ![p].ph = "check"]
        /\ UNCHANGED <<storeVars, memVars, history, server>>

(* The built-ins are read, the next number is chosen, and all is compiled. *)
CompileSources(p) ==
    LET r == pub[p]
        fds == Compile(r.files, r.deps, r.tiers, GatherBuiltins(Home[r.s]))
    IN  /\ r.ph = "tiers"
        /\ r.chain = << >>
        /\ IF fds = None THEN Reply(p, "error")
           ELSE pub' = [pub EXCEPT ![p].fds = fds, ![p].v = Len(log[r.s]) + 1,
                                   ![p].ph = "check"]
        /\ UNCHANGED <<storeVars, memVars, history, server>>

Elements(seq) == {seq[i] : i \in 1..Len(seq)}

(* The schemas of the ancestors, as the name check walks them in memory. *)
AncestorSchemas(n) == UNION {In(a) : a \in Elements(Ancestors(n))}

(* The version in memory was built from the row as it is stored. *)
Faithful(s) == memCurrent[s] # NoSnap => memCurrent[s].fds = log[s][memCurrent[s].v].fds

(* checkAncestorFQNConflicts: against the snapshots in memory, and the     *)
(* chain as it is by now.                                                  *)
CheckConflicts(p) ==
    LET r == pub[p]
        up == {s \in AncestorSchemas(Home[r.s]) : memCurrent[s] # NoSnap}
        seen == {<<s, memCurrent[s].v>> : s \in up}
        used == UNION {{<<d.s, d.v>> : d \in r.tiers[i]} : i \in 1..Len(r.tiers)}
    IN  /\ r.ph = "check"
        /\ IF \E s \in up : DetectFQNConflicts(r.fds, memCurrent[s].fds)
           THEN Reply(p, "error")
           ELSE pub' = [pub EXCEPT ![p].ph = "record",
                            ![p].calm = (seen = used /\ \A s \in up : Faithful(s))]
        /\ UNCHANGED <<storeVars, memVars, history, server>>

(* isUnchanged compares the sources only. *)
IsUnchanged(s, files) ==
    LET v == IF staged[s] # 0 THEN staged[s] ELSE current[s]
    IN  v # 0 /\ log[s][v].files = files

(* Deviation: the ancestors' versions are not recorded. *)
PinsSiblings(r) == r.deps

(* The deps Compile reports: every file that was on offer, imported or     *)
(* not, the built-ins excepted.                                            *)
Pins(r) == r.deps \cup UNION Elements(r.tiers)

(* The version is stored, under a number that may be taken by now, and     *)
(* staged; a publish of the sources that are there already ends before.    *)
Record(p) ==
    LET r == pub[p]
        row == [files |-> r.files, deps |-> Pins(r), fds |-> r.fds, cv |-> binary]
    IN  /\ r.ph = "record"
        /\ IF r.op = "publish" /\ IsUnchanged(r.s, r.files)
           THEN Reply(p, "ok") /\ UNCHANGED <<storeVars, memVars, history>>
           ELSE IF Len(log[r.s]) >= r.v
           THEN Reply(p, "error") /\ UNCHANGED <<storeVars, memVars, history>>
           ELSE /\ log' = [log EXCEPT ![r.s] = Append(@, row)]
                /\ staged' = [staged EXCEPT ![r.s] = r.v]
                /\ memStaged' = [memStaged EXCEPT ![r.s] = [v |-> r.v, fds |-> r.fds]]
                /\ calm' = IF r.calm THEN calm \cup {<<r.s, r.v>>} ELSE calm
                /\ Reply(p, "ok")
                /\ UNCHANGED <<current, memCurrent, promoted>>
        /\ UNCHANGED server

-----------------------------------------------------------------------------
(* The other operations on a namespace, and the server's life. *)

(* Promote, when it passes the compatibility check.  What was staged       *)
(* before a restart is staged in the store only.                           *)
Promote(n) ==
    LET S == {s \in In(n) : staged[s] # 0}
        M == {s \in In(n) : memStaged[s] # NoSnap}
    IN  /\ S # {}
        /\ current' = [s \in Schemas |-> IF s \in S THEN staged[s] ELSE current[s]]
        /\ staged' = [s \in Schemas |-> IF s \in S THEN 0 ELSE staged[s]]
        /\ memCurrent' = [s \in Schemas |-> IF s \in M THEN memStaged[s] ELSE memCurrent[s]]
        /\ memStaged' = [s \in Schemas |-> IF s \in M THEN NoSnap ELSE memStaged[s]]
        /\ promoted' = promoted \cup {<<s, staged[s]>> : s \in S}
        /\ UNCHANGED <<log, pub, calm, server>>

(* Rollback stages a version from its stored descriptors. *)
Rollback(s, v) ==
    /\ staged[s] # v
    /\ staged' = [staged EXCEPT ![s] = v]
    /\ memStaged' = [memStaged EXCEPT ![s] = [v |-> v, fds |-> log[s][v].fds]]
    /\ UNCHANGED <<log, current, memCurrent, pub, history, server>>

DiscardStaging(n) ==
    /\ \E s \in In(n) : staged[s] # 0
    /\ staged' = [s \in Schemas |-> IF s \in In(n) THEN 0 ELSE staged[s]]
    /\ memStaged' = [s \in Schemas |-> IF s \in In(n) THEN NoSnap ELSE memStaged[s]]
    /\ UNCHANGED <<log, current, memCurrent, pub, history, server>>

(* SetNamespaceParent, one at a time: no cycle. *)
SetNamespaceParent(n, to) ==
    /\ parent[n] # to
    /\ to # None => n \notin {to} \cup Elements(Ancestors(to))
    /\ parent' = [parent EXCEPT ![n] = to]
    /\ UNCHANGED <<storeVars, memVars, pub, history, binary>>

(* Deviation: compiled again whatever the compiler. *)
BuildSnapshotAlways(s, b) ==
    LET n == Home[s]
        up == Ancestors(n)
    IN  Compile(log[s][current[s]].files, {d \in LoadNamespaceProposed(n) : d.s # s},
                [i \in 1..Len(up) |-> LoadNamespaceCurrent(up[i])], GatherBuiltins(n))

(* buildSnapshot for the current version of s by a server built with       *)
(* compiler b: the stored descriptors, or the sources compiled again       *)
(* against what the others have proposed or current now.                   *)
BuildSnapshot(s, b) ==
    LET n == Home[s]
        row == log[s][current[s]]
        up == Ancestors(n)
    IN  IF row.cv = b THEN row.fds
        ELSE Compile(row.files, {d \in LoadNamespaceProposed(n) : d.s # s},
                     [i \in 1..Len(up) |-> LoadNamespaceCurrent(up[i])], GatherBuiltins(n))

(* Deviation: a caller that waits is not told. *)
RestartForgets(b) ==
    LET live == {s \in Schemas : current[s] # 0}
    IN  /\ \A s \in live : BuildSnapshot(s, b) # None
        /\ memCurrent' = [s \in Schemas |->
               IF s \in live THEN [v |-> current[s], fds |-> BuildSnapshot(s, b)] ELSE NoSnap]
        /\ memStaged' = [s \in Schemas |-> NoSnap]
        /\ pub' = [p \in Procs |-> NoRequest]
        /\ binary' = b
        /\ UNCHANGED <<storeVars, history, parent>>

(* The process stops and Restore reads the current versions back; one that *)
(* does not compile any more keeps this server from starting.  Requests    *)
(* under way fail.                                                         *)
Restart(b) ==
    LET live == {s \in Schemas : current[s] # 0}
    IN  /\ \A s \in live : BuildSnapshot(s, b) # None
        /\ memCurrent' = [s \in Schemas |->
               IF s \in live THEN [v |-> current[s], fds |-> BuildSnapshot(s, b)] ELSE NoSnap]
        /\ memStaged' = [s \in Schemas |-> NoSnap]
        /\ pub' = [p \in Procs |->
               IF Idle(p) THEN pub[p]
               ELSE [NoRequest EXCEPT !.out = IF p \in Kept THEN "error" ELSE "none"]]
        /\ binary' = b
        /\ UNCHANGED <<storeVars, history, parent>>

(* A request arrives at p, if the bounds admit it. *)
Arrive(p) ==
    LET room(s) == Len(log[s]) + Cardinality({q \in Procs : pub[q].s = s}) < MaxVersion
    IN  \/ \E u \in Uploads : room(u.s) /\ Publish(p, u)
        \/ \E s \in Schemas : room(s) /\ Rebase(p, s)

Step(p) == GatherTier(p) \/ CompileSources(p) \/ CheckConflicts(p) \/ Record(p)

Operate ==
    \/ \E n \in Namespaces : Promote(n) \/ DiscardStaging(n)
    \/ \E s \in Schemas : \E v \in DOMAIN log[s] : Rollback(s, v)
    \/ \E m \in Moves : SetNamespaceParent(m.n, m.to)
    \/ \E b \in 0..1 : Restart(b)

Counted(A) == A /\ ops < MaxOps /\ ops' = ops + 1

Others(P) ==
    \/ Counted(Operate \/ \E p \in P : Arrive(p))
    \/ \E p \in P : Step(p) /\ UNCHANGED ops

Next == Others(Procs)

Spec == Init /\ [][Next]_vars

-----------------------------------------------------------------------------
(* The readers. *)

(* AllCurrent: the snapshots of a namespace, in memory. *)
AllCurrent(n) == {memCurrent[s].fds : s \in {t \in In(n) : memCurrent[t] # NoSnap}}

(* What the snapshots of n have under a name. *)
Hits(n, x) == UNION {{fds[f] : f \in {g \in DOMAIN fds : x \in Defines[fds[g]]}} :
                     fds \in AllCurrent(n)}

(* Deviation: the farthest namespace that has the name answers, and those  *)
(* before it too.                                                          *)
FindMessageByNameAnywhere(n, x) ==
    UNION {Hits(m, x) : m \in {n} \cup Elements(Ancestors(n))}

(* FindMessageByNameWithOrigin, and its likes: the first namespace of the  *)
(* chain that has the name, whichever of its snapshots comes first in the  *)
(* iteration of a Go map.                                                  *)
FindMessageByName(n, x) ==
    LET chain == <<n>> \o Ancestors(n)
        hit == {i \in 1..Len(chain) : Hits(chain[i], x) # {}}
    IN  IF hit = {} THEN {}
        ELSE Hits(chain[CHOOSE i \in hit : \A j \in hit : i <= j], x)

(* GetDescriptor without a version: the number from memory, the rest from  *)
(* the store.                                                              *)
GetDescriptor(s) == log[s][memCurrent[s].v].fds

(* buildNameIndex of a client: the names of every file of the set. *)
IndexedNames(fds) == UNION {Defines[fds[f]] : f \in DOMAIN fds}

-----------------------------------------------------------------------------
(* Properties. *)

Live(n) == {s \in In(n) : memCurrent[s] # NoSnap}

Rows == UNION {{<<s, v>> : v \in DOMAIN log[s]} : s \in Schemas}

Row(r) == log[r[1]][r[2]]

(* The variables have their types. *)
TypeOK ==
    /\ \A s \in Schemas : {current[s], staged[s]} \subseteq 0..Len(log[s])
    /\ \A s \in Schemas : {memCurrent[s].v, memStaged[s].v} \subseteq 0..Len(log[s])
    /\ \A r \in Rows : /\ Row(r).fds \in [DOMAIN Row(r).fds -> Texts]
                       /\ Row(r).cv \in 0..1
    /\ parent \in [Namespaces -> Namespaces \cup {None}]
    /\ \A p \in Procs : pub[p].ph \in {"idle", "tiers", "check", "record"}
    /\ promoted \cup calm \subseteq Rows
    /\ binary \in 0..1
    /\ ops \in 0..MaxOps

(* A stored descriptor set carries nothing that its version does not       *)
(* account for, whatever was promoted, rolled back or re-parented while    *)
(* the publish was under way: a file has the text of the last pinned       *)
(* sibling that offers the path, otherwise that of the schema's own        *)
(* source, otherwise that of a pinned ancestor.  Only the built-ins are    *)
(* not pinned.                                                             *)
CompiledFromPins ==
    \A r \in Rows :
        LET row == Row(r)
            offers(f) == {d \in row.deps : d.f = f}
            siblings(f) == {d \in offers(f) : Home[d.s] = Home[r[1]]}
        IN  \A f \in DOMAIN row.fds :
                IF siblings(f) # {}
                THEN \E d \in siblings(f) : /\ GetBlob(d) = row.fds[f]
                                            /\ \A e \in siblings(f) : e.s <= d.s
                ELSE IF f \in DOMAIN row.files THEN row.fds[f] = row.files[f]
                ELSE IF offers(f) # {}
                THEN \E d \in offers(f) : GetBlob(d) = row.fds[f]
                ELSE \E b \in promoted :
                        /\ Home[b[1]] = Builtins
                        /\ f \in DOMAIN Row(b).files
                        /\ Row(b).files[f] = row.fds[f]

(* A child never compiles against an ancestor's work in progress: what it  *)
(* pins of another namespace has been current there.                       *)
AncestorPinsPromoted ==
    \A r \in Rows : \A d \in Row(r).deps :
        Home[d.s] # Home[r[1]] => <<d.s, d.v>> \in promoted

(* Stored descriptors stand alone: every import is in the set, and no name *)
(* twice, so that Restore can always build a snapshot from them.           *)
SelfContained == \A r \in Rows : StandsAlone(Row(r).fds)

(* A version that was checked against the ancestors it was compiled with   *)
(* declares no name of theirs, except in a file of the same path.          *)
ShadowsOnlySamePath ==
    \A r \in calm :
        LET row == Row(r)
        IN  \A f \in DOMAIN row.files : \A d \in row.deps :
                /\ Home[d.s] # Home[r[1]]
                /\ f # d.f
                => Defines[row.fds[f]] \cap Defines[log[d.s][d.v].fds[d.f]] = {}

(* The two read paths agree: as long as the compiler is the one that wrote *)
(* the row, the snapshot the server resolves names in is the descriptor    *)
(* set it hands out, of a version that has been promoted, across restarts. *)
ReadsAgree ==
    \A n \in Namespaces : \A s \in Live(n) :
        /\ <<s, memCurrent[s].v>> \in promoted
        /\ log[s][memCurrent[s].v].cv = binary => memCurrent[s].fds = GetDescriptor(s)

(* The files of the versions of n current in memory. *)
LiveRows(n) == FileRows(n, [t \in Schemas |-> memCurrent[t].v])

TiersNow(n) == [i \in 1..Len(Ancestors(n)) |-> LiveRows(Ancestors(n)[i])]

BuiltinsNow(n) == IF n = Builtins THEN {} ELSE LiveRows(Builtins)

(* What a compilation of s against the versions current in memory gives. *)
CompiledNow(s) ==
    LET n == Home[s]
    IN  Compile(log[s][memCurrent[s].v].files, {d \in LiveRows(n) : d.s # s},
                TiersNow(n), BuiltinsNow(n))

(* All that the schemas of n can import as it is in memory. *)
VisibleNow(n) == Resolve(ResolverChain(NoFiles, LiveRows(n), TiersNow(n), BuiltinsNow(n)))

Declares(s) == IndexedNames(log[s][memCurrent[s].v].files)

(* Two schemas of n have files of the same path. *)
PathShared(n) ==
    \E s, t \in Live(n) : s # t /\
        DOMAIN log[s][memCurrent[s].v].files \cap DOMAIN log[t][memCurrent[t].v].files # {}

(* Two files that the schemas of n can import declare x. *)
DeclaredTwice(n, x) ==
    LET text == VisibleNow(n)
    IN  \E f, g \in DOMAIN text : f # g /\ x \in Defines[text[f]] \cap Defines[text[g]]

(* Whatever the order of the map, a name has one answer, unless a schema   *)
(* on the way is not what a compilation would give now, siblings use the   *)
(* same path, or the name is declared in two files of the namespace, its   *)
(* ancestors and the built-ins: publishInternal refuses a child that takes *)
(* a name of its ancestors, and nobody an ancestor that takes a child's.   *)
AnswersAgree ==
    \A n \in Namespaces, x \in Names :
        Cardinality(FindMessageByName(n, x)) > 1 =>
            \E m \in {n} \cup Elements(Ancestors(n)) :
                \/ PathShared(m) \/ DeclaredTwice(m, x)
                \/ \E s \in Live(m) : memCurrent[s].fds # CompiledNow(s)

(* A client finds a name in two schemas of a namespace only if both        *)
(* declare it.                                                             *)
CollisionsReal ==
    \A n \in Namespaces : \A s, t \in Live(n) :
        s # t /\ Declares(s) \cap Declares(t) = {}
        => IndexedNames(GetDescriptor(s)) \cap IndexedNames(GetDescriptor(t)) = {}
=============================================================================
