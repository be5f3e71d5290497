------------------------------- MODULE Client -------------------------------
(***************************************************************************)
(* The Go client's Resolver for one namespace (client/): the eager first   *)
(* fetch, Refresh by the background loop and by the application, the       *)
(* namespace-wide aggregate that Refresh changes in place, the snapshot it *)
(* swaps afterwards, the disk cache, and Dial with its fall-back to it.    *)
(*                                                                         *)
(* A snapshot maps a schema to the version it was built from, 0 if it has  *)
(* none; Files[s][v] are the files of that version's descriptor set.  Two  *)
(* schemas export the same name exactly when they share a file.            *)
(***************************************************************************)
EXTENDS Naturals, Sequences, FiniteSets

CONSTANTS NumSchemas,   \* schemas, in the order of their IDs
          MaxVersion,   \* bound: versions of a schema
          Files,        \* Files[s][v]: the files of version v of schema s
          Chain,        \* GetNamespaceChain: the ancestors, nearest first
          Populated,    \* the ancestors that have a schema to cache
          Inherited,    \* the files of Paths that the ancestors have as well
          PageSize,     \* schemas per page of ListSchemas
          None,         \* no entry, no manifest
          MaxChanges,   \* bound: promotions on the server
          MaxFaults,    \* bound: failed calls, failed writes and crashes
          DiskFaults    \* writes to the cache directory may fail

Schemas == 1..NumSchemas
Snapshots == [Schemas -> 0..MaxVersion]
Empty == [s \in Schemas |-> 0]
Paths == UNION {Files[s][v] : s \in Schemas, v \in 1..MaxVersion}
Callers == {"loop", "user"}

ASSUME ClientAssumption ==
    /\ NumSchemas \in Nat \ {0}
    /\ MaxVersion \in Nat \ {0}
    /\ PageSize \in Nat \ {0}
    /\ {MaxChanges, MaxFaults} \subseteq Nat
    /\ \A s \in Schemas, v \in 1..MaxVersion : Files[s][v] # {}
    /\ None \notin Schemas \X (1..MaxVersion)
    /\ Chain \in Seq({Chain[i] : i \in DOMAIN Chain})
    /\ Inherited \subseteq Paths

VARIABLES server,   \* the current version of each schema, as ListSchemas reads it
          changes,  \* promotions so far
          faults,   \* faults so far
          mode,     \* no Resolver, one that is live, one from the cache
          cur,      \* Resolver.snapshot
          agg,      \* nsFiles and nsTypes: which version each file is from
          parents,  \* the namespaces a lookup falls back to, in order
          ancestors, \* Resolver.ancestors, in the order they were loaded
          call,     \* what each caller is doing
          disk,     \* the <<schema, version>> files of the cache
          manifest, \* manifest.json
          saved     \* the ancestors whose own caches exist

serverVars == <<server, changes>>
resolver == <<mode, cur, agg, parents, ancestors>>
cache == <<disk, manifest, saved>>
vars == <<server, changes, faults, mode, cur, agg, parents, ancestors,
          call, disk, manifest, saved>>

Phases == {"idle", "list", "fetch", "index", "remove", "apply", "store",
           "snap", "wait", "files", "manifest", "ancestors", "cache"}

Calls == [op : {"none", "new", "refresh"}, ph : Phases, after : 0..NumSchemas,
          next : Snapshots, window : SUBSET Snapshots, todo : SUBSET Schemas]

(* The window is history: the states of the server while it was listed. *)
NoCall == [op |-> "none", ph |-> "idle", after |-> 0, next |-> Empty,
           window |-> {}, todo |-> {}]

Idle(c) == call[c].ph = "idle"

Return(c) == call' = [call EXCEPT ![c] = NoCall]

Goto(c, ph) == call' = [call EXCEPT ![c].ph = ph]

GotoWith(c, ph, S) ==
    call' = [call EXCEPT ![c].ph = ph, ![c].todo = S, ![c].window = {}]

(* The first schema in the order of IDs. *)
First(S) == CHOOSE s \in S : \A t \in S : s <= t

Reversed(seq) == [i \in 1..Len(seq) |-> seq[Len(seq) + 1 - i]]

(* No two schemas of a snapshot export the same name. *)
Disjoint(snap) ==
    \A s, t \in Schemas :
        s # t /\ snap[s] # 0 /\ snap[t] # 0 =>
            Files[s][snap[s]] \cap Files[t][snap[t]] = {}

(* What applyToAggregate makes of an empty aggregate, schema by schema. *)
AggregateOf(snap) ==
    [p \in Paths |->
        LET S == {s \in Schemas : snap[s] # 0 /\ p \in Files[s][snap[s]]}
        IN  IF S = {} THEN None
            ELSE LET s == CHOOSE s \in S : \A t \in S : t <= s
                 IN  <<s, snap[s]>>]

NoResolver ==
    /\ mode' = "down"
    /\ cur' = Empty
    /\ agg' = AggregateOf(Empty)
    /\ parents' = << >>
    /\ ancestors' = << >>

(* Some schemas have a first version, the others none yet. *)
Init ==
    /\ server \in [Schemas -> 0..1]
    /\ Disjoint(server)
    /\ changes = 0
    /\ faults = 0
    /\ mode = "down"
    /\ cur = Empty
    /\ agg = AggregateOf(Empty)
    /\ parents = << >>
    /\ ancestors = << >>
    /\ call = [c \in Callers |-> NoCall]
    /\ disk = {}
    /\ manifest = None
    /\ saved = {}

(* The server promotes, rolls back or removes schemas, all at once. *)
Change(new) ==
    /\ changes < MaxChanges
    /\ new # server
    /\ server' = new
    /\ changes' = changes + 1
    /\ call' = [c \in Callers |->
                  IF call[c].ph = "list" /\ call[c].window # {}
                  THEN [call[c] EXCEPT !.window = @ \cup {new}] ELSE call[c]]
    /\ UNCHANGED <<faults, resolver, cache>>

-----------------------------------------------------------------------------
(* Refresh, and populate, which is the same without a snapshot to start    *)
(* from.                                                                   *)

(* Dial tries the server first. *)
Dial ==
    /\ mode = "down"
    /\ Idle("user")
    /\ call' = [call EXCEPT !["user"] = [NoCall EXCEPT !.op = "new", !.ph = "list"]]
    /\ UNCHANGED <<serverVars, faults, resolver, cache>>

(* refreshMu admits one Refresh at a time; a stale Resolver refuses. *)
Refresh(c) ==
    /\ mode = "live"
    /\ Idle(c)
    /\ \A d \in Callers : call[d].op # "refresh"
    /\ call' = [call EXCEPT ![c] = [NoCall EXCEPT !.op = "refresh", !.ph = "list"]]
    /\ UNCHANGED <<serverVars, faults, resolver, cache>>

(* The rows after a schema ID, in the order of IDs, at most limit of them. *)
ListSchemasPage(after, limit) ==
    LET rest == {s \in Schemas : server[s] # 0 /\ s > after}
    IN  {s \in rest : Cardinality({t \in rest : t < s}) < limit}

(* Deviation: no row more than the page is asked for. *)
ListSchemasExact(after) ==
    LET rows == ListSchemasPage(after, PageSize)
        page == {s \in rows : Cardinality({t \in rows : t < s}) < PageSize}
    IN  [page |-> page,
         token |-> IF page = rows THEN 0 ELSE CHOOSE s \in page : \A t \in page : t <= s]

(* The server's ListSchemas: one row more than the page tells whether there *)
(* is another; the token is the last ID of the page, 0 for none.           *)
ListSchemas(after) ==
    LET rows == ListSchemasPage(after, PageSize + 1)
        page == {s \in rows : Cardinality({t \in rows : t < s}) < PageSize}
    IN  [page |-> page,
         token |-> IF page = rows THEN 0 ELSE CHOOSE s \in page : \A t \in page : t <= s]

(* One page of listAllSchemas; each page reads the server afresh. *)
ListPage(c) ==
    LET reply == ListSchemas(call[c].after)
    IN  /\ call[c].ph = "list"
        /\ call' = [call EXCEPT
              ![c].next = [s \in Schemas |-> IF s \in reply.page THEN server[s] ELSE @[s]],
              ![c].window = @ \cup {server},
              ![c].after = reply.token,
              ![c].ph = IF reply.token = 0 THEN "fetch" ELSE "list"]
        /\ UNCHANGED <<serverVars, faults, resolver, cache>>

(* The versions listed that the snapshot does not have are fetched, each   *)
(* by its number, whatever is current by then.                             *)
Fetch(c) ==
    /\ call[c].ph = "fetch"
    /\ Goto(c, "index")
    /\ UNCHANGED <<serverVars, faults, resolver, cache>>

(* A failed populate makes Dial turn to the cache; a failed Refresh leaves *)
(* the Resolver as it was.                                                 *)
GiveUp(c) == IF call[c].op = "new" THEN GotoWith(c, "cache", {}) ELSE Return(c)

Fail(c) ==
    /\ call[c].ph \in {"list", "fetch"}
    /\ faults < MaxFaults
    /\ faults' = faults + 1
    /\ GiveUp(c)
    /\ UNCHANGED <<serverVars, resolver, cache>>

(* Deviation: a Refresh that finds no new schema has nothing to do. *)
BuildNameIndexAdded(c) ==
    LET next == call[c].next
    IN  /\ call[c].ph = "index"
        /\ IF /\ call[c].op = "refresh"
              /\ \A s \in Schemas : next[s] # 0 => cur[s] # 0
           THEN Return(c)
           ELSE IF ~Disjoint(next) THEN GiveUp(c)
           ELSE GotoWith(c, "remove", {s \in Schemas : cur[s] \notin {0, next[s]}})
        /\ UNCHANGED <<serverVars, faults, resolver, cache>>

(* The diff and buildNameIndex: nothing changed ends a Refresh, and so     *)
(* does a name that two schemas export.                                    *)
BuildNameIndex(c) ==
    LET next == call[c].next
    IN  /\ call[c].ph = "index"
        /\ IF call[c].op = "refresh" /\ next = cur THEN Return(c)
           ELSE IF ~Disjoint(next) THEN GiveUp(c)
           ELSE GotoWith(c, "remove", {s \in Schemas : cur[s] \notin {0, next[s]}})
        /\ UNCHANGED <<serverVars, faults, resolver, cache>>

(* removeFromAggregate for one schema that is removed or replaced.  A file *)
(* that is not there is an error, met after some of the others are gone.   *)
RemoveFromAggregate(c, s) ==
    LET old == Files[s][cur[s]]
        there == {p \in old : agg[p] # None}
    IN  /\ call[c].ph = "remove"
        /\ s \in call[c].todo
        /\ IF there = old
           THEN /\ agg' = [p \in Paths |-> IF p \in old THEN None ELSE agg[p]]
                /\ GotoWith(c, "remove", call[c].todo \ {s})
           ELSE /\ \E gone \in SUBSET there :
                      agg' = [p \in Paths |-> IF p \in gone THEN None ELSE agg[p]]
                /\ Return(c)
        /\ UNCHANGED <<serverVars, faults, mode, cur, parents, ancestors, cache>>

(* Deviation: new schemas only, not those with a new version. *)
StartApplyingAdded(c) ==
    LET next == call[c].next
    IN  /\ call[c].ph = "remove"
        /\ call[c].todo = {}
        /\ GotoWith(c, "apply", {s \in Schemas : next[s] # 0 /\ cur[s] = 0})
        /\ UNCHANGED <<serverVars, faults, resolver, cache>>

StartApplying(c) ==
    LET next == call[c].next
    IN  /\ call[c].ph = "remove"
        /\ call[c].todo = {}
        /\ GotoWith(c, "apply", {s \in Schemas : next[s] \notin {0, cur[s]}})
        /\ UNCHANGED <<serverVars, faults, resolver, cache>>

(* applyToAggregate, in the order of schema IDs: the last one wins. *)
ApplyToAggregate(c) ==
    LET s == First(call[c].todo)
        v == call[c].next[s]
    IN  /\ call[c].ph = "apply"
        /\ call[c].todo # {}
        /\ agg' = [p \in Paths |-> IF p \in Files[s][v] THEN <<s, v>> ELSE agg[p]]
        /\ GotoWith(c, "apply", call[c].todo \ {s})
        /\ UNCHANGED <<serverVars, faults, mode, cur, parents, ancestors, cache>>

(* The snapshot is swapped.  A new Resolver is live from here on: each      *)
(* ancestor is the parent of the one loaded after it, the farthest was     *)
(* first, and the loop starts.                                             *)
StoreSnapshot(c) ==
    /\ call[c].ph = "apply"
    /\ call[c].todo = {}
    /\ cur' = call[c].next
    /\ mode' = "live"
    /\ parents' = Chain
    /\ Goto(c, "snap")
    /\ UNCHANGED <<serverVars, faults, agg, ancestors, cache>>

-----------------------------------------------------------------------------
(* persist. *)

(* New records the ancestors only now, and saves without refreshMu.  The   *)
(* snapshot is read before cacheMu is taken; an empty one is not saved.    *)
LoadSnapshot(c) ==
    /\ call[c].ph = "snap"
    /\ ancestors' = IF call[c].op = "new" THEN Reversed(Chain) ELSE ancestors
    /\ IF cur = Empty THEN Return(c)
       ELSE call' = [call EXCEPT ![c].next = cur, ![c].ph = "wait"]
    /\ UNCHANGED <<serverVars, faults, mode, cur, agg, parents, cache>>

Saving == {"files", "manifest", "ancestors"}

(* Deviation: the manifest is written before the files. *)
LockCacheManifestFirst(c) ==
    /\ call[c].ph = "wait"
    /\ \A d \in Callers : call[d].ph \notin Saving
    /\ manifest' = [versions |-> call[c].next, chain |-> ancestors]
    /\ GotoWith(c, "files", {s \in Schemas : call[c].next[s] # 0})
    /\ UNCHANGED <<serverVars, faults, resolver, disk, saved>>

(* Deviation: schemas without a current version are saved too. *)
LockCacheAll(c) ==
    /\ call[c].ph = "wait"
    /\ \A d \in Callers : call[d].ph \notin Saving
    /\ GotoWith(c, "files", Schemas)
    /\ UNCHANGED <<serverVars, faults, resolver, cache>>

(* cacheMu admits one writer. *)
LockCache(c) ==
    /\ call[c].ph = "wait"
    /\ \A d \in Callers : call[d].ph \notin Saving
    /\ GotoWith(c, "files", {s \in Schemas : call[c].next[s] # 0})
    /\ UNCHANGED <<serverVars, faults, resolver, cache>>

(* atomicWrite of one schema's file, named after its version ... *)
WriteFile(c) ==
    LET s == First(call[c].todo)
        rest == call[c].todo \ {s}
    IN  /\ call[c].ph = "files"
        /\ disk' = disk \cup {<<s, call[c].next[s]>>}
        /\ GotoWith(c, IF rest = {} THEN "manifest" ELSE "files", rest)
        /\ UNCHANGED <<serverVars, faults, resolver, manifest, saved>>

(* ... then the manifest, with the chain in the order of ancestors ... *)
WriteManifest(c) ==
    /\ call[c].ph = "manifest"
    /\ manifest' = [versions |-> call[c].next, chain |-> ancestors]
    /\ Goto(c, "ancestors")
    /\ UNCHANGED <<serverVars, faults, resolver, disk, saved>>

(* ... and last the caches of the ancestors that have anything to save. *)
SaveAncestors(c) ==
    /\ call[c].ph = "ancestors"
    /\ saved' = saved \cup {a \in Populated : \E i \in 1..Len(ancestors) : ancestors[i] = a}
    /\ Return(c)
    /\ UNCHANGED <<serverVars, faults, resolver, disk, manifest>>

(* A write fails; that is logged, and Refresh still succeeds. *)
FailWrite(c) ==
    /\ DiskFaults
    /\ call[c].ph \in Saving
    /\ faults < MaxFaults
    /\ faults' = faults + 1
    /\ Return(c)
    /\ UNCHANGED <<serverVars, resolver, cache>>

(* loadFromCache: ancestors from the end of the manifest's chain, so that  *)
(* its first ancestor is the nearest, then the namespace itself.           *)
LoadFromCache ==
    /\ call["user"].ph = "cache"
    /\ IF \/ manifest = None
          \/ \E s \in Schemas : /\ manifest.versions[s] # 0
                                /\ <<s, manifest.versions[s]>> \notin disk
          \/ \E i \in 1..Len(manifest.chain) : manifest.chain[i] \notin saved
          \/ ~Disjoint(manifest.versions)
       THEN UNCHANGED resolver
       ELSE /\ mode' = "stale"
            /\ cur' = manifest.versions
            /\ agg' = AggregateOf(manifest.versions)
            /\ parents' = manifest.chain
            /\ ancestors' = Reversed(manifest.chain)
    /\ Return("user")
    /\ UNCHANGED <<serverVars, faults, cache>>

-----------------------------------------------------------------------------

(* The application closes its Resolver: a call of the loop is cancelled,   *)
(* and waited for where it makes no remote call.                           *)
Close ==
    /\ mode # "down"
    /\ Idle("user")
    /\ call["loop"].ph \in {"idle", "list", "fetch"}
    /\ NoResolver
    /\ Return("loop")
    /\ UNCHANGED <<serverVars, faults, cache>>

(* The process dies; what has been renamed into place stays. *)
Crash ==
    /\ faults < MaxFaults
    /\ faults' = faults + 1
    /\ NoResolver
    /\ call' = [c \in Callers |-> NoCall]
    /\ UNCHANGED <<serverVars, cache>>

Step(c) ==
    \/ ListPage(c)
    \/ Fetch(c)
    \/ BuildNameIndex(c)
    \/ \E s \in Schemas : RemoveFromAggregate(c, s)
    \/ StartApplying(c)
    \/ ApplyToAggregate(c)
    \/ StoreSnapshot(c)
    \/ LoadSnapshot(c)
    \/ LockCache(c)
    \/ WriteFile(c)
    \/ WriteManifest(c)
    \/ SaveAncestors(c)

Next ==
    \/ \E new \in Snapshots : Change(new)
    \/ Dial
    \/ LoadFromCache
    \/ \E c \in Callers : Refresh(c) \/ Step(c) \/ Fail(c) \/ FailWrite(c)
    \/ Close
    \/ Crash

Spec == Init /\ [][Next]_vars

(* A call under way goes on, and the loop's ticker keeps calling Refresh. *)
FairSpec ==
    /\ Spec
    /\ \A c \in Callers : WF_vars(Step(c))
    /\ WF_vars(Refresh("loop"))

-----------------------------------------------------------------------------
(* The lookups of the application.  A file stands for the types in it.     *)

(* The parent registries of the aggregate answer for what it lacks; no     *)
(* schema of the namespace has number 0.                                   *)
Fallback(p) ==
    IF parents # << >> /\ p \in Inherited THEN <<0, 0>> ELSE None

(* FindFileByPath and FindExtensionByNumber: the aggregate, then the       *)
(* parents.                                                                *)
FindFileByPath(p) == IF agg[p] # None THEN agg[p] ELSE Fallback(p)

(* Deviation: the aggregate only. *)
FindMessageByNameAggregate(p) == FindFileByPath(p)

(* FindMessageByName, FindExtensionByName and FindDescriptorByName: the    *)
(* schema that the snapshot's name index gives, otherwise the aggregate.   *)
FindMessageByName(p) ==
    LET local == AggregateOf(cur)[p]
    IN  IF local # None THEN local ELSE FindFileByPath(p)

(* RangeMessages and the lookups with origin walk the aggregate itself. *)
RangeMessages == {p \in Paths : agg[p] # None}

-----------------------------------------------------------------------------
(* Properties. *)

(* The variables have their types. *)
TypeOK ==
    /\ server \in Snapshots
    /\ changes \in 0..MaxChanges
    /\ faults \in 0..MaxFaults
    /\ mode \in {"down", "live", "stale"}
    /\ cur \in Snapshots
    /\ agg \in [Paths -> (Schemas \X (1..MaxVersion)) \cup {None}]
    /\ {parents, ancestors} \subseteq {Chain, Reversed(Chain), << >>}
    /\ call \in [Callers -> Calls]
    /\ disk \subseteq Schemas \X (1..MaxVersion)
    /\ manifest # None => manifest.versions \in Snapshots
    /\ saved \subseteq Populated

(* Between refreshes the aggregate holds exactly the files of the snapshot, *)
(* however many diffs have been applied to it in place: a file that moved  *)
(* from one schema to another is neither lost nor left behind, and         *)
(* removeFromAggregate never meets a file that is gone.                    *)
AggregateMatchesSnapshot ==
    (\A c \in Callers : call[c].ph \notin {"remove", "apply"}) =>
        agg = AggregateOf(cur)

(* While Refresh takes the aggregate apart and puts it together again, a   *)
(* lookup by name gives what the snapshot served before or the one served  *)
(* after would give: a type that both have is never missing, and never     *)
(* answered by an ancestor in the meantime.  The lookups that read the     *)
(* aggregate still see every schema that the Refresh does not replace.     *)
LookupsOldOrNew ==
    \A c \in Callers : call[c].ph \in {"remove", "apply"} =>
        /\ \A p \in Paths :
              FindMessageByName(p) \in
                  {IF snap[p] # None THEN snap[p] ELSE Fallback(p) :
                      snap \in {AggregateOf(cur), AggregateOf(call[c].next)}}
        /\ \A s \in Schemas : cur[s] # 0 /\ cur[s] = call[c].next[s] =>
              Files[s][cur[s]] \subseteq RangeMessages

(* Pages are read one after the other and descriptors later still, while   *)
(* the server promotes and removes schemas: each version that is about to  *)
(* be installed was current while the schemas were listed, and a schema    *)
(* that was there throughout is not missed.  A listing of one page, or one *)
(* during which nothing changed, is thus one state of the server.          *)
SnapshotConsistent ==
    \A c \in Callers : call[c].ph \in {"fetch", "index"} =>
        \A s \in Schemas : \E w \in call[c].window : call[c].next[s] = w[s]

(* Whenever the process dies, and whatever is being saved, the manifest    *)
(* lists only what is on disk, and schemas that can be loaded together.    *)
CacheLoadable ==
    manifest # None =>
        /\ Disjoint(manifest.versions)
        /\ \A s \in Schemas : manifest.versions[s] # 0 =>
              <<s, manifest.versions[s]>> \in disk

(* A Resolver from the cache falls back to the same namespaces, in the     *)
(* same order, as a live one.                                              *)
CachedChainMatchesLive == mode # "down" => parents = Chain

(* Once the server settles on schemas without collisions, a live Resolver  *)
(* ends up with its state, whatever failed before.                         *)
Converges == <>[](mode = "live" /\ Disjoint(server) => cur = server)

(* Once nothing changes any more, the cache holds what a live Resolver     *)
(* serves.                                                                 *)
CacheConverges ==
    <>[](mode = "live" /\ cur # Empty =>
            manifest # None /\ manifest.versions = cur)
=============================================================================
