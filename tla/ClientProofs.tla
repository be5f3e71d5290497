---------------------------- MODULE ClientProofs ----------------------------
(***************************************************************************)
(* The safety of the Go client's Resolver, for any number of schemas,      *)
(* versions and pages, any files, any changes of the server and any        *)
(* faults: the in-place updates of the aggregate, the listing of schemas   *)
(* page by page, and the disk cache.                                       *)
(***************************************************************************)
EXTENDS Client, FiniteSetTheorems, WellFoundedInduction, TLAPS

Mutating == {"remove", "apply"}

(* What is in the aggregate half-way through a Refresh from old to new:    *)
(* while it removes, the old schemas without those removed; while it       *)
(* applies, the new ones without those still to apply.                     *)
Between(ph, todo, old, new) ==
    [s \in Schemas |->
        IF ph = "remove"
        THEN IF s \in todo \/ old[s] = new[s] THEN old[s] ELSE 0
        ELSE IF s \in todo THEN 0 ELSE new[s]]

(* The schemas a Refresh still has to remove or to apply are some that     *)
(* differ.                                                                 *)
Todo(ph, old, new) ==
    {s \in Schemas : old[s] # new[s] /\ (IF ph = "remove" THEN old[s] ELSE new[s]) # 0}

-----------------------------------------------------------------------------
(* Least and greatest schemas. *)

(* Schemas are numbers. *)
LEMMA SchemasNat == Schemas \subseteq Nat
  BY ClientAssumption DEF Schemas

(* A non-empty set of numbers has a least one. *)
LEMMA Minimum ==
    ASSUME NEW S, S \subseteq Nat, S # {}
    PROVE  \E x \in S : \A y \in S : x <= y
  <1>1. PICK x \in S : \A y \in S : <<y, x>> \notin OpToRel(<, Nat)
    BY NatLessThanWellFounded, WFMin, Zenon
  <1>2. ASSUME NEW y \in S PROVE x <= y
    <2>1. ~(y < x)
      <3>1. SUFFICES ASSUME y < x PROVE <<y, x>> \in OpToRel(<, Nat)
        BY <1>1, Zenon
      <3> QED  BY <3>1, Zenon DEF OpToRel
    <2> QED  BY <2>1
  <1> QED  BY <1>2, Zenon

(* First is one of the schemas it is given, and the least. *)
LEMMA FirstIn ==
    ASSUME NEW S, S \subseteq Schemas, S # {}
    PROVE  First(S) \in S /\ \A t \in S : First(S) <= t
  <1>1. S \subseteq Nat
    BY ClientAssumption DEF Schemas
  <1> QED  BY <1>1, Minimum, Zenon DEF First

(* A non-empty set of schemas has a greatest one. *)
LEMMA Maximum ==
    ASSUME NEW S, S \subseteq Schemas, S # {}
    PROVE  \E x \in S : \A y \in S : y <= x
  <1> DEFINE T == {NumSchemas - y : y \in S}
  <1>1. S \subseteq 1..NumSchemas /\ NumSchemas \in Nat
    BY ClientAssumption, Zenon DEF Schemas
  <1>a. T \subseteq Nat
    BY <1>1
  <1>b. T # {}
    BY Zenon
  <1>2. PICK m \in T : \A t \in T : m <= t
    BY <1>a, <1>b, Minimum, Zenon
  <1>3. PICK x \in S : m = NumSchemas - x
    BY <1>2, Zenon
  <1>4. ASSUME NEW y \in S PROVE y <= x
    <2>1. m <= NumSchemas - y
      BY <1>2, Zenon
    <2> HIDE DEF T
    <2> QED  BY <1>1, <1>3, <2>1
  <1> QED  BY <1>4, Zenon

-----------------------------------------------------------------------------
(* The aggregate of a snapshot without collisions. *)

(* A file of a schema is in the aggregate as that schema's. *)
LEMMA AggregateAt ==
    ASSUME NEW snap \in Snapshots, Disjoint(snap), NEW s \in Schemas, snap[s] # 0,
           NEW p \in Files[s][snap[s]]
    PROVE  p \in Paths /\ AggregateOf(snap)[p] = <<s, snap[s]>>
  <1>1. snap[s] \in 1..MaxVersion
    BY ClientAssumption DEF Snapshots
  <1>2. p \in Paths
    BY <1>1 DEF Paths
  <1> DEFINE S == {t \in Schemas : snap[t] # 0 /\ p \in Files[t][snap[t]]}
  <1>3. S = {s}
    BY Zenon DEF Disjoint
  <1>4. (CHOOSE t \in S : \A u \in S : u <= t) = s
    <2>1. s <= s
      BY ClientAssumption DEF Schemas
    <2> HIDE DEF S
    <2> QED  BY <1>3, <2>1, Zenon
  <1>5. AggregateOf(snap)[p] = IF S = {} THEN None
                               ELSE LET t == CHOOSE t \in S : \A u \in S : u <= t
                                    IN  <<t, snap[t]>>
    BY <1>2, Zenon DEF AggregateOf
  <1> HIDE DEF S
  <1> QED  BY <1>2, <1>3, <1>4, <1>5, Zenon

(* A file of no schema is not in the aggregate. *)
LEMMA AggregateNone ==
    ASSUME NEW snap, NEW p \in Paths,
           \A s \in Schemas : snap[s] # 0 => p \notin Files[s][snap[s]]
    PROVE  AggregateOf(snap)[p] = None
  <1> DEFINE S == {t \in Schemas : snap[t] # 0 /\ p \in Files[t][snap[t]]}
  <1>1. S = {}
    BY Zenon
  <1>2. AggregateOf(snap)[p] = IF S = {} THEN None
                               ELSE LET t == CHOOSE t \in S : \A u \in S : u <= t
                                    IN  <<t, snap[t]>>
    BY Zenon DEF AggregateOf
  <1> QED  BY <1>1, <1>2, Zenon

(* Each file is in the aggregate as that of a schema that has it, or not   *)
(* at all.                                                                 *)
LEMMA AggregateCases ==
    ASSUME NEW snap \in Snapshots, Disjoint(snap), NEW p \in Paths
    PROVE  \/ AggregateOf(snap)[p] = None
           \/ \E s \in Schemas : /\ snap[s] # 0
                                 /\ p \in Files[s][snap[s]]
                                 /\ AggregateOf(snap)[p] = <<s, snap[s]>>
  BY AggregateAt, AggregateNone, Zenon

(* The aggregate has its type. *)
LEMMA AggregateType ==
    ASSUME NEW snap \in Snapshots, Disjoint(snap)
    PROVE  AggregateOf(snap) \in [Paths -> (Schemas \X (1..MaxVersion)) \cup {None}]
  <1>1. \A s \in Schemas : snap[s] # 0 => snap[s] \in 1..MaxVersion
    BY ClientAssumption DEF Snapshots
  <1>2. ASSUME NEW p \in Paths
        PROVE  AggregateOf(snap)[p] \in (Schemas \X (1..MaxVersion)) \cup {None}
    <2>1. CASE AggregateOf(snap)[p] = None
      BY <2>1, Zenon
    <2>2. CASE \E s \in Schemas : snap[s] # 0 /\ AggregateOf(snap)[p] = <<s, snap[s]>>
      <3>1. PICK s \in Schemas : snap[s] # 0 /\ AggregateOf(snap)[p] = <<s, snap[s]>>
        BY <2>2, Zenon
      <3> QED  BY <1>1, <3>1
    <2> QED  BY <2>1, <2>2, AggregateCases, Zenon
  <1>3. AggregateOf(snap) = [p \in Paths |-> AggregateOf(snap)[p]]
    BY DEF AggregateOf
  <1> QED  BY <1>2, <1>3, Zenon

(* No schema has the version None. *)
LEMMA SomeEntry ==
    ASSUME NEW snap \in Snapshots, NEW s \in Schemas, snap[s] # 0
    PROVE  <<s, snap[s]>> # None
  BY ClientAssumption DEF Snapshots

(* A snapshot with some schemas less has no collisions either. *)
LEMMA FewerDisjoint ==
    ASSUME NEW snap \in Snapshots, Disjoint(snap), NEW less \in Snapshots,
           \A s \in Schemas : less[s] \in {0, snap[s]}
    PROVE  Disjoint(less)
  BY Zenon DEF Disjoint

(* Taking one schema out takes its files out, which are all there. *)
LEMMA RemoveOne ==
    ASSUME NEW snap \in Snapshots, Disjoint(snap), NEW less \in Snapshots,
           NEW s \in Schemas, snap[s] # 0, less[s] = 0,
           \A t \in Schemas \ {s} : less[t] = snap[t]
    PROVE  /\ \A p \in Files[s][snap[s]] : AggregateOf(snap)[p] # None
           /\ AggregateOf(less) =
                [p \in Paths |-> IF p \in Files[s][snap[s]] THEN None
                                 ELSE AggregateOf(snap)[p]]
  <1>1. \A p \in Files[s][snap[s]] : AggregateOf(snap)[p] # None
    BY AggregateAt, SomeEntry, Zenon
  <1>2. Disjoint(less)
    BY FewerDisjoint, Zenon
  <1>3. ASSUME NEW p \in Paths
        PROVE  AggregateOf(less)[p] =
                  IF p \in Files[s][snap[s]] THEN None ELSE AggregateOf(snap)[p]
    <2>1. CASE p \in Files[s][snap[s]]
      <3>1. \A t \in Schemas : less[t] # 0 => p \notin Files[t][less[t]]
        BY <2>1, Zenon DEF Disjoint
      <3> QED  BY <2>1, <3>1, AggregateNone, Zenon
    <2>2. CASE /\ p \notin Files[s][snap[s]]
               /\ \E t \in Schemas : snap[t] # 0 /\ p \in Files[t][snap[t]]
      <3>1. PICK t \in Schemas : snap[t] # 0 /\ p \in Files[t][snap[t]]
        BY <2>2, Zenon
      <3>2. less[t] = snap[t]
        BY <2>2, <3>1, Zenon
      <3>3. AggregateOf(snap)[p] = <<t, snap[t]>>
        BY <3>1, AggregateAt, Zenon
      <3>4. AggregateOf(less)[p] = <<t, less[t]>>
        BY <1>2, <3>1, <3>2, AggregateAt, Zenon
      <3> QED  BY <2>2, <3>2, <3>3, <3>4, Zenon
    <2>3. CASE /\ p \notin Files[s][snap[s]]
               /\ ~\E t \in Schemas : snap[t] # 0 /\ p \in Files[t][snap[t]]
      <3>1. \A t \in Schemas : less[t] # 0 => p \notin Files[t][less[t]]
        BY <2>3, Zenon
      <3>2. AggregateOf(less)[p] = None
        BY <3>1, AggregateNone, Zenon
      <3>3. AggregateOf(snap)[p] = None
        BY <2>3, AggregateNone, Zenon
      <3> QED  BY <2>3, <3>2, <3>3, Zenon
    <2> QED  BY <2>1, <2>2, <2>3, Zenon
  <1>4. AggregateOf(less) = [p \in Paths |-> AggregateOf(less)[p]]
    BY DEF AggregateOf
  <1> QED  BY <1>1, <1>3, <1>4, Zenon

(* Putting one schema in puts its files in. *)
LEMMA AddOne ==
    ASSUME NEW snap \in Snapshots, Disjoint(snap), NEW less \in Snapshots,
           NEW s \in Schemas, snap[s] # 0, less[s] = 0,
           \A t \in Schemas \ {s} : less[t] = snap[t]
    PROVE  AggregateOf(snap) =
                [p \in Paths |-> IF p \in Files[s][snap[s]] THEN <<s, snap[s]>>
                                 ELSE AggregateOf(less)[p]]
  <1>1. ASSUME NEW p \in Paths
        PROVE  AggregateOf(snap)[p] =
                  IF p \in Files[s][snap[s]] THEN <<s, snap[s]>> ELSE AggregateOf(less)[p]
    <2>1. CASE p \in Files[s][snap[s]]
      BY <2>1, AggregateAt, Zenon
    <2>2. CASE p \notin Files[s][snap[s]]
      <3>1. AggregateOf(less)[p] =
                  IF p \in Files[s][snap[s]] THEN None ELSE AggregateOf(snap)[p]
        <4>1. AggregateOf(less) =
                [q \in Paths |-> IF q \in Files[s][snap[s]] THEN None
                                 ELSE AggregateOf(snap)[q]]
          BY RemoveOne, Zenon
        <4> QED  BY <4>1, Zenon
      <3> QED  BY <2>2, <3>1, Zenon
    <2> QED  BY <2>1, <2>2, Zenon
  <1>2. AggregateOf(snap) = [p \in Paths |-> AggregateOf(snap)[p]]
    BY DEF AggregateOf
  <1> QED  BY <1>1, <1>2, Zenon

-----------------------------------------------------------------------------
(* Between two snapshots. *)

(* What the aggregate holds half-way is a snapshot without collisions, with *)
(* versions of the old one while removing, of the new one while applying.  *)
LEMMA BetweenSound ==
    ASSUME NEW ph \in Mutating, NEW todo,
           NEW old \in Snapshots, NEW new \in Snapshots, Disjoint(old), Disjoint(new)
    PROVE  /\ Between(ph, todo, old, new) \in Snapshots
           /\ Disjoint(Between(ph, todo, old, new))
           /\ \A s \in Schemas :
                 Between(ph, todo, old, new)[s] \in
                     {0, IF ph = "remove" THEN old[s] ELSE new[s]}
  <1> DEFINE B == Between(ph, todo, old, new)
             base == IF ph = "remove" THEN old ELSE new
  <1>1. base \in Snapshots /\ Disjoint(base) /\ 0 \in 0..MaxVersion
    BY ClientAssumption
  <1>2. \A s \in Schemas : B[s] \in {0, base[s]}
    BY Zenon DEF Between
  <1>3. B \in Snapshots
    <2>1. B = [s \in Schemas |-> B[s]]
      BY Zenon DEF Between
    <2>2. \A s \in Schemas : base[s] \in 0..MaxVersion
      BY <1>1, Zenon DEF Snapshots
    <2> HIDE DEF B, base
    <2> QED  BY <1>1, <1>2, <2>1, <2>2, Zenon DEF Snapshots
  <1>4. Disjoint(B)
    <2> HIDE DEF B, base
    <2> QED  BY <1>1, <1>2, <1>3, FewerDisjoint, Zenon
  <1> QED  BY <1>2, <1>3, <1>4, Zenon

(* A Refresh begins with the old snapshot, turns from removing to applying *)
(* without a change of the aggregate, and ends with the new one.           *)
LEMMA BetweenEnds ==
    ASSUME NEW old \in Snapshots, NEW new \in Snapshots
    PROVE  /\ Between("remove", Todo("remove", old, new), old, new) = old
           /\ Between("remove", {}, old, new) =
                 Between("apply", Todo("apply", old, new), old, new)
           /\ Between("apply", {}, old, new) = new
  BY Zenon DEF Between, Todo, Snapshots

(* Taking a schema that is to be removed out of the aggregate. *)
LEMMA RemoveBetween ==
    ASSUME NEW old \in Snapshots, NEW new \in Snapshots, Disjoint(old), Disjoint(new),
           NEW todo, todo \subseteq Todo("remove", old, new), NEW s \in todo
    PROVE  LET a == AggregateOf(Between("remove", todo, old, new))
           IN  /\ \A p \in Files[s][old[s]] : a[p] # None
               /\ AggregateOf(Between("remove", todo \ {s}, old, new)) =
                    [p \in Paths |-> IF p \in Files[s][old[s]] THEN None ELSE a[p]]
  <1> DEFINE B == Between("remove", todo, old, new)
             C == Between("remove", todo \ {s}, old, new)
  <1>1. B \in Snapshots /\ C \in Snapshots /\ Disjoint(B)
    BY BetweenSound, Zenon DEF Mutating
  <1>2. s \in Schemas /\ old[s] # new[s] /\ old[s] # 0
    BY Zenon DEF Todo
  <1>3. B[s] = old[s] /\ B[s] # 0 /\ C[s] = 0 /\ \A t \in Schemas \ {s} : C[t] = B[t]
    BY <1>2, Zenon DEF Between
  <1> HIDE DEF B, C
  <1>4. /\ \A p \in Files[s][B[s]] : AggregateOf(B)[p] # None
        /\ AggregateOf(C) = [p \in Paths |-> IF p \in Files[s][B[s]] THEN None
                                             ELSE AggregateOf(B)[p]]
    BY <1>1, <1>2, <1>3, RemoveOne
  <1> QED  BY <1>3, <1>4, Zenon DEF B, C

(* Putting a schema that is to be applied into the aggregate. *)
LEMMA ApplyBetween ==
    ASSUME NEW old \in Snapshots, NEW new \in Snapshots, Disjoint(old), Disjoint(new),
           NEW todo, todo \subseteq Todo("apply", old, new), NEW s \in todo
    PROVE  AggregateOf(Between("apply", todo \ {s}, old, new)) =
              [p \in Paths |-> IF p \in Files[s][new[s]] THEN <<s, new[s]>>
                               ELSE AggregateOf(Between("apply", todo, old, new))[p]]
  <1> DEFINE B == Between("apply", todo, old, new)
             C == Between("apply", todo \ {s}, old, new)
  <1>1. B \in Snapshots /\ C \in Snapshots /\ Disjoint(C)
    BY BetweenSound, Zenon DEF Mutating
  <1>2. s \in Schemas /\ new[s] # 0
    BY Zenon DEF Todo
  <1>3. C[s] = new[s] /\ C[s] # 0 /\ B[s] = 0 /\ \A t \in Schemas \ {s} : B[t] = C[t]
    BY <1>2, Zenon DEF Between
  <1> HIDE DEF B, C
  <1>4. AggregateOf(C) = [p \in Paths |-> IF p \in Files[s][C[s]] THEN <<s, C[s]>>
                                          ELSE AggregateOf(B)[p]]
    BY <1>1, <1>2, <1>3, AddOne
  <1> QED  BY <1>3, <1>4, Zenon DEF B, C

-----------------------------------------------------------------------------
(* Pages. *)

(* The current schemas after one that has been listed, and those of them    *)
(* before a given one.                                                     *)
Rest(after) == {s \in Schemas : server[s] # 0 /\ s > after}
Below(R, s) == {t \in R : t < s}

(* Fewer schemas are below a smaller one, and as many as it takes to count *)
(* up to the first that has at least n of them below.                      *)
LEMMA BelowSmaller ==
    ASSUME NEW R, R \subseteq Schemas, NEW s \in Schemas, NEW t \in Schemas, t <= s
    PROVE  /\ Cardinality(Below(R, t)) \in Nat
           /\ Cardinality(Below(R, s)) \in Nat
           /\ Cardinality(Below(R, t)) <= Cardinality(Below(R, s))
  <1>1. IsFiniteSet(Schemas)
    BY ClientAssumption, FS_Interval DEF Schemas
  <1>2. IsFiniteSet(Below(R, s))
    BY <1>1, FS_Subset, Zenon DEF Below
  <1>3. Below(R, t) \subseteq Below(R, s)
    <2>1. R \subseteq Nat /\ s \in Nat /\ t \in Nat
      BY SchemasNat, Zenon
    <2>2. \A u \in R : u < t => u < s
      BY <2>1
    <2> QED  BY <2>2, Zenon DEF Below
  <1> QED  BY <1>2, <1>3, FS_Subset, FS_CardinalityType, Zenon

(* If any schema has n or more below it, one has exactly n: the page that  *)
(* asks for a row more sees it.                                            *)
LEMMA BelowExact ==
    ASSUME NEW R, R \subseteq Schemas, NEW n \in Nat \ {0}, NEW s \in R,
           Cardinality(Below(R, s)) >= n
    PROVE  \E m \in R : Cardinality(Below(R, m)) = n
  <1> DEFINE S == {t \in R : Cardinality(Below(R, t)) >= n}
  <1>1. S \subseteq Schemas /\ s \in S /\ R \subseteq Nat
    BY SchemasNat, Zenon
  <1>2. PICK m \in S : \A t \in S : m <= t
    <2>1. S \subseteq Nat /\ S # {}
      BY <1>1, Zenon
    <2> QED  BY <2>1, Minimum, Zenon
  <1>3. m \in R /\ m \in Schemas /\ Cardinality(Below(R, m)) >= n
    BY <1>2, Zenon
  <1>4. \A t \in Schemas : IsFiniteSet(Below(R, t)) /\ Cardinality(Below(R, t)) \in Nat
    <2>1. IsFiniteSet(Schemas)
      BY ClientAssumption, FS_Interval DEF Schemas
    <2>2. \A t \in Schemas : Below(R, t) \subseteq Schemas
      BY Zenon DEF Below
    <2> QED  BY <2>1, <2>2, FS_Subset, FS_CardinalityType, Zenon
  <1>5. Below(R, m) # {}
    BY <1>3, FS_EmptySet
  <1>6. PICK k \in Below(R, m) : \A t \in Below(R, m) : t <= k
    BY <1>5, Maximum, Zenon DEF Below
  <1>7. k \in R /\ k \in Schemas /\ k < m
    BY <1>6, Zenon DEF Below
  <1>8. Below(R, m) = Below(R, k) \cup {k} /\ k \notin Below(R, k)
    <2>1. k \in Nat /\ m \in Nat
      BY <1>3, <1>7, SchemasNat, Zenon
    <2>2. \A t \in R : t < m <=> t < k \/ t = k
      <3>1. \A t \in R : t < m => t <= k
        BY <1>6, Zenon DEF Below
      <3> QED  BY <1>1, <1>7, <2>1, <3>1
    <2>3. ~(k < k)
      BY <2>1
    <2> QED  BY <1>7, <2>2, <2>3, Zenon DEF Below
  <1>9. Cardinality(Below(R, m)) = Cardinality(Below(R, k)) + 1
    BY <1>4, <1>7, <1>8, FS_AddElement, Zenon
  <1>10. ~(Cardinality(Below(R, k)) >= n)
    <2>1. k \notin S
      BY <1>1, <1>2, <1>3, <1>7
    <2> QED  BY <1>7, <2>1, Zenon
  <1>11. Cardinality(Below(R, m)) = n
    BY <1>3, <1>4, <1>7, <1>9, <1>10
  <1> QED  BY <1>3, <1>11, Zenon

(* A page is the beginning of what is left to list.  The token of a page   *)
(* is its last schema; without a token the page is all of it.              *)
LEMMA Page ==
    ASSUME server \in Snapshots, NEW after \in 0..NumSchemas
    PROVE  LET reply == ListSchemas(after)
           IN  /\ reply.page \subseteq Rest(after)
               /\ reply.token \in 0..NumSchemas
               /\ reply.token = 0 => reply.page = Rest(after)
               /\ reply.token # 0 =>
                     /\ reply.token > after
                     /\ \A s \in reply.page : s <= reply.token
                     /\ \A s \in Rest(after) : s <= reply.token => s \in reply.page
  <1> DEFINE R == Rest(after)
             rows == ListSchemasPage(after, PageSize + 1)
             page == {s \in rows : Cardinality(Below(rows, s)) < PageSize}
             token == IF page = rows THEN 0 ELSE CHOOSE s \in page : \A t \in page : t <= s
  <1>1. rows = {s \in R : Cardinality(Below(R, s)) < PageSize + 1}
    BY Zenon DEF ListSchemasPage, Rest, Below
  <1>2. ListSchemas(after).page = page /\ ListSchemas(after).token = token
    BY Zenon DEF ListSchemas, Below
  <1>3. R \subseteq Schemas /\ \A s \in R : s > after
    BY Zenon DEF Rest
  <1> HIDE DEF R, rows
  <1>4. R \subseteq Nat /\ PageSize \in Nat \ {0} /\ NumSchemas \in Nat
    BY <1>3, SchemasNat, ClientAssumption, Zenon
  <1>5. \A s \in R : Cardinality(Below(R, s)) \in Nat
    <2>1. \A s \in Schemas : s <= s
      BY SchemasNat
    <2> QED  BY <1>3, <2>1, BelowSmaller, Zenon
  (* The rows below a row are all the schemas below it. *)
  <1>6. ASSUME NEW s \in rows PROVE Below(rows, s) = Below(R, s)
    <2>1. s \in R /\ Cardinality(Below(R, s)) < PageSize + 1
      BY <1>1, Zenon
    <2>2. ASSUME NEW t \in R, t < s PROVE t \in rows
      <3>1. t <= s
        BY <1>4, <2>1, <2>2
      <3>2. Cardinality(Below(R, t)) <= Cardinality(Below(R, s))
        BY <1>3, <2>1, <3>1, BelowSmaller, Zenon
      <3>3. Cardinality(Below(R, t)) < PageSize + 1
        BY <1>4, <1>5, <2>1, <3>2
      <3> QED  BY <1>1, <3>3, Zenon
    <2> QED  BY <1>1, <2>2, Zenon DEF Below
  <1>7. page = {s \in R : Cardinality(Below(R, s)) < PageSize}
    <2>1. \A s \in R : Cardinality(Below(R, s)) < PageSize =>
                           Cardinality(Below(R, s)) < PageSize + 1
      BY <1>4, <1>5
    <2> QED  BY <1>1, <1>6, <2>1, Zenon
  <1>8. page \subseteq Rest(after) /\ page \subseteq R /\ page \subseteq Schemas
    BY <1>3, <1>7, Zenon DEF R
  <1>9. CASE page = rows
    <2>1. ASSUME NEW s \in R PROVE s \in page
      <3>1. SUFFICES ASSUME Cardinality(Below(R, s)) >= PageSize PROVE FALSE
        BY <1>4, <1>5, <1>7
      <3>2. PICK m \in R : Cardinality(Below(R, m)) = PageSize
        BY <1>3, <1>4, <3>1, BelowExact, Zenon
      <3>3. PageSize < PageSize + 1 /\ ~(PageSize < PageSize)
        BY <1>4
      <3> QED  BY <1>1, <1>7, <1>9, <3>2, <3>3, Zenon
    <2>2. token = 0 /\ 0 \in 0..NumSchemas
      BY <1>4, <1>9
    <2> QED  BY <1>2, <1>8, <2>1, <2>2, Zenon DEF R
  <1>10. CASE page # rows
    <2>1. page # {}
      <3>1. rows # {}
        BY <1>10, Zenon
      <3>2. PICK m \in rows : \A t \in rows : m <= t
        <4>1. rows \subseteq Nat
          BY <1>1, <1>4, Zenon
        <4> QED  BY <3>1, <4>1, Minimum, Zenon
      <3>3. Below(rows, m) = {}
        <4>1. \A t \in rows : ~(t < m)
          BY <1>1, <1>4, <3>2
        <4> QED  BY <4>1, Zenon DEF Below
      <3>4. Cardinality(Below(rows, m)) < PageSize
        BY <1>4, <3>3, FS_EmptySet
      <3> QED  BY <3>4, Zenon
    <2> HIDE DEF page
    <2>2. \E s \in page : \A t \in page : t <= s
      BY <1>8, <2>1, Maximum, Zenon
    <2>3. token \in page /\ \A t \in page : t <= token
      BY <1>10, <2>2, Zenon
    <2> HIDE DEF token
    <2>4. token \in R /\ token \in Schemas /\ token > after
      BY <1>3, <1>8, <2>3, Zenon
    <2>5. token \in 0..NumSchemas /\ token # 0
      BY <2>4, ClientAssumption DEF Schemas
    <2>6. ASSUME NEW s \in R, s <= token PROVE s \in page
      <3>1. Cardinality(Below(R, s)) <= Cardinality(Below(R, token))
        BY <1>3, <2>4, <2>6, BelowSmaller, Zenon
      <3>2. Cardinality(Below(R, token)) < PageSize
        BY <1>7, <2>3, Zenon
      <3>3. Cardinality(Below(R, s)) < PageSize
        BY <1>4, <1>5, <2>4, <3>1, <3>2
      <3> QED  BY <1>7, <3>3, Zenon
    <2> QED  BY <1>2, <1>8, <2>3, <2>4, <2>5, <2>6, Zenon DEF R
  <1> QED  BY <1>9, <1>10, Zenon

-----------------------------------------------------------------------------
(* The invariants. *)

(* Who may be doing what: a Refresh only on a live Resolver and one at a   *)
(* time, a first fetch only as long as there is none.                      *)
ControlInv ==
    /\ \A c \in Callers :
          /\ call[c].op = "none" <=> call[c].ph = "idle"
          /\ call[c].op = "refresh" => mode = "live" /\ call[c].ph # "cache"
          /\ call[c].op = "new" => c = "user"
          /\ call[c].op = "new" /\ call[c].ph \in Mutating \cup {"list", "fetch", "index", "cache"}
                => mode = "down"
    /\ \A c, d \in Callers :
          call[c].op = "refresh" /\ call[d].op = "refresh" => c = d

(* The aggregate is at every moment that of one snapshot without           *)
(* collisions: the current one, or one between it and the next.            *)
AggregateInv ==
    /\ Disjoint(cur)
    /\ (\A c \in Callers : call[c].ph \notin Mutating) => agg = AggregateOf(cur)
    /\ \A c \in Callers : call[c].ph \in Mutating =>
          /\ Disjoint(call[c].next)
          /\ call[c].todo \subseteq Todo(call[c].ph, cur, call[c].next)
          /\ agg = AggregateOf(Between(call[c].ph, call[c].todo, cur, call[c].next))

(* What has been listed: up to the page token each schema has a version    *)
(* that was current at some moment of the listing, beyond it none.         *)
ListInv ==
    \A c \in Callers :
        /\ call[c].ph = "list" =>
              \A s \in Schemas :
                  IF s <= call[c].after
                  THEN \E w \in call[c].window : call[c].next[s] = w[s]
                  ELSE call[c].next[s] = 0
        /\ call[c].ph \in {"fetch", "index"} =>
              \A s \in Schemas : \E w \in call[c].window : call[c].next[s] = w[s]

(* What is being saved: a snapshot without collisions, whose files are on  *)
(* disk but for those to do.                                               *)
CacheInv ==
    /\ manifest = None \/ manifest \in [versions : Snapshots,
                                        chain : {Chain, Reversed(Chain), << >>}]
    /\ CacheLoadable
    /\ \A c \in Callers :
          /\ call[c].ph \in {"wait", "files", "manifest"} =>
                Disjoint(call[c].next) /\ call[c].next # Empty
          /\ call[c].ph = "files" => call[c].todo # {}
          /\ call[c].ph \in {"files", "manifest"} =>
                \A s \in Schemas : call[c].next[s] # 0 =>
                    \/ <<s, call[c].next[s]>> \in disk
                    \/ call[c].ph = "files" /\ s \in call[c].todo
          /\ call[c].ph = "files" => \A s \in call[c].todo : call[c].next[s] # 0

Inv == TypeOK /\ ControlInv /\ AggregateInv /\ ListInv /\ CacheInv

-----------------------------------------------------------------------------
(* How a step changes the calls. *)

(* Caller c goes on with a call of these fields; the others stay. *)
Moved(c, op, ph, after, next, window, todo) ==
    /\ call' \in [Callers -> Calls]
    /\ \A d \in Callers \ {c} : call'[d] = call[d]
    /\ call'[c].op = op
    /\ call'[c].ph = ph
    /\ call'[c].after = after
    /\ call'[c].next = next
    /\ call'[c].window = window
    /\ call'[c].todo = todo

(* The fields of a call. *)
LEMMA Fields ==
    ASSUME call \in [Callers -> Calls], NEW c \in Callers
    PROVE  /\ call[c] \in Calls
           /\ call[c].op \in {"none", "new", "refresh"}
           /\ call[c].ph \in Phases
           /\ call[c].after \in 0..NumSchemas
           /\ call[c].next \in Snapshots
           /\ call[c].window \subseteq Snapshots
           /\ call[c].todo \subseteq Schemas
  BY Zenon DEF Calls

(* A call that is over is one. *)
LEMMA NoCallType == Empty \in Snapshots /\ NoCall \in Calls
  BY ClientAssumption DEF NoCall, Calls, Phases, Snapshots, Empty

(* A caller replaces its call. *)
LEMMA Replaces ==
    ASSUME call \in [Callers -> Calls], NEW c \in Callers, NEW k \in Calls,
           call' = [call EXCEPT ![c] = k]
    PROVE  Moved(c, k.op, k.ph, k.after, k.next, k.window, k.todo)
  BY Zenon DEF Moved

(* A call returns. *)
LEMMA Returns ==
    ASSUME call \in [Callers -> Calls], NEW c \in Callers, Return(c)
    PROVE  Moved(c, "none", "idle", 0, Empty, {}, {})
  <1>1. Moved(c, NoCall.op, NoCall.ph, NoCall.after, NoCall.next, NoCall.window, NoCall.todo)
    BY NoCallType, Replaces, Zenon DEF Return
  <1> QED  BY <1>1, Zenon DEF NoCall

(* A call goes on to its next phase ... *)
LEMMA Goes ==
    ASSUME call \in [Callers -> Calls], NEW c \in Callers, NEW ph \in Phases, Goto(c, ph)
    PROVE  Moved(c, call[c].op, ph, call[c].after, call[c].next,
                 call[c].window, call[c].todo)
  <1> DEFINE k == [call[c] EXCEPT !.ph = ph]
  <1>1. k \in Calls
    BY Zenon DEF Calls
  <1>2. call' = [call EXCEPT ![c] = k]
    BY Zenon DEF Goto
  <1>3. Moved(c, k.op, k.ph, k.after, k.next, k.window, k.todo)
    <2> HIDE DEF k
    <2> QED  BY <1>1, <1>2, Replaces, Zenon
  <1> QED  BY <1>3, Zenon DEF Calls

(* ... with some schemas to do. *)
LEMMA GoesWith ==
    ASSUME call \in [Callers -> Calls], NEW c \in Callers, NEW ph \in Phases,
           NEW S, S \subseteq Schemas, GotoWith(c, ph, S)
    PROVE  Moved(c, call[c].op, ph, call[c].after, call[c].next, {}, S)
  <1> DEFINE k == [call[c] EXCEPT !.ph = ph, !.todo = S, !.window = {}]
  <1>1. k \in Calls
    BY Zenon DEF Calls
  <1>2. call' = [call EXCEPT ![c] = k]
    BY Zenon DEF GotoWith
  <1>3. Moved(c, k.op, k.ph, k.after, k.next, k.window, k.todo)
    <2> HIDE DEF k
    <2> QED  BY <1>1, <1>2, Replaces, Zenon
  <1> QED  BY <1>3, Zenon DEF Calls

(* A call begins. *)
LEMMA Begins ==
    ASSUME call \in [Callers -> Calls], NEW c \in Callers, NEW op \in {"new", "refresh"},
           call' = [call EXCEPT ![c] = [NoCall EXCEPT !.op = op, !.ph = "list"]]
    PROVE  Moved(c, op, "list", 0, Empty, {}, {})
  <1> DEFINE k == [NoCall EXCEPT !.op = op, !.ph = "list"]
  <1>1. k \in Calls
    BY NoCallType, Zenon DEF Calls, Phases
  <1>2. Moved(c, k.op, k.ph, k.after, k.next, k.window, k.todo)
    <2> HIDE DEF k
    <2> QED  BY <1>1, Replaces, Zenon DEF k
  <1> QED  BY <1>2, Zenon DEF NoCall

(* A page is added to what has been listed. *)
LEMMA Lists ==
    ASSUME server \in Snapshots, call \in [Callers -> Calls], NEW c \in Callers, ListPage(c)
    PROVE  LET reply == ListSchemas(call[c].after)
           IN  Moved(c, call[c].op, IF reply.token = 0 THEN "fetch" ELSE "list", reply.token,
                     [s \in Schemas |-> IF s \in reply.page THEN server[s]
                                        ELSE call[c].next[s]],
                     call[c].window \cup {server}, call[c].todo)
  <1> DEFINE reply == ListSchemas(call[c].after)
             n == [s \in Schemas |-> IF s \in reply.page THEN server[s] ELSE call[c].next[s]]
             ph == IF reply.token = 0 THEN "fetch" ELSE "list"
             w == call[c].window \cup {server}
             k == [call[c] EXCEPT !.next = n, !.window = w, !.after = reply.token, !.ph = ph]
  <1>1. /\ call[c] \in Calls /\ reply.token \in 0..NumSchemas
        /\ call[c].next \in Snapshots /\ w \subseteq Snapshots
    BY Fields, Page, Zenon
  <1>2. n \in Snapshots /\ ph \in Phases
    BY <1>1, Zenon DEF Snapshots, Phases
  <1>3. call' = [call EXCEPT ![c] = k]
    BY Zenon DEF ListPage
  <1> HIDE DEF reply, n, ph, w
  <1>4. k \in Calls
    BY <1>1, <1>2, Zenon DEF Calls
  <1>5. Moved(c, k.op, k.ph, k.after, k.next, k.window, k.todo)
    <2> HIDE DEF k
    <2> QED  BY <1>3, <1>4, Replaces, Zenon
  <1>6. Moved(c, call[c].op, ph, reply.token, n, w, call[c].todo)
    BY <1>1, <1>5, Zenon DEF Calls
  <1> QED  BY <1>6, Zenon DEF reply, n, ph, w

(* The snapshot is read to be saved. *)
LEMMA Reads ==
    ASSUME cur \in Snapshots, call \in [Callers -> Calls], NEW c \in Callers,
           call' = [call EXCEPT ![c].next = cur, ![c].ph = "wait"]
    PROVE  Moved(c, call[c].op, "wait", call[c].after, cur, call[c].window, call[c].todo)
  <1> DEFINE k == [call[c] EXCEPT !.next = cur, !.ph = "wait"]
  <1>1. k \in Calls
    BY ZenonT(20) DEF Calls, Phases
  <1>2. call' = [call EXCEPT ![c] = k]
    BY Zenon
  <1>3. Moved(c, k.op, k.ph, k.after, k.next, k.window, k.todo)
    <2> HIDE DEF k
    <2> QED  BY <1>1, <1>2, Replaces, Zenon
  <1> QED  BY <1>3, Zenon DEF Calls

-----------------------------------------------------------------------------
(* What a step of one call leaves alone. *)

(* Only one call at a time is about to change the aggregate, and none      *)
(* beside a first fetch.                                                   *)
LEMMA Alone ==
    ASSUME call \in [Callers -> Calls], ControlInv, NEW c \in Callers, NEW d \in Callers,
           call[c].ph \in Mutating \cup {"index"}, call[d].ph \in Mutating
    PROVE  c = d
  <1>1. /\ call[c].op \in {"none", "new", "refresh"}
        /\ call[d].op \in {"none", "new", "refresh"}
    BY Fields, Zenon
  <1>2. call[c].ph # "idle" /\ call[d].ph # "idle"
    BY Zenon DEF Mutating
  <1>3. call[c].op \in {"new", "refresh"} /\ call[d].op \in {"new", "refresh"}
    BY <1>1, <1>2, Zenon DEF ControlInv
  <1> QED  BY <1>3, Zenon DEF ControlInv

(* A call that goes on keeps the control. *)
LEMMA KeepControl ==
    ASSUME ControlInv, NEW c \in Callers,
           NEW ph, NEW after, NEW next, NEW window, NEW todo,
           Moved(c, call[c].op, ph, after, next, window, todo), mode' = mode,
           call[c].ph # "idle", ph # "idle",
           call[c].op = "refresh" => ph # "cache",
           call[c].op = "new" /\ ph \in Mutating \cup {"list", "fetch", "index", "cache"}
              => mode = "down"
    PROVE  ControlInv'
  <1>1. ASSUME NEW d \in Callers
        PROVE  /\ call'[d].op = call[d].op
               /\ d # c => call'[d] = call[d]
    BY Zenon DEF Moved
  <1>2. call'[c].ph = ph
    BY Zenon DEF Moved
  <1> QED  BY <1>1, <1>2 DEF ControlInv

(* So does one that returns. *)
LEMMA EndControl ==
    ASSUME ControlInv, NEW c \in Callers, mode' = mode,
           Moved(c, "none", "idle", 0, Empty, {}, {})
    PROVE  ControlInv'
  <1>1. \A d \in Callers : d # c => call'[d] = call[d]
    BY Zenon DEF Moved
  <1>2. call'[c].ph = "idle" /\ call'[c].op = "none"
    BY Zenon DEF Moved
  <1> QED  BY <1>1, <1>2 DEF ControlInv

(* A call that neither was nor is changing the aggregate leaves it alone. *)
LEMMA KeepAggregate ==
    ASSUME AggregateInv, NEW c \in Callers,
           NEW op, NEW ph, NEW after, NEW next, NEW window, NEW todo,
           Moved(c, op, ph, after, next, window, todo),
           call[c].ph \notin Mutating, ph \notin Mutating, cur' = cur, agg' = agg
    PROVE  AggregateInv'
  <1>1. \A d \in Callers : d # c => call'[d] = call[d]
    BY Zenon DEF Moved
  <1>2. call'[c].ph \notin Mutating
    BY Zenon DEF Moved
  <1> QED  BY <1>1, <1>2, Zenon DEF AggregateInv

(* A call that is not listing leaves the listings alone. *)
LEMMA KeepList ==
    ASSUME ListInv, NEW c \in Callers,
           NEW op, NEW ph, NEW after, NEW next, NEW window, NEW todo,
           Moved(c, op, ph, after, next, window, todo),
           ph \notin {"list", "fetch", "index"}
    PROVE  ListInv'
  <1>1. \A d \in Callers : d # c => call'[d] = call[d]
    BY Zenon DEF Moved
  <1>2. call'[c].ph \notin {"list", "fetch", "index"}
    BY Zenon DEF Moved
  <1> QED  BY <1>1, <1>2 DEF ListInv

(* A call that is not saving leaves the cache alone. *)
LEMMA KeepCache ==
    ASSUME CacheInv, NEW c \in Callers,
           NEW op, NEW ph, NEW after, NEW next, NEW window, NEW todo,
           Moved(c, op, ph, after, next, window, todo),
           ph \notin {"wait", "files", "manifest"}, disk' = disk, manifest' = manifest
    PROVE  CacheInv'
  <1>1. \A d \in Callers : d # c => call'[d] = call[d]
    BY Zenon DEF Moved
  <1>2. call'[c].ph \notin {"wait", "files", "manifest"}
    BY Zenon DEF Moved
  <1>3. CacheLoadable'
    BY Zenon DEF CacheInv, CacheLoadable
  <1> QED  BY <1>1, <1>2, <1>3 DEF CacheInv

-----------------------------------------------------------------------------
(* Each step keeps the invariant. *)

(* A call of a Resolver begins with nothing listed. *)
LEMMA BeginKeeps ==
    ASSUME Inv, NEW c \in Callers, NEW op \in {"new", "refresh"}, call[c].ph = "idle",
           call' = [call EXCEPT ![c] = [NoCall EXCEPT !.op = op, !.ph = "list"]],
           UNCHANGED <<serverVars, faults, resolver, cache>>,
           op = "new" => mode = "down" /\ c = "user",
           op = "refresh" => mode = "live" /\ \A d \in Callers : call[d].op # "refresh"
    PROVE  Inv'
  <1>1. Moved(c, op, "list", 0, Empty, {}, {})
    BY Begins, Zenon DEF Inv, TypeOK
  <1>2. TypeOK'
    BY <1>1, Zenon DEF Inv, TypeOK, Moved, serverVars, resolver, cache
  <1>3. ControlInv'
    <2>1. \A d \in Callers : d # c => call'[d] = call[d]
      BY <1>1, Zenon DEF Moved
    <2>2. call'[c].ph = "list" /\ call'[c].op = op
      BY <1>1, Zenon DEF Moved
    <2>3. mode' = mode
      BY Zenon DEF resolver
    <2> QED  BY <2>1, <2>2, <2>3 DEF Inv, ControlInv
  <1>4. AggregateInv'
    <2>1. call[c].ph \notin Mutating /\ "list" \notin Mutating
      BY Zenon DEF Mutating
    <2> QED  BY <1>1, <2>1, KeepAggregate, Zenon DEF Inv, resolver
  <1>5. ListInv'
    <2>1. \A d \in Callers : d # c => call'[d] = call[d]
      BY <1>1, Zenon DEF Moved
    <2>2. call'[c].ph = "list" /\ call'[c].after = 0 /\ call'[c].next = Empty
      BY <1>1, Zenon DEF Moved
    <2>3. \A s \in Schemas : ~(s <= 0) /\ Empty[s] = 0
      BY ClientAssumption DEF Schemas, Empty
    <2> QED  BY <2>1, <2>2, <2>3 DEF Inv, ListInv
  <1>6. CacheInv'
    BY <1>1, KeepCache DEF Inv, cache
  <1> QED  BY <1>2, <1>3, <1>4, <1>5, <1>6, Zenon DEF Inv

(* A page adds versions that are current now, and schemas it passes over   *)
(* have none.                                                              *)
LEMMA ListPageKeeps ==
    ASSUME Inv, NEW c \in Callers, ListPage(c)
    PROVE  Inv'
  <1> DEFINE reply == ListSchemas(call[c].after)
             ph == IF reply.token = 0 THEN "fetch" ELSE "list"
             n == [s \in Schemas |-> IF s \in reply.page THEN server[s] ELSE call[c].next[s]]
             w == call[c].window \cup {server}
  <1>1. Moved(c, call[c].op, ph, reply.token, n, w, call[c].todo)
    BY Lists, Zenon DEF Inv, TypeOK
  <1>a. UNCHANGED <<serverVars, faults, resolver, cache>> /\ call[c].ph = "list"
    BY Zenon DEF ListPage
  <1>b. /\ reply.page \subseteq Rest(call[c].after)
        /\ reply.token \in 0..NumSchemas
        /\ reply.token = 0 => reply.page = Rest(call[c].after)
        /\ reply.token # 0 =>
              /\ reply.token > call[c].after
              /\ \A s \in reply.page : s <= reply.token
              /\ \A s \in Rest(call[c].after) : s <= reply.token => s \in reply.page
    <2>1. server \in Snapshots /\ call[c].after \in 0..NumSchemas
      BY Fields, Zenon DEF Inv, TypeOK
    <2> QED  BY <2>1, Page, Zenon
  <1>c. ph \in {"list", "fetch"}
    BY Zenon
  <1>d. \A s \in Schemas : n[s] = IF s \in reply.page THEN server[s] ELSE call[c].next[s]
    BY Zenon
  <1> HIDE DEF ph, reply, n
  <1>2. TypeOK'
    BY <1>1, <1>a, Zenon DEF Inv, TypeOK, Moved, serverVars, resolver, cache
  <1>3. ControlInv'
    <2>1. ph # "idle" /\ ph # "cache" /\ call[c].ph # "idle"
      BY <1>a, <1>c, Zenon
    <2>2. call[c].op = "new" => mode = "down"
      BY <1>a, Zenon DEF Inv, ControlInv
    <2> QED  BY <1>1, <1>a, <2>1, <2>2, KeepControl, Zenon DEF Inv, resolver
  <1>4. AggregateInv'
    <2>1. call[c].ph \notin Mutating /\ ph \notin Mutating
      BY <1>a, <1>c, Zenon DEF Mutating
    <2> QED  BY <1>1, <1>a, <2>1, KeepAggregate, Zenon DEF Inv, resolver
  <1>5. ListInv'
    <2>1. \A d \in Callers : d # c => call'[d] = call[d]
      BY <1>1, Zenon DEF Moved
    <2>2. /\ call'[c].ph = ph /\ call'[c].after = reply.token
          /\ call'[c].next = n /\ call'[c].window = w
      BY <1>1, Zenon DEF Moved
    <2>3. \A s \in Schemas : IF s <= call[c].after
                             THEN \E x \in call[c].window : call[c].next[s] = x[s]
                             ELSE call[c].next[s] = 0
      BY <1>a, Zenon DEF Inv, ListInv
    <2>4. call[c].after \in Nat /\ Schemas \subseteq Nat /\ reply.token \in Nat
      BY <1>b, Fields, SchemasNat DEF Inv, TypeOK
    <2>5. ASSUME NEW s \in Schemas, reply.token = 0 \/ s <= reply.token
          PROVE  \E x \in w : n[s] = x[s]
      <3>1. CASE s \in reply.page
        <4>1. n[s] = server[s] /\ server \in w
          BY <1>d, <3>1, Zenon
        <4> QED  BY <4>1, Zenon
      <3>2. CASE s \notin reply.page /\ s <= call[c].after
        <4>1. PICK x \in call[c].window : call[c].next[s] = x[s]
          BY <2>3, <3>2, Zenon
        <4>2. n[s] = x[s] /\ x \in w
          BY <1>d, <3>2, <4>1, Zenon
        <4> QED  BY <4>2, Zenon
      <3>3. CASE s \notin reply.page /\ ~(s <= call[c].after)
        <4>1. s \notin Rest(call[c].after)
          BY <1>b, <2>5, <3>3, Zenon
        <4>2. s > call[c].after
          BY <2>4, <3>3
        <4>3. server[s] = 0
          BY <4>1, <4>2, Zenon DEF Rest
        <4>4. n[s] = 0
          BY <1>d, <2>3, <3>3, Zenon
        <4> QED  BY <4>3, <4>4, Zenon
      <3> QED  BY <3>1, <3>2, <3>3, Zenon
    <2>6. ASSUME NEW s \in Schemas, reply.token # 0, ~(s <= reply.token)
          PROVE  n[s] = 0
      <3>1. s \notin reply.page
        BY <1>b, <2>6, Zenon
      <3>2. ~(s <= call[c].after)
        BY <1>b, <2>4, <2>6
      <3> QED  BY <1>d, <2>3, <3>1, <3>2, Zenon
    <2>7. ph = IF reply.token = 0 THEN "fetch" ELSE "list"
      BY Zenon DEF ph
    <2> HIDE DEF w
    <2>8. /\ call'[c].ph = "list" =>
              \A s \in Schemas :
                  IF s <= call'[c].after
                  THEN \E x \in call'[c].window : call'[c].next[s] = x[s]
                  ELSE call'[c].next[s] = 0
          /\ call'[c].ph \in {"fetch", "index"} =>
              \A s \in Schemas : \E x \in call'[c].window : call'[c].next[s] = x[s]
      BY <2>2, <2>5, <2>6, <2>7, Zenon
    <2> QED  BY <2>1, <2>8 DEF Inv, ListInv
  <1>6. CacheInv'
    <2>1. ph \notin {"wait", "files", "manifest"}
      BY <1>c, Zenon
    <2> QED  BY <1>1, <1>a, <2>1, KeepCache, Zenon DEF Inv, cache
  <1> QED  BY <1>2, <1>3, <1>4, <1>5, <1>6, Zenon DEF Inv

(* A promotion on the server adds a state to the listings under way. *)
LEMMA ChangeKeeps ==
    ASSUME Inv, NEW new \in Snapshots, Change(new)
    PROVE  Inv'
  <1>1. ASSUME NEW d \in Callers
        PROVE  /\ call'[d] \in Calls
               /\ call'[d].op = call[d].op
               /\ call'[d].ph = call[d].ph
               /\ call'[d].after = call[d].after
               /\ call'[d].next = call[d].next
               /\ call[d].window \subseteq call'[d].window
               /\ call'[d].todo = call[d].todo
    <2>1. call[d] \in Calls
      BY Fields, Zenon DEF Inv, TypeOK
    <2>2. call'[d] = IF call[d].ph = "list" /\ call[d].window # {}
                     THEN [call[d] EXCEPT !.window = @ \cup {new}] ELSE call[d]
      BY Zenon DEF Change
    <2> QED  BY <2>1, <2>2 DEF Calls
  <1>2. UNCHANGED <<faults, resolver, cache>> /\ server' = new /\ changes' \in 0..MaxChanges
    BY ClientAssumption DEF Change, Inv, TypeOK
  <1>3. TypeOK'
    <2>1. call' \in [Callers -> Calls]
      <3>1. call' = [c \in Callers |-> call'[c]]
        BY Zenon DEF Change
      <3> QED  BY <1>1, <3>1, Zenon
    <2> QED  BY <1>2, <2>1, Zenon DEF Inv, TypeOK, resolver, cache
  <1>4. ControlInv'
    BY <1>1, <1>2 DEF Inv, ControlInv, resolver
  <1>5. AggregateInv'
    BY <1>1, <1>2, Zenon DEF Inv, AggregateInv, resolver
  <1>6. ListInv'
    <2>1. ASSUME NEW d \in Callers, NEW s \in Schemas,
                 \E w \in call[d].window : call[d].next[s] = w[s]
          PROVE  \E w \in call'[d].window : call'[d].next[s] = w[s]
      BY <1>1, <2>1, Zenon
    <2>2. ASSUME NEW d \in Callers
          PROVE  /\ call'[d].ph = "list" =>
                       \A s \in Schemas :
                           IF s <= call'[d].after
                           THEN \E w \in call'[d].window : call'[d].next[s] = w[s]
                           ELSE call'[d].next[s] = 0
                 /\ call'[d].ph \in {"fetch", "index"} =>
                       \A s \in Schemas :
                           \E w \in call'[d].window : call'[d].next[s] = w[s]
      BY <1>1, <2>1 DEF Inv, ListInv
    <2> QED  BY <2>2, Zenon DEF ListInv
  <1>7. CacheInv'
    <2>1. disk' = disk /\ manifest' = manifest
      BY <1>2, Zenon DEF cache
    <2>2. CacheLoadable'
      BY <2>1, Zenon DEF Inv, CacheInv, CacheLoadable
    <2> QED  BY <1>1, <2>1, <2>2 DEF Inv, CacheInv
  <1> QED  BY <1>3, <1>4, <1>5, <1>6, <1>7, Zenon DEF Inv

(* A call that is not changing the aggregate may return at any time. *)
LEMMA ReturnKeeps ==
    ASSUME Inv, NEW c \in Callers, Return(c), call[c].ph \notin Mutating,
           UNCHANGED <<mode, cur, agg, disk, manifest>>
    PROVE  /\ call' \in [Callers -> Calls]
           /\ ControlInv' /\ AggregateInv' /\ ListInv' /\ CacheInv'
  <1>1. Moved(c, "none", "idle", 0, Empty, {}, {})
    BY Returns, Zenon DEF Inv, TypeOK
  <1>2. ControlInv'
    BY <1>1, EndControl, Zenon DEF Inv
  <1>3. AggregateInv'
    <2>1. "idle" \notin Mutating
      BY Zenon DEF Mutating
    <2> QED  BY <1>1, <2>1, KeepAggregate, Zenon DEF Inv
  <1>4. ListInv' /\ CacheInv'
    <2>1. "idle" \notin {"list", "fetch", "index", "wait", "files", "manifest"}
      BY Zenon
    <2> QED  BY <1>1, <2>1, KeepList, KeepCache, Zenon DEF Inv
  <1> QED  BY <1>1, <1>2, <1>3, <1>4, Zenon DEF Moved

(* A call that gives up leaves everything as it was. *)
LEMMA GiveUpKeeps ==
    ASSUME Inv, NEW c \in Callers, GiveUp(c), call[c].ph \in {"list", "fetch", "index"},
           UNCHANGED <<mode, cur, agg, disk, manifest>>
    PROVE  /\ call' \in [Callers -> Calls]
           /\ ControlInv' /\ AggregateInv' /\ ListInv' /\ CacheInv'
  <1>1. call[c].ph \notin Mutating /\ call[c].ph # "idle"
    BY Zenon DEF Mutating
  <1>2. CASE call[c].op # "new"
    <2>1. Return(c)
      BY <1>2, Zenon DEF GiveUp
    <2> QED  BY <1>1, <2>1, ReturnKeeps, Zenon
  <1>3. CASE call[c].op = "new"
    <2>1. GotoWith(c, "cache", {})
      BY <1>3, Zenon DEF GiveUp
    <2>2. Moved(c, call[c].op, "cache", call[c].after, call[c].next, {}, {})
      BY <2>1, GoesWith, Zenon DEF Inv, TypeOK, Phases
    <2>3. ControlInv'
      <3>1. mode = "down" /\ call[c].op # "refresh" /\ "cache" # "idle"
        BY <1>3, Zenon DEF Inv, ControlInv
      <3> QED  BY <1>1, <2>2, <3>1, KeepControl, Zenon DEF Inv
    <2>4. AggregateInv'
      <3>1. "cache" \notin Mutating
        BY Zenon DEF Mutating
      <3> QED  BY <1>1, <2>2, <3>1, KeepAggregate, Zenon DEF Inv
    <2>5. ListInv' /\ CacheInv'
      <3>1. "cache" \notin {"list", "fetch", "index", "wait", "files", "manifest"}
        BY Zenon
      <3> QED  BY <2>2, <3>1, KeepList, KeepCache, Zenon DEF Inv
    <2> QED  BY <2>2, <2>3, <2>4, <2>5, Zenon DEF Moved
  <1> QED  BY <1>2, <1>3, Zenon

(* What has to be shown of a call that changes the aggregate. *)
LEMMA ChangesAggregate ==
    ASSUME Inv, NEW c \in Callers, call[c].ph \in Mutating \cup {"index"},
           NEW ph \in Mutating, NEW todo,
           Moved(c, call[c].op, ph, call[c].after, call[c].next, {}, todo),
           cur' = cur, Disjoint(call[c].next), todo \subseteq Todo(ph, cur, call[c].next),
           agg' = AggregateOf(Between(ph, todo, cur, call[c].next))
    PROVE  AggregateInv'
  <1>1. \A d \in Callers : d # c => call'[d] = call[d] /\ call[d].ph \notin Mutating
    BY Alone, Zenon DEF Moved, Inv, TypeOK
  <1>2. call'[c].ph = ph /\ call'[c].todo = todo /\ call'[c].next = call[c].next
    BY Zenon DEF Moved
  <1>3. Disjoint(cur)
    BY Zenon DEF Inv, AggregateInv
  <1> QED  BY <1>1, <1>2, <1>3, Zenon DEF AggregateInv

(* And that its other parts are kept. *)
LEMMA ChangesOnlyAggregate ==
    ASSUME Inv, NEW c \in Callers, call[c].ph \in Mutating \cup {"index"},
           NEW ph \in Mutating, NEW todo,
           Moved(c, call[c].op, ph, call[c].after, call[c].next, {}, todo),
           UNCHANGED <<mode, disk, manifest>>
    PROVE  call' \in [Callers -> Calls] /\ ControlInv' /\ ListInv' /\ CacheInv'
  <1>1. /\ ph \notin {"idle", "cache", "list", "fetch", "index", "wait", "files", "manifest"}
        /\ call[c].ph # "idle"
    BY Zenon DEF Mutating
  <1>2. ControlInv'
    <2>1. call[c].op = "new" => mode = "down"
      BY Zenon DEF Inv, ControlInv
    <2> QED  BY <1>1, <2>1, KeepControl, Zenon DEF Inv
  <1>3. ListInv' /\ CacheInv'
    BY <1>1, KeepList, KeepCache, Zenon DEF Inv
  <1> QED  BY <1>2, <1>3, Zenon DEF Moved

(* The diff begins a change of the aggregate, which is that of the current *)
(* snapshot.                                                               *)
LEMMA BuildNameIndexKeeps ==
    ASSUME Inv, NEW c \in Callers, BuildNameIndex(c)
    PROVE  Inv'
  <1> DEFINE next == call[c].next
             S == {s \in Schemas : cur[s] \notin {0, next[s]}}
  <1>1. UNCHANGED <<serverVars, faults, resolver, cache>> /\ call[c].ph = "index"
    BY Zenon DEF BuildNameIndex
  <1>2. UNCHANGED <<mode, cur, agg, disk, manifest>>
    BY <1>1, Zenon DEF resolver, cache
  <1>3. \/ Return(c)
        \/ GiveUp(c)
        \/ Disjoint(next) /\ GotoWith(c, "remove", S)
    BY Zenon DEF BuildNameIndex
  <1>4. SUFFICES /\ call' \in [Callers -> Calls]
                 /\ ControlInv' /\ AggregateInv' /\ ListInv' /\ CacheInv'
    BY <1>1, Zenon DEF Inv, TypeOK, serverVars, resolver, cache
  <1>5. CASE Return(c)
    <2>1. call[c].ph \notin Mutating
      BY <1>1, Zenon DEF Mutating
    <2> QED  BY <1>2, <1>5, <2>1, ReturnKeeps, Zenon
  <1>6. CASE GiveUp(c)
    <2>1. call[c].ph \in {"list", "fetch", "index"}
      BY <1>1, Zenon
    <2> QED  BY <1>2, <1>6, <2>1, GiveUpKeeps, Zenon
  <1>7. CASE Disjoint(next) /\ GotoWith(c, "remove", S)
    <2>1. cur \in Snapshots /\ next \in Snapshots
      BY Fields, Zenon DEF Inv, TypeOK
    <2>2. S = Todo("remove", cur, next)
      BY Zenon DEF Todo
    <2>3. Moved(c, call[c].op, "remove", call[c].after, next, {}, S)
      BY <1>7, GoesWith, Zenon DEF Inv, TypeOK, Phases
    <2>4. "remove" \in Mutating /\ call[c].ph \in Mutating \cup {"index"}
      BY <1>1, Zenon DEF Mutating
    <2>5. agg' = AggregateOf(Between("remove", S, cur, next))
      <3>1. \A d \in Callers : call[d].ph \notin Mutating
        <4>1. call[c].ph \notin Mutating
          BY <1>1, Zenon DEF Mutating
        <4> QED  BY <2>4, <4>1, Alone, Zenon DEF Inv, TypeOK
      <3>2. agg = AggregateOf(cur)
        BY <3>1, Zenon DEF Inv, AggregateInv
      <3>3. Between("remove", S, cur, next) = cur
        <4> HIDE DEF S, next
        <4>1. Between("remove", Todo("remove", cur, next), cur, next) = cur
          BY <2>1, BetweenEnds, Zenon
        <4> QED  BY <2>2, <4>1, Zenon
      <3> QED  BY <1>2, <3>2, <3>3, Zenon
    <2>6. AggregateInv'
      BY <1>2, <1>7, <2>2, <2>3, <2>4, <2>5, ChangesAggregate, Zenon
    <2> QED  BY <1>2, <2>3, <2>4, <2>6, ChangesOnlyAggregate, Zenon
  <1> QED  BY <1>3, <1>5, <1>6, <1>7, Zenon

(* removeFromAggregate finds every file of the schema, and so never fails. *)
LEMMA RemoveKeeps ==
    ASSUME Inv, NEW c \in Callers, NEW s \in Schemas, RemoveFromAggregate(c, s)
    PROVE  Inv'
  <1> DEFINE next == call[c].next
             todo == call[c].todo
             old == Files[s][cur[s]]
  <1>1. /\ UNCHANGED <<serverVars, faults, mode, cur, parents, ancestors, cache>>
        /\ call[c].ph = "remove" /\ s \in todo
    BY Zenon DEF RemoveFromAggregate
  <1>2. "remove" \in Mutating /\ call[c].ph \in Mutating
    BY <1>1, Zenon DEF Mutating
  <1>3. /\ cur \in Snapshots /\ next \in Snapshots /\ Disjoint(cur) /\ Disjoint(next)
        /\ todo \subseteq Todo("remove", cur, next)
        /\ agg = AggregateOf(Between("remove", todo, cur, next))
    BY <1>1, <1>2, Fields, Zenon DEF Inv, TypeOK, AggregateInv
  <1>4. /\ \A p \in old : agg[p] # None
        /\ AggregateOf(Between("remove", todo \ {s}, cur, next)) =
              [p \in Paths |-> IF p \in old THEN None ELSE agg[p]]
    <2> HIDE DEF next, todo
    <2>1. /\ cur \in Snapshots /\ next \in Snapshots /\ Disjoint(cur) /\ Disjoint(next)
          /\ todo \subseteq Todo("remove", cur, next) /\ s \in todo
      BY <1>1, <1>3, Zenon
    <2>2. LET a == AggregateOf(Between("remove", todo, cur, next))
          IN  /\ \A p \in Files[s][cur[s]] : a[p] # None
              /\ AggregateOf(Between("remove", todo \ {s}, cur, next)) =
                    [p \in Paths |-> IF p \in Files[s][cur[s]] THEN None ELSE a[p]]
      BY <2>1, RemoveBetween, SMTT(20)
    <2> QED  BY <1>3, <2>2, Zenon
  <1>5. {p \in old : agg[p] # None} = old
    BY <1>4, Zenon
  <1>6. /\ agg' = AggregateOf(Between("remove", todo \ {s}, cur, next))
        /\ GotoWith(c, "remove", todo \ {s})
    BY <1>4, <1>5, Zenon DEF RemoveFromAggregate
  <1>7. todo \ {s} \subseteq Schemas /\ todo \ {s} \subseteq Todo("remove", cur, next)
    BY <1>3, Zenon DEF Todo
  <1>8. Moved(c, call[c].op, "remove", call[c].after, next, {}, todo \ {s})
    BY <1>6, <1>7, GoesWith, Zenon DEF Inv, TypeOK, Phases
  <1>9. AggregateInv'
    BY <1>1, <1>2, <1>3, <1>6, <1>7, <1>8, ChangesAggregate, Zenon
  <1>10. call' \in [Callers -> Calls] /\ ControlInv' /\ ListInv' /\ CacheInv'
    BY <1>1, <1>2, <1>8, ChangesOnlyAggregate, Zenon DEF cache
  <1>11. agg' \in [Paths -> (Schemas \X (1..MaxVersion)) \cup {None}]
    BY <1>2, <1>3, <1>6, BetweenSound, AggregateType, Zenon
  <1>12. TypeOK'
    BY <1>1, <1>10, <1>11, Zenon DEF Inv, TypeOK, serverVars, cache
  <1> QED  BY <1>9, <1>10, <1>12, Zenon DEF Inv

(* Once all is removed, what is left of the old snapshot is what the new   *)
(* one keeps of it.                                                        *)
LEMMA StartApplyingKeeps ==
    ASSUME Inv, NEW c \in Callers, StartApplying(c)
    PROVE  Inv'
  <1> DEFINE next == call[c].next
             S == {s \in Schemas : next[s] \notin {0, cur[s]}}
  <1>1. /\ UNCHANGED <<serverVars, faults, resolver, cache>>
        /\ call[c].ph = "remove" /\ call[c].todo = {} /\ GotoWith(c, "apply", S)
    BY Zenon DEF StartApplying
  <1>2. UNCHANGED <<mode, cur, agg, disk, manifest>>
    BY <1>1, Zenon DEF resolver, cache
  <1>3. "apply" \in Mutating /\ call[c].ph \in Mutating \cup {"index"} /\ call[c].ph \in Mutating
    BY <1>1, Zenon DEF Mutating
  <1>4. /\ cur \in Snapshots /\ next \in Snapshots /\ Disjoint(next)
        /\ agg = AggregateOf(Between("remove", {}, cur, next))
    BY <1>1, <1>3, Fields, Zenon DEF Inv, TypeOK, AggregateInv
  <1>5. S = Todo("apply", cur, next)
    BY Zenon DEF Todo
  <1>6. Moved(c, call[c].op, "apply", call[c].after, next, {}, S)
    BY <1>1, GoesWith, Zenon DEF Inv, TypeOK, Phases
  <1>7. agg' = AggregateOf(Between("apply", S, cur, next))
    <2> HIDE DEF S, next
    <2>1. Between("remove", {}, cur, next) = Between("apply", Todo("apply", cur, next), cur, next)
      BY <1>4, BetweenEnds, Zenon
    <2> QED  BY <1>2, <1>4, <1>5, <2>1, Zenon
  <1>8. AggregateInv'
    BY <1>2, <1>3, <1>4, <1>5, <1>6, <1>7, ChangesAggregate, Zenon
  <1>9. call' \in [Callers -> Calls] /\ ControlInv' /\ ListInv' /\ CacheInv'
    BY <1>2, <1>3, <1>6, ChangesOnlyAggregate, Zenon
  <1>10. TypeOK'
    BY <1>1, <1>9, Zenon DEF Inv, TypeOK, serverVars, resolver, cache
  <1> QED  BY <1>8, <1>9, <1>10, Zenon DEF Inv

(* applyToAggregate puts in a schema whose files nobody has. *)
LEMMA ApplyKeeps ==
    ASSUME Inv, NEW c \in Callers, ApplyToAggregate(c)
    PROVE  Inv'
  <1> DEFINE next == call[c].next
             todo == call[c].todo
             s == First(todo)
  <1>1. /\ UNCHANGED <<serverVars, faults, mode, cur, parents, ancestors, cache>>
        /\ call[c].ph = "apply" /\ todo # {}
        /\ agg' = [p \in Paths |-> IF p \in Files[s][next[s]] THEN <<s, next[s]>> ELSE agg[p]]
        /\ GotoWith(c, "apply", todo \ {s})
    BY Zenon DEF ApplyToAggregate
  <1>2. "apply" \in Mutating /\ call[c].ph \in Mutating
    BY <1>1, Zenon DEF Mutating
  <1>3. /\ cur \in Snapshots /\ next \in Snapshots /\ Disjoint(cur) /\ Disjoint(next)
        /\ todo \subseteq Todo("apply", cur, next)
        /\ agg = AggregateOf(Between("apply", todo, cur, next))
    BY <1>1, <1>2, Fields, Zenon DEF Inv, TypeOK, AggregateInv
  <1>4. s \in todo
    <2>1. todo \subseteq Schemas
      BY <1>3, Zenon DEF Todo
    <2> QED  BY <1>1, <2>1, FirstIn, Zenon
  <1> HIDE DEF s
  <1>5. agg' = AggregateOf(Between("apply", todo \ {s}, cur, next))
    <2> HIDE DEF next, todo
    <2>1. /\ cur \in Snapshots /\ next \in Snapshots /\ Disjoint(cur) /\ Disjoint(next)
          /\ todo \subseteq Todo("apply", cur, next)
      BY <1>3, Zenon
    <2>2. AggregateOf(Between("apply", todo \ {s}, cur, next)) =
              [p \in Paths |-> IF p \in Files[s][next[s]] THEN <<s, next[s]>>
                               ELSE AggregateOf(Between("apply", todo, cur, next))[p]]
      BY <1>4, <2>1, ApplyBetween
    <2> QED  BY <1>1, <1>3, <2>2, Zenon
  <1>6. todo \ {s} \subseteq Schemas /\ todo \ {s} \subseteq Todo("apply", cur, next)
    BY <1>3, Zenon DEF Todo
  <1>7. Moved(c, call[c].op, "apply", call[c].after, next, {}, todo \ {s})
    BY <1>1, <1>6, GoesWith, Zenon DEF Inv, TypeOK, Phases
  <1>8. AggregateInv'
    BY <1>1, <1>2, <1>3, <1>5, <1>6, <1>7, ChangesAggregate, Zenon
  <1>9. call' \in [Callers -> Calls] /\ ControlInv' /\ ListInv' /\ CacheInv'
    BY <1>1, <1>2, <1>7, ChangesOnlyAggregate, Zenon DEF cache
  <1>10. agg' \in [Paths -> (Schemas \X (1..MaxVersion)) \cup {None}]
    BY <1>2, <1>3, <1>5, BetweenSound, AggregateType, Zenon
  <1>11. TypeOK'
    BY <1>1, <1>9, <1>10, Zenon DEF Inv, TypeOK, serverVars, cache
  <1> QED  BY <1>8, <1>9, <1>11, Zenon DEF Inv

(* When all is applied the aggregate is that of the new snapshot, and the  *)
(* swap makes them agree.                                                  *)
LEMMA StoreSnapshotKeeps ==
    ASSUME Inv, NEW c \in Callers, StoreSnapshot(c)
    PROVE  Inv'
  <1> DEFINE next == call[c].next
  <1>1. /\ UNCHANGED <<serverVars, faults, agg, ancestors, cache>>
        /\ call[c].ph = "apply" /\ call[c].todo = {} /\ Goto(c, "snap")
        /\ cur' = next /\ mode' = "live" /\ parents' = Chain
    BY Zenon DEF StoreSnapshot
  <1>2. call[c].ph \in Mutating /\ call[c].ph \in Mutating \cup {"index"}
    BY <1>1, Zenon DEF Mutating
  <1>3. /\ cur \in Snapshots /\ next \in Snapshots /\ Disjoint(next)
        /\ agg = AggregateOf(Between("apply", {}, cur, next))
    BY <1>1, <1>2, Fields, Zenon DEF Inv, TypeOK, AggregateInv
  <1>4. agg = AggregateOf(next)
    BY <1>3, BetweenEnds, Zenon
  <1>5. Moved(c, call[c].op, "snap", call[c].after, next, call[c].window, call[c].todo)
    BY <1>1, Goes, Zenon DEF Inv, TypeOK, Phases
  <1>6. \A d \in Callers : d # c => call'[d] = call[d] /\ call[d].ph \notin Mutating
    BY <1>2, <1>5, Alone, Zenon DEF Moved, Inv, TypeOK
  <1>7. call'[c].ph = "snap" /\ call'[c].op = call[c].op
    BY <1>5, Zenon DEF Moved
  <1>8. TypeOK'
    <2>1. call' \in [Callers -> Calls]
      BY <1>5, Zenon DEF Moved
    <2>2. {parents, ancestors}' \subseteq {Chain, Reversed(Chain), << >>}
      BY <1>1, Zenon DEF Inv, TypeOK
    <2>3. mode' \in {"down", "live", "stale"}
      BY <1>1, Zenon
    <2> QED  BY <1>1, <1>3, <2>1, <2>2, <2>3, Zenon DEF Inv, TypeOK, serverVars, cache
  <1>9. ControlInv'
    <2>1. ASSUME NEW d \in Callers, d # c, call[d].op = "new"
          PROVE  call[d].ph \notin Mutating \cup {"list", "fetch", "index", "cache"}
      <3>1. d = "user" /\ c = "loop"
        BY <2>1, Zenon DEF Inv, ControlInv, Callers
      <3>2. call[c].op = "refresh"
        <4>1. call[c].op \in {"none", "new", "refresh"}
          BY Fields, Zenon DEF Inv, TypeOK
        <4> QED  BY <1>1, <3>1, <4>1, Zenon DEF Inv, ControlInv
      <3> QED  BY <2>1, <3>2, Zenon DEF Inv, ControlInv
    <2>2. "snap" \notin Mutating \cup {"list", "fetch", "index", "cache"}
      BY Zenon DEF Mutating
    <2> QED  BY <1>1, <1>6, <1>7, <2>1, <2>2 DEF Inv, ControlInv
  <1>10. AggregateInv'
    <2>1. \A d \in Callers : call'[d].ph \notin Mutating
      BY <1>6, <1>7, Zenon DEF Mutating
    <2>2. cur' = next /\ agg' = AggregateOf(next) /\ Disjoint(next)
      BY <1>1, <1>3, <1>4, Zenon
    <2> QED  BY <2>1, <2>2, Zenon DEF AggregateInv
  <1>11. ListInv' /\ CacheInv'
    <2>1. "snap" \notin {"list", "fetch", "index", "wait", "files", "manifest"}
      BY Zenon
    <2> QED  BY <1>1, <1>5, <2>1, KeepList, KeepCache, Zenon DEF Inv, cache
  <1> QED  BY <1>8, <1>9, <1>10, <1>11, Zenon DEF Inv

(* Fetching descriptors changes nothing but the phase. *)
LEMMA FetchKeeps ==
    ASSUME Inv, NEW c \in Callers, Fetch(c)
    PROVE  Inv'
  <1>1. /\ UNCHANGED <<serverVars, faults, resolver, cache>>
        /\ call[c].ph = "fetch" /\ Goto(c, "index")
    BY Zenon DEF Fetch
  <1>2. Moved(c, call[c].op, "index", call[c].after, call[c].next, call[c].window, call[c].todo)
    BY <1>1, Goes, Zenon DEF Inv, TypeOK, Phases
  <1>3. TypeOK'
    BY <1>1, <1>2, Zenon DEF Inv, TypeOK, Moved, serverVars, resolver, cache
  <1>4. ControlInv'
    <2>1. call[c].ph # "idle" /\ (call[c].op = "new" => mode = "down")
      BY <1>1, Zenon DEF Inv, ControlInv
    <2>2. "index" # "idle" /\ "index" # "cache"
      BY Zenon
    <2> QED  BY <1>1, <1>2, <2>1, <2>2, KeepControl, Zenon DEF Inv, resolver
  <1>5. AggregateInv'
    <2>1. call[c].ph \notin Mutating /\ "index" \notin Mutating
      BY <1>1, Zenon DEF Mutating
    <2> QED  BY <1>1, <1>2, <2>1, KeepAggregate, Zenon DEF Inv, resolver
  <1>6. ListInv'
    <2>1. \A d \in Callers : d # c => call'[d] = call[d]
      BY <1>2, Zenon DEF Moved
    <2>2. /\ call'[c].ph = "index" /\ call'[c].next = call[c].next
          /\ call'[c].window = call[c].window
      BY <1>2, Zenon DEF Moved
    <2> QED  BY <1>1, <2>1, <2>2 DEF Inv, ListInv
  <1>7. CacheInv'
    <2>1. "index" \notin {"wait", "files", "manifest"}
      BY Zenon
    <2> QED  BY <1>1, <1>2, <2>1, KeepCache, Zenon DEF Inv, cache
  <1> QED  BY <1>3, <1>4, <1>5, <1>6, <1>7, Zenon DEF Inv

(* A failed remote call and a failed write end the call. *)
LEMMA FailKeeps ==
    ASSUME Inv, NEW c \in Callers, Fail(c) \/ FailWrite(c)
    PROVE  Inv'
  <1>1. /\ UNCHANGED <<serverVars, resolver, cache>>
        /\ faults' = faults + 1 /\ faults < MaxFaults
    BY Zenon DEF Fail, FailWrite
  <1>2. UNCHANGED <<mode, cur, agg, disk, manifest>>
    BY <1>1, Zenon DEF resolver, cache
  <1>3. /\ call' \in [Callers -> Calls]
        /\ ControlInv' /\ AggregateInv' /\ ListInv' /\ CacheInv'
    <2>1. CASE Fail(c)
      <3>1. GiveUp(c) /\ call[c].ph \in {"list", "fetch", "index"}
        BY <2>1, Zenon DEF Fail
      <3> QED  BY <1>2, <3>1, GiveUpKeeps, Zenon
    <2>2. CASE FailWrite(c)
      <3>1. Return(c) /\ call[c].ph \notin Mutating
        BY <2>2, Zenon DEF FailWrite, Saving, Mutating
      <3> QED  BY <1>2, <3>1, ReturnKeeps, Zenon
    <2> QED  BY <2>1, <2>2, Zenon
  <1>4. faults' \in 0..MaxFaults
    BY <1>1, ClientAssumption DEF Inv, TypeOK
  <1>5. TypeOK'
    BY <1>1, <1>3, <1>4, Zenon DEF Inv, TypeOK, serverVars, resolver, cache
  <1> QED  BY <1>3, <1>5, Zenon DEF Inv

(* A call that saves leaves the Resolver and the listings alone. *)
LEMMA SaveKeeps ==
    ASSUME Inv, NEW c \in Callers, call[c].ph \in Saving \cup {"snap", "wait"},
           NEW ph \in Saving \cup {"wait"}, NEW next, NEW window, NEW todo,
           Moved(c, call[c].op, ph, call[c].after, next, window, todo),
           UNCHANGED <<mode, cur, agg>>
    PROVE  call' \in [Callers -> Calls] /\ ControlInv' /\ AggregateInv' /\ ListInv'
  <1>1. /\ call[c].ph \notin Mutating /\ call[c].ph # "idle" /\ ph # "idle" /\ ph # "cache"
        /\ ph \notin Mutating \cup {"list", "fetch", "index", "cache"}
    BY Zenon DEF Mutating, Saving
  <1>2. ph \notin Mutating /\ ph \notin {"list", "fetch", "index"}
    BY <1>1, Zenon
  <1>3. ControlInv'
    BY <1>1, KeepControl, Zenon DEF Inv
  <1>4. AggregateInv'
    BY <1>1, <1>2, KeepAggregate, Zenon DEF Inv
  <1>5. ListInv'
    BY <1>2, KeepList, Zenon DEF Inv
  <1> QED  BY <1>3, <1>4, <1>5, Zenon DEF Moved

(* The snapshot that is read to be saved has no collisions. *)
LEMMA LoadSnapshotKeeps ==
    ASSUME Inv, NEW c \in Callers, LoadSnapshot(c)
    PROVE  Inv'
  <1>1. /\ UNCHANGED <<serverVars, faults, mode, cur, agg, parents, cache>>
        /\ call[c].ph = "snap"
        /\ ancestors' = IF call[c].op = "new" THEN Reversed(Chain) ELSE ancestors
    BY Zenon DEF LoadSnapshot
  <1>2. UNCHANGED <<disk, manifest>>
    BY <1>1, Zenon DEF cache
  <1>3. SUFFICES /\ call' \in [Callers -> Calls]
                 /\ ControlInv' /\ AggregateInv' /\ ListInv' /\ CacheInv'
    <2>1. {parents, ancestors}' \subseteq {Chain, Reversed(Chain), << >>}
      BY <1>1, Zenon DEF Inv, TypeOK
    <2> QED  BY <1>1, <2>1, Zenon DEF Inv, TypeOK, serverVars, cache
  <1>4. CASE cur = Empty
    <2>1. Return(c) /\ call[c].ph \notin Mutating
      BY <1>1, <1>4, Zenon DEF LoadSnapshot, Mutating
    <2> QED  BY <1>1, <1>2, <2>1, ReturnKeeps, Zenon
  <1>5. CASE cur # Empty
    <2>1. Moved(c, call[c].op, "wait", call[c].after, cur, call[c].window, call[c].todo)
      BY <1>5, Reads, Zenon DEF LoadSnapshot, Inv, TypeOK
    <2>2. call' \in [Callers -> Calls] /\ ControlInv' /\ AggregateInv' /\ ListInv'
      <3>1. call[c].ph \in Saving \cup {"snap", "wait"} /\ "wait" \in Saving \cup {"wait"}
        BY <1>1, Zenon
      <3> QED  BY <1>1, <2>1, <3>1, SaveKeeps, Zenon
    <2>3. CacheInv'
      <3>1. \A d \in Callers : d # c => call'[d] = call[d]
        BY <2>1, Zenon DEF Moved
      <3>2. call'[c].ph = "wait" /\ call'[c].next = cur
        BY <2>1, Zenon DEF Moved
      <3>3. Disjoint(cur)
        BY Zenon DEF Inv, AggregateInv
      <3>4. CacheLoadable'
        BY <1>2, Zenon DEF Inv, CacheInv, CacheLoadable
      <3> QED  BY <1>2, <1>5, <3>1, <3>2, <3>3, <3>4 DEF Inv, CacheInv
    <2> QED  BY <2>2, <2>3, Zenon
  <1> QED  BY <1>4, <1>5, Zenon

(* The writer has every schema of its snapshot to do. *)
LEMMA LockCacheKeeps ==
    ASSUME Inv, NEW c \in Callers, LockCache(c)
    PROVE  Inv'
  <1> DEFINE S == {s \in Schemas : call[c].next[s] # 0}
  <1>1. /\ UNCHANGED <<serverVars, faults, resolver, cache>>
        /\ call[c].ph = "wait" /\ GotoWith(c, "files", S)
    BY Zenon DEF LockCache
  <1>2. UNCHANGED <<mode, cur, agg, disk, manifest>>
    BY <1>1, Zenon DEF resolver, cache
  <1>3. Moved(c, call[c].op, "files", call[c].after, call[c].next, {}, S)
    BY <1>1, GoesWith, Zenon DEF Inv, TypeOK, Phases
  <1>4. call' \in [Callers -> Calls] /\ ControlInv' /\ AggregateInv' /\ ListInv'
    <2>1. call[c].ph \in Saving \cup {"snap", "wait"} /\ "files" \in Saving \cup {"wait"}
      BY <1>1, Zenon DEF Saving
    <2> HIDE DEF S
    <2> QED  BY <1>2, <1>3, <2>1, SaveKeeps, Zenon
  <1>5. CacheInv'
    <2>1. \A d \in Callers : d # c => call'[d] = call[d]
      BY <1>3, Zenon DEF Moved
    <2>2. call'[c].ph = "files" /\ call'[c].next = call[c].next /\ call'[c].todo = S
      BY <1>3, Zenon DEF Moved
    <2>3. Disjoint(call[c].next) /\ call[c].next # Empty
      BY <1>1, Zenon DEF Inv, CacheInv
    <2>4. S # {}
      <3>1. call[c].next \in Snapshots
        BY Fields, Zenon DEF Inv, TypeOK
      <3> QED  BY <2>3, <3>1, Zenon DEF Snapshots, Empty
    <2>5. CacheLoadable'
      BY <1>2, Zenon DEF Inv, CacheInv, CacheLoadable
    <2> QED  BY <1>2, <2>1, <2>2, <2>3, <2>4, <2>5 DEF Inv, CacheInv
  <1>6. TypeOK'
    BY <1>1, <1>4, Zenon DEF Inv, TypeOK, serverVars, resolver, cache
  <1> QED  BY <1>4, <1>5, <1>6, Zenon DEF Inv

(* A file is written, and what the manifest lists stays on disk. *)
LEMMA WriteFileKeeps ==
    ASSUME Inv, NEW c \in Callers, WriteFile(c)
    PROVE  Inv'
  <1> DEFINE next == call[c].next
             s == First(call[c].todo)
             rest == call[c].todo \ {s}
             ph == IF rest = {} THEN "manifest" ELSE "files"
  <1>1. /\ UNCHANGED <<serverVars, faults, resolver, manifest, saved>>
        /\ call[c].ph = "files" /\ GotoWith(c, ph, rest)
        /\ disk' = disk \cup {<<s, next[s]>>}
    BY Zenon DEF WriteFile
  <1>2. UNCHANGED <<mode, cur, agg, manifest>>
    BY <1>1, Zenon DEF resolver
  <1>3. call[c].todo \subseteq Schemas /\ next \in Snapshots
    BY Fields, Zenon DEF Inv, TypeOK
  <1>4. s \in call[c].todo /\ s \in Schemas /\ next[s] # 0
    <2>1. call[c].todo # {} /\ \A t \in call[c].todo : next[t] # 0
      BY <1>1, Zenon DEF Inv, CacheInv
    <2> QED  BY <1>3, <2>1, FirstIn, Zenon
  <1> HIDE DEF s
  <1>5. ph \in Phases /\ ph \in Saving \cup {"wait"} /\ ph \in {"files", "manifest"}
    BY Zenon DEF Phases, Saving
  <1>6. ph = "files" <=> rest # {}
    BY Zenon
  <1> HIDE DEF ph
  <1>7. Moved(c, call[c].op, ph, call[c].after, next, {}, rest)
    <2>1. rest \subseteq Schemas
      BY <1>3, Zenon
    <2> QED  BY <1>1, <1>5, <2>1, GoesWith, Zenon DEF Inv, TypeOK
  <1>8. call' \in [Callers -> Calls] /\ ControlInv' /\ AggregateInv' /\ ListInv'
    <2>1. call[c].ph \in Saving \cup {"snap", "wait"}
      BY <1>1, Zenon DEF Saving
    <2> HIDE DEF next, rest
    <2> QED  BY <1>2, <1>5, <1>7, <2>1, SaveKeeps, Zenon
  <1>9. CacheInv'
    <2>1. \A d \in Callers : d # c => call'[d] = call[d]
      BY <1>7, Zenon DEF Moved
    <2>2. call'[c].ph = ph /\ call'[c].next = next /\ call'[c].todo = rest
      BY <1>7, Zenon DEF Moved
    <2>3. Disjoint(next) /\ next # Empty
      BY <1>1, Zenon DEF Inv, CacheInv
    <2>4. \A t \in Schemas : next[t] # 0 => <<t, next[t]>> \in disk' \/ t \in rest
      <3>1. \A t \in Schemas : next[t] # 0 =>
                <<t, next[t]>> \in disk \/ t \in call[c].todo
        BY <1>1, Zenon DEF Inv, CacheInv
      <3> QED  BY <1>1, <3>1, Zenon
    <2>5. \A t \in rest : next[t] # 0
      BY <1>1, Zenon DEF Inv, CacheInv
    <2>6. disk \subseteq disk'
      BY <1>1, Zenon
    <2>7. CacheLoadable'
      BY <1>2, <2>6, Zenon DEF Inv, CacheInv, CacheLoadable
    <2> HIDE DEF next, rest
    <2>8. ASSUME NEW d \in Callers
          PROVE  /\ call'[d].ph \in {"wait", "files", "manifest"} =>
                       Disjoint(call'[d].next) /\ call'[d].next # Empty
                 /\ call'[d].ph = "files" => call'[d].todo # {}
                 /\ call'[d].ph \in {"files", "manifest"} =>
                       \A t \in Schemas : call'[d].next[t] # 0 =>
                           \/ <<t, call'[d].next[t]>> \in disk'
                           \/ call'[d].ph = "files" /\ t \in call'[d].todo
                 /\ call'[d].ph = "files" => \A t \in call'[d].todo : call'[d].next[t] # 0
      <3>1. CASE d = c
        BY <1>5, <1>6, <2>2, <2>3, <2>4, <2>5, <3>1, Zenon
      <3>2. CASE d # c
        BY <2>1, <2>6, <3>2 DEF Inv, CacheInv
      <3> QED  BY <3>1, <3>2, Zenon
    <2> QED  BY <1>2, <2>7, <2>8, Zenon DEF Inv, CacheInv
  <1>10. disk' \subseteq Schemas \X (1..MaxVersion)
    <2>1. next[s] \in 1..MaxVersion
      <3>1. next[s] \in 0..MaxVersion
        BY <1>3, <1>4, Zenon DEF Snapshots
      <3> QED  BY <1>4, <3>1, ClientAssumption
    <2>2. disk \subseteq Schemas \X (1..MaxVersion)
      BY Zenon DEF Inv, TypeOK
    <2> QED  BY <1>1, <1>4, <2>1, <2>2, SMTT(20)
  <1>11. TypeOK'
    BY <1>1, <1>8, <1>10, Zenon DEF Inv, TypeOK, serverVars, resolver
  <1> QED  BY <1>8, <1>9, <1>11, Zenon DEF Inv

(* The manifest is written when all that it lists is on disk. *)
LEMMA WriteManifestKeeps ==
    ASSUME Inv, NEW c \in Callers, WriteManifest(c)
    PROVE  Inv'
  <1> DEFINE next == call[c].next
  <1>1. /\ UNCHANGED <<serverVars, faults, resolver, disk, saved>>
        /\ call[c].ph = "manifest" /\ Goto(c, "ancestors")
        /\ manifest' = [versions |-> next, chain |-> ancestors]
    BY Zenon DEF WriteManifest
  <1>2. UNCHANGED <<mode, cur, agg, disk, ancestors>>
    BY <1>1, Zenon DEF resolver
  <1>3. next \in Snapshots /\ ancestors \in {Chain, Reversed(Chain), << >>}
    BY Fields, Zenon DEF Inv, TypeOK
  <1>4. Moved(c, call[c].op, "ancestors", call[c].after, next, call[c].window, call[c].todo)
    BY <1>1, Goes, Zenon DEF Inv, TypeOK, Phases
  <1>5. call' \in [Callers -> Calls] /\ ControlInv' /\ AggregateInv' /\ ListInv'
    <2>1. call[c].ph \in Saving \cup {"snap", "wait"} /\ "ancestors" \in Saving \cup {"wait"}
      BY <1>1, Zenon DEF Saving
    <2> QED  BY <1>2, <1>4, <2>1, SaveKeeps, Zenon
  <1>6. CacheInv'
    <2>1. \A d \in Callers : d # c => call'[d] = call[d]
      BY <1>4, Zenon DEF Moved
    <2>2. call'[c].ph = "ancestors"
      BY <1>4, Zenon DEF Moved
    <2>3. Disjoint(next) /\ \A t \in Schemas : next[t] # 0 => <<t, next[t]>> \in disk
      BY <1>1, Zenon DEF Inv, CacheInv
    <2>4. CacheLoadable'
      <3>1. manifest'.versions = next /\ disk' = disk
        BY <1>1, Zenon
      <3> QED  BY <2>3, <3>1, Zenon DEF CacheLoadable
    <2>5. manifest' \in [versions : Snapshots, chain : {Chain, Reversed(Chain), << >>}]
      BY <1>1, <1>3, Zenon
    <2> HIDE DEF next
    <2> QED  BY <1>2, <2>1, <2>2, <2>4, <2>5 DEF Inv, CacheInv
  <1>7. manifest'.versions \in Snapshots
    BY <1>1, <1>3, Zenon
  <1>8. TypeOK'
    BY <1>1, <1>5, <1>7, Zenon DEF Inv, TypeOK, serverVars, resolver
  <1> QED  BY <1>5, <1>6, <1>8, Zenon DEF Inv

(* The caches of ancestors end the call. *)
LEMMA SaveAncestorsKeeps ==
    ASSUME Inv, NEW c \in Callers, SaveAncestors(c)
    PROVE  Inv'
  <1>1. /\ UNCHANGED <<serverVars, faults, resolver, disk, manifest>>
        /\ call[c].ph = "ancestors" /\ Return(c)
    BY Zenon DEF SaveAncestors
  <1>2. UNCHANGED <<mode, cur, agg, disk, manifest>> /\ call[c].ph \notin Mutating
    BY <1>1, Zenon DEF resolver, Mutating
  <1>3. /\ call' \in [Callers -> Calls]
        /\ ControlInv' /\ AggregateInv' /\ ListInv' /\ CacheInv'
    BY <1>1, <1>2, ReturnKeeps, Zenon
  <1>4. saved' \subseteq Populated
    BY Zenon DEF SaveAncestors, Inv, TypeOK
  <1>5. TypeOK'
    BY <1>1, <1>3, <1>4, Zenon DEF Inv, TypeOK, serverVars, resolver
  <1> QED  BY <1>3, <1>5, Zenon DEF Inv

(* Turned round twice, a chain is as it was. *)
LEMMA ReversedChain ==
    ASSUME NEW x \in {Chain, Reversed(Chain), << >>}
    PROVE  Reversed(x) \in {Chain, Reversed(Chain), << >>}
  <1>1. Reversed(<< >>) = << >>
    BY DEF Reversed
  <1>2. Reversed(Reversed(Chain)) = Chain
    <2> DEFINE S == {Chain[i] : i \in DOMAIN Chain}
    <2>1. Chain \in Seq(S)
      BY ClientAssumption, Zenon
    <2> HIDE DEF S
    <2>2. Len(Chain) \in Nat /\ Chain = [i \in 1..Len(Chain) |-> Chain[i]]
      BY <2>1
    <2>3. Reversed(Chain) \in [1..Len(Chain) -> S]
      BY <2>1 DEF Reversed
    <2>4. Len(Reversed(Chain)) = Len(Chain)
      BY <2>2, <2>3 DEF Reversed
    <2>5. \A i \in 1..Len(Chain) : Reversed(Chain)[Len(Chain) + 1 - i] = Chain[i]
      BY <2>2 DEF Reversed
    <2>6. Reversed(Reversed(Chain)) =
             [i \in 1..Len(Chain) |-> Reversed(Chain)[Len(Chain) + 1 - i]]
      <3> DEFINE r == Reversed(Chain)
      <3>1. Len(r) = Len(Chain)
        BY <2>4, Zenon
      <3> HIDE DEF r
      <3>2. Reversed(r) = [i \in 1..Len(Chain) |-> r[Len(Chain) + 1 - i]]
        BY <3>1, Zenon DEF Reversed
      <3> QED  BY <3>2, Zenon DEF r
    <2> QED  BY <2>2, <2>5, <2>6, Zenon
  <1> QED  BY <1>1, <1>2, Zenon

(* An empty snapshot has no collisions. *)
LEMMA EmptyDisjoint == Disjoint(Empty)
  BY Zenon DEF Disjoint, Empty

(* With no call under way it is enough that the aggregate is that of the   *)
(* snapshot.                                                               *)
LEMMA IdleKeeps ==
    ASSUME \A c \in Callers : call'[c].ph = "idle" /\ call'[c].op = "none",
           cur' \in Snapshots, Disjoint(cur'),
           agg' = AggregateOf(cur'), UNCHANGED <<disk, manifest>>, CacheInv
    PROVE  /\ agg' \in [Paths -> (Schemas \X (1..MaxVersion)) \cup {None}]
           /\ ControlInv' /\ AggregateInv' /\ ListInv' /\ CacheInv'
  <1>1. agg' \in [Paths -> (Schemas \X (1..MaxVersion)) \cup {None}]
    BY AggregateType, Zenon
  <1>2. CacheLoadable'
    BY Zenon DEF CacheInv, CacheLoadable
  <1>3. ControlInv' /\ ListInv' /\ CacheInv'
    BY <1>2, Zenon DEF ControlInv, ListInv, CacheInv, Mutating
  <1>4. AggregateInv'
    <2>1. \A c \in Callers : call'[c].ph \notin Mutating
      BY Zenon DEF Mutating
    <2> QED  BY <2>1, Zenon DEF AggregateInv
  <1> QED  BY <1>1, <1>3, <1>4, Zenon

(* What is loaded from the cache has no collisions, and its aggregate is   *)
(* made afresh.                                                            *)
LEMMA LoadFromCacheKeeps ==
    ASSUME Inv, LoadFromCache
    PROVE  Inv'
  <1>1. /\ UNCHANGED <<serverVars, faults, cache>>
        /\ call["user"].ph = "cache" /\ Return("user") /\ "user" \in Callers
    BY Zenon DEF LoadFromCache, Callers
  <1>2. UNCHANGED <<disk, manifest>>
    BY <1>1, Zenon DEF cache
  <1>3. CASE UNCHANGED resolver
    <2>1. UNCHANGED <<mode, cur, agg, disk, manifest>>
      BY <1>2, <1>3, Zenon DEF resolver
    <2>2. call["user"].ph \notin Mutating
      BY <1>1, Zenon DEF Mutating
    <2>3. /\ call' \in [Callers -> Calls]
          /\ ControlInv' /\ AggregateInv' /\ ListInv' /\ CacheInv'
      BY <1>1, <2>1, <2>2, ReturnKeeps, Zenon
    <2>4. TypeOK'
      BY <1>1, <1>3, <2>3, Zenon DEF Inv, TypeOK, serverVars, resolver, cache
    <2> QED  BY <2>3, <2>4, Zenon DEF Inv
  <1>4. CASE ~UNCHANGED resolver
    <2>1. /\ manifest # None /\ mode' = "stale" /\ cur' = manifest.versions
          /\ agg' = AggregateOf(manifest.versions) /\ parents' = manifest.chain
          /\ ancestors' = Reversed(manifest.chain)
      BY <1>4, Zenon DEF LoadFromCache
    <2>2. manifest \in [versions : Snapshots, chain : {Chain, Reversed(Chain), << >>}]
      BY <2>1, Zenon DEF Inv, CacheInv
    <2>3. manifest.versions \in Snapshots /\ manifest.chain \in {Chain, Reversed(Chain), << >>}
      BY <2>2, Zenon
    <2>4. Disjoint(manifest.versions)
      BY <2>1, Zenon DEF Inv, CacheInv, CacheLoadable
    <2>5. call["loop"].ph = "idle" /\ call["loop"].op = "none"
      <3>1. "loop" \in Callers /\ "loop" # "user"
        BY Zenon DEF Callers
      <3>2. /\ call["user"].op \in {"none", "new", "refresh"}
            /\ call["loop"].op \in {"none", "new", "refresh"}
        BY <1>1, <3>1, Fields, Zenon DEF Inv, TypeOK
      <3>3. mode = "down"
        BY <1>1, <3>2, Zenon DEF Inv, ControlInv
      <3> QED  BY <3>1, <3>2, <3>3, Zenon DEF Inv, ControlInv
    <2>6. /\ call' \in [Callers -> Calls]
          /\ call'["user"].ph = "idle" /\ call'["user"].op = "none"
          /\ call'["loop"].ph = "idle" /\ call'["loop"].op = "none"
      <3>1. Moved("user", "none", "idle", 0, Empty, {}, {})
        BY <1>1, Returns, Zenon DEF Inv, TypeOK
      <3>2. call'["loop"] = call["loop"]
        BY <3>1, Zenon DEF Moved, Callers
      <3> QED  BY <2>5, <3>1, <3>2, Zenon DEF Moved
    <2>7. /\ agg' \in [Paths -> (Schemas \X (1..MaxVersion)) \cup {None}]
          /\ ControlInv' /\ AggregateInv' /\ ListInv' /\ CacheInv'
      <3>1. \A c \in Callers : call'[c].ph = "idle" /\ call'[c].op = "none"
        BY <2>6, Zenon DEF Callers
      <3>2. cur' \in Snapshots /\ Disjoint(cur') /\ agg' = AggregateOf(cur')
        BY <2>1, <2>3, <2>4, Zenon
      <3> QED  BY <1>2, <3>1, <3>2, IdleKeeps, Zenon DEF Inv
    <2>8. {parents, ancestors}' \subseteq {Chain, Reversed(Chain), << >>}
      <3>1. ancestors' \in {Chain, Reversed(Chain), << >>}
        BY <2>1, <2>3, ReversedChain, Zenon
      <3> QED  BY <2>1, <2>3, <3>1, Zenon
    <2>9. mode' \in {"down", "live", "stale"} /\ cur' \in Snapshots
      BY <2>1, <2>3, Zenon
    <2>10. TypeOK'
      BY <1>1, <2>6, <2>7, <2>8, <2>9, Zenon DEF Inv, TypeOK, serverVars, cache
    <2> QED  BY <2>7, <2>10, Zenon DEF Inv
  <1> QED  BY <1>3, <1>4, Zenon

(* A Resolver that is closed, or whose process dies, leaves only its cache. *)
LEMMA DownKeeps ==
    ASSUME Inv, NoResolver, UNCHANGED <<serverVars, cache>>, faults' \in 0..MaxFaults,
           call' \in [Callers -> Calls],
           \A c \in Callers : call'[c].ph = "idle" /\ call'[c].op = "none"
    PROVE  Inv'
  <1>1. /\ mode' = "down" /\ cur' = Empty /\ agg' = AggregateOf(Empty)
        /\ parents' = << >> /\ ancestors' = << >>
    BY Zenon DEF NoResolver
  <1>2. cur' \in Snapshots /\ Disjoint(cur') /\ agg' = AggregateOf(cur')
    BY <1>1, NoCallType, EmptyDisjoint, Zenon
  <1>3. UNCHANGED <<disk, manifest>>
    BY Zenon DEF cache
  <1>4. /\ agg' \in [Paths -> (Schemas \X (1..MaxVersion)) \cup {None}]
        /\ ControlInv' /\ AggregateInv' /\ ListInv' /\ CacheInv'
    BY <1>2, <1>3, IdleKeeps, Zenon DEF Inv
  <1>5. /\ {parents, ancestors}' \subseteq {Chain, Reversed(Chain), << >>}
        /\ mode' \in {"down", "live", "stale"}
    BY <1>1, Zenon
  <1>6. TypeOK'
    BY <1>2, <1>4, <1>5, Zenon DEF Inv, TypeOK, serverVars, cache
  <1> QED  BY <1>4, <1>6, Zenon DEF Inv

-----------------------------------------------------------------------------
(* The results. *)

(* The invariant holds at first. *)
LEMMA InitInv == Init => Inv
  <1> SUFFICES ASSUME Init PROVE Inv
    BY Zenon
  <1>1. \A c \in Callers : call[c] = NoCall
    BY Zenon DEF Init
  <1>2. \A c \in Callers : call[c].ph = "idle" /\ call[c].op = "none"
    BY <1>1 DEF NoCall
  <1>3. cur = Empty /\ agg = AggregateOf(Empty) /\ manifest = None /\ disk = {}
    BY Zenon DEF Init
  <1>4. server \in Snapshots
    BY ClientAssumption DEF Init, Snapshots
  <1>5. agg \in [Paths -> (Schemas \X (1..MaxVersion)) \cup {None}]
    BY <1>3, NoCallType, EmptyDisjoint, AggregateType, Zenon
  <1>6. call \in [Callers -> Calls]
    BY NoCallType, Zenon DEF Init
  <1>7. TypeOK
    BY <1>3, <1>4, <1>5, <1>6, NoCallType, ClientAssumption DEF Init, TypeOK
  <1>8. ControlInv /\ ListInv
    BY <1>2, Zenon DEF ControlInv, ListInv, Mutating
  <1>9. AggregateInv
    <2>1. \A c \in Callers : call[c].ph \notin Mutating
      BY <1>2, Zenon DEF Mutating
    <2> QED  BY <1>3, <2>1, EmptyDisjoint, Zenon DEF AggregateInv
  <1>10. CacheInv
    BY <1>2, <1>3, Zenon DEF CacheInv, CacheLoadable
  <1> QED  BY <1>7, <1>8, <1>9, <1>10, Zenon DEF Inv

(* Every step keeps it. *)
LEMMA NextInv == Inv /\ [Next]_vars => Inv'
  <1> SUFFICES ASSUME Inv, [Next]_vars PROVE Inv'
    BY Zenon
  <1>1. CASE \E new \in Snapshots : Change(new)
    BY <1>1, ChangeKeeps, Zenon
  <1>2. CASE Dial
    <2>1. call["user"].ph = "idle" /\ "user" \in Callers
      BY <1>2, Zenon DEF Dial, Idle, Callers
    <2>2. "new" \in {"new", "refresh"} /\ "new" # "refresh"
      BY Zenon
    <2> QED  BY <1>2, <2>1, <2>2, BeginKeeps, Zenon DEF Dial
  <1>3. CASE LoadFromCache
    BY <1>3, LoadFromCacheKeeps, Zenon
  <1>4. ASSUME NEW c \in Callers, Refresh(c) PROVE Inv'
    <2>1. "refresh" \in {"new", "refresh"} /\ "refresh" # "new"
      BY Zenon
    <2> QED  BY <1>4, <2>1, BeginKeeps, Zenon DEF Refresh, Idle
  <1>5. ASSUME NEW c \in Callers, Step(c) PROVE Inv'
    BY <1>5, ListPageKeeps, FetchKeeps, BuildNameIndexKeeps, RemoveKeeps,
       StartApplyingKeeps, ApplyKeeps, StoreSnapshotKeeps, LoadSnapshotKeeps,
       LockCacheKeeps, WriteFileKeeps, WriteManifestKeeps, SaveAncestorsKeeps, Zenon DEF Step
  <1>6. CASE Close
    <2>1. /\ NoResolver /\ UNCHANGED <<serverVars, cache>> /\ faults' = faults
          /\ Return("loop") /\ call["user"].ph = "idle"
      BY <1>6, Zenon DEF Close, Idle
    <2>2. "loop" \in Callers /\ "user" \in Callers /\ "loop" # "user"
      BY Zenon DEF Callers
    <2>3. Moved("loop", "none", "idle", 0, Empty, {}, {})
      BY <2>1, <2>2, Returns, Zenon DEF Inv, TypeOK
    <2>4. call'["user"] = call["user"] /\ call["user"].op = "none"
      <3>1. call["user"].op = "none"
        BY <2>1, <2>2, Zenon DEF Inv, ControlInv
      <3> QED  BY <2>2, <2>3, <3>1, Zenon DEF Moved
    <2>5. /\ call' \in [Callers -> Calls]
          /\ \A c \in Callers : call'[c].ph = "idle" /\ call'[c].op = "none"
      BY <2>1, <2>3, <2>4, Zenon DEF Moved, Callers
    <2>6. faults' \in 0..MaxFaults
      BY <2>1, Zenon DEF Inv, TypeOK
    <2> QED  BY <2>1, <2>5, <2>6, DownKeeps, Zenon
  <1>7. CASE Crash
    <2>1. /\ NoResolver /\ UNCHANGED <<serverVars, cache>>
          /\ call' = [c \in Callers |-> NoCall]
      BY <1>7, Zenon DEF Crash
    <2>2. /\ call' \in [Callers -> Calls]
          /\ \A c \in Callers : call'[c].ph = "idle" /\ call'[c].op = "none"
      BY <2>1, NoCallType, Zenon DEF NoCall
    <2>3. faults' \in 0..MaxFaults
      BY <1>7, ClientAssumption DEF Crash, Inv, TypeOK
    <2> QED  BY <2>1, <2>2, <2>3, DownKeeps, Zenon
  <1>8. CASE UNCHANGED vars
    BY <1>8 DEF vars, Inv, TypeOK, ControlInv, AggregateInv, ListInv, CacheInv, CacheLoadable
  <1> QED  BY <1>1, <1>2, <1>3, <1>4, <1>5, <1>6, <1>7, <1>8, FailKeeps, Zenon DEF Next

(* The invariant holds in every state of the Resolver. *)
THEOREM InvHolds == Spec => []Inv
  BY InitInv, NextInv, PTL DEF Spec

(* The variables keep their types: the page token is a schema, the phases, *)
(* the entries of the aggregate and the files of the cache are what the    *)
(* client's code takes them for.                                           *)
THEOREM TypeCorrect == Spec => []TypeOK
  <1>1. Inv => TypeOK
    BY Zenon DEF Inv
  <1> QED  BY <1>1, InvHolds, PTL

(* applyToAggregate and removeFromAggregate, applied diff by diff for as   *)
(* long as the Resolver lives, leave the aggregate that the snapshot alone *)
(* would give.                                                             *)
THEOREM AggregateCorrect == Spec => []AggregateMatchesSnapshot
  <1>1. Inv => AggregateMatchesSnapshot
    BY Zenon DEF Inv, AggregateInv, AggregateMatchesSnapshot, Mutating
  <1> QED  BY <1>1, InvHolds, PTL

(* A lookup during a Refresh gives the answer of the old snapshot or of    *)
(* the new one, and what the Refresh does not replace is never missing.    *)
THEOREM LookupsCorrect == Spec => []LookupsOldOrNew
  <1>1. ASSUME Inv PROVE LookupsOldOrNew
    <2> SUFFICES ASSUME NEW c \in Callers, call[c].ph \in {"remove", "apply"}
                 PROVE  /\ \A p \in Paths :
                              FindMessageByName(p) \in
                                {IF snap[p] # None THEN snap[p] ELSE Fallback(p) :
                                   snap \in {AggregateOf(cur), AggregateOf(call[c].next)}}
                        /\ \A s \in Schemas : cur[s] # 0 /\ cur[s] = call[c].next[s] =>
                              Files[s][cur[s]] \subseteq RangeMessages
      BY Zenon DEF LookupsOldOrNew
    <2> DEFINE next == call[c].next
               B == Between(call[c].ph, call[c].todo, cur, next)
    <2>1. /\ cur \in Snapshots /\ next \in Snapshots /\ Disjoint(cur) /\ Disjoint(next)
          /\ call[c].todo \subseteq Todo(call[c].ph, cur, next) /\ agg = AggregateOf(B)
          /\ call[c].ph \in Mutating
      BY <1>1, Fields, Zenon DEF Inv, TypeOK, AggregateInv, Mutating
    <2>2. /\ B \in Snapshots /\ Disjoint(B)
          /\ \A s \in Schemas : B[s] \in {0, IF call[c].ph = "remove" THEN cur[s] ELSE next[s]}
      BY <2>1, BetweenSound, Zenon
    <2>3. \A s \in Schemas : cur[s] = next[s] => B[s] = cur[s]
      BY <2>1, Zenon DEF Between, Todo
    <2> HIDE DEF B
    <2>4. ASSUME NEW p \in Paths, agg[p] # None
          PROVE  agg[p] \in {AggregateOf(cur)[p], AggregateOf(next)[p]}
      <3>1. PICK s \in Schemas : B[s] # 0 /\ p \in Files[s][B[s]] /\ agg[p] = <<s, B[s]>>
        BY <2>1, <2>2, <2>4, AggregateCases, Zenon
      <3>2. B[s] = cur[s] \/ B[s] = next[s]
        BY <2>2, <3>1, Zenon
      <3>3. CASE B[s] = cur[s]
        BY <2>1, <3>1, <3>3, AggregateAt
      <3>4. CASE B[s] = next[s]
        BY <2>1, <3>1, <3>4, AggregateAt, Zenon
      <3> QED  BY <3>2, <3>3, <3>4, Zenon
    <2>5. ASSUME NEW p \in Paths
          PROVE  FindMessageByName(p) \in
                   {IF snap[p] # None THEN snap[p] ELSE Fallback(p) :
                      snap \in {AggregateOf(cur), AggregateOf(next)}}
      <3> DEFINE o == AggregateOf(cur)
                 n == AggregateOf(next)
      <3>1. FindMessageByName(p) = IF o[p] # None THEN o[p]
                                   ELSE IF agg[p] # None THEN agg[p] ELSE Fallback(p)
        BY Zenon DEF FindMessageByName, FindFileByPath
      <3>2. agg[p] # None => agg[p] = o[p] \/ agg[p] = n[p]
        BY <2>4, Zenon
      <3> HIDE DEF o, n
      <3>3. \/ FindMessageByName(p) = IF o[p] # None THEN o[p] ELSE Fallback(p)
            \/ FindMessageByName(p) = IF n[p] # None THEN n[p] ELSE Fallback(p)
        BY <3>1, <3>2, Zenon
      <3>4. FindMessageByName(p) \in
              {IF snap[p] # None THEN snap[p] ELSE Fallback(p) : snap \in {o, n}}
        BY <3>3, Zenon
      <3> QED  BY <3>4, Zenon DEF o, n
    <2>6. ASSUME NEW s \in Schemas, cur[s] # 0, cur[s] = next[s],
                 NEW p \in Files[s][cur[s]]
          PROVE  p \in RangeMessages
      <3>1. B[s] = cur[s] /\ B[s] # 0 /\ p \in Files[s][B[s]]
        BY <2>3, <2>6, Zenon
      <3>2. p \in Paths /\ agg[p] = <<s, B[s]>>
        BY <2>1, <2>2, <3>1, AggregateAt, Zenon
      <3>3. <<s, B[s]>> # None
        BY <2>2, <3>1, SomeEntry, Zenon
      <3> QED  BY <3>2, <3>3, Zenon DEF RangeMessages
    <2> QED  BY <2>5, <2>6, Zenon
  <1> QED  BY <1>1, InvHolds, PTL

(* Each version that a listing of several pages installs was current at    *)
(* some moment of the listing, and a schema that was there throughout is   *)
(* not passed over, whatever the size of a page.                           *)
THEOREM ListingCorrect == Spec => []SnapshotConsistent
  <1>1. Inv => SnapshotConsistent
    BY Zenon DEF Inv, ListInv, SnapshotConsistent
  <1> QED  BY <1>1, InvHolds, PTL

(* The manifest never lists what is not on disk or cannot be loaded, with  *)
(* two callers saving, failed writes and crashes at any point.             *)
THEOREM CacheCorrect == Spec => []CacheLoadable
  <1>1. Inv => CacheLoadable
    BY Zenon DEF Inv, CacheInv
  <1> QED  BY <1>1, InvHolds, PTL
=============================================================================
