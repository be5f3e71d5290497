--------------------------- MODULE CompileProofs ---------------------------
(***************************************************************************)
(* Proofs about the compilation of a version, for any paths, texts,        *)
(* schemas and namespaces: what Compile makes of the resolver chain and of *)
(* the imports, where the walk up the hierarchy leads, how many answers a  *)
(* name can have, and that the steps of a publish keep SourceInv, which    *)
(* says what a stored version was compiled from.                           *)
(***************************************************************************)
EXTENDS LineageInv, FiniteSetTheorems, TLAPS

-----------------------------------------------------------------------------
(* Closure. *)

(* A non-empty set of numbers has a least one. *)
LEMMA Least ==
  ASSUME NEW S, S \subseteq Nat, S # {}
  PROVE  \E x \in S : \A y \in S : x <= y
<1>1. PICK x \in S : \A y \in S : <<y, x>> \notin OpToRel(<, Nat)
  BY NatLessThanWellFounded, WFMin, Zenon
<1>2. ASSUME NEW y \in S PROVE x <= y
  <2>1. ~(y < x)
    BY <1>1, Zenon DEF OpToRel
  <2> QED
    BY <2>1
<1> QED
  BY <1>2, Zenon

(* R and what it imports. *)
Wider(R, text) == R \cup UNION {Imports[text[f]] : f \in R \cap DOMAIN text}

(* The first k turns of the closure of S. *)
Spread(w, S, text, k) ==
    w = [d \in 0..k |-> IF d = 0 THEN S ELSE Wider(w[d - 1], text)]

(* They can be computed, as many as one likes. *)
LEMMA SpreadExists ==
  ASSUME NEW S, NEW text, NEW k \in Nat
  PROVE  \E w : Spread(w, S, text, k)
<1> DEFINE Bad == {j \in Nat : ~ \E w : Spread(w, S, text, j)}
<1>1. SUFFICES Bad = {}
  BY Zenon
<1>2. SUFFICES ASSUME Bad # {} PROVE FALSE
  BY Zenon
<1>3. PICK j \in Bad : \A i \in Bad : j <= i
  BY <1>2, Least, Zenon
<1>4. j # 0
  <2>1. Spread([d \in 0..0 |-> S], S, text, 0)
    BY DEF Spread
  <2> QED
    BY <2>1, Zenon
<1>5. j \in Nat /\ j - 1 \in Nat /\ j - 1 \notin Bad
  <2> HIDE DEF Bad
  <2>1. j \in Nat
    BY Zenon DEF Bad
  <2>2. j - 1 \in Nat /\ ~(j <= j - 1)
    BY <1>4, <2>1
  <2> QED
    BY <1>3, <2>1, <2>2, Zenon
<1>6. PICK w : Spread(w, S, text, j - 1)
  BY <1>5, Zenon
<1> DEFINE u == [d \in 0..j |-> IF d = 0 THEN S ELSE Wider(w[d - 1], text)]
<1>7. ASSUME NEW d \in 0..j, d # 0 PROVE u[d - 1] = w[d - 1]
  <2>1. d - 1 \in 0..(j - 1) /\ d - 1 \in 0..j
    BY <1>5, <1>7
  <2> QED
    BY <1>6, <2>1, Zenon DEF Spread
<1>8. Spread(u, S, text, j)
  BY <1>7, Zenon DEF Spread
<1> QED
  BY <1>3, <1>8, Zenon

(* There are finitely many paths. *)
LEMMA PathCount == Cardinality(Paths) \in Nat /\ IsFiniteSet(Paths)
  BY LineageAssumption, FS_CardinalityType, Zenon

(* Closure is the last turn. *)
LEMMA ClosureSpread ==
  ASSUME NEW S, NEW text
  PROVE  \E w : /\ Spread(w, S, text, Cardinality(Paths))
                /\ Closure(S, text) = w[Cardinality(Paths)]
<1> DEFINE w == CHOOSE f : Spread(f, S, text, Cardinality(Paths))
<1>1. Spread(w, S, text, Cardinality(Paths))
  BY PathCount, SpreadExists, Zenon
<1>2. Closure(S, text) = w[Cardinality(Paths)]
  BY Zenon DEF Closure, Spread, Wider
<1> HIDE DEF w
<1> QED
  BY <1>1, <1>2, Zenon

(* A turn loses nothing, and once one adds nothing none does. *)
LEMMA SpreadGrows ==
  ASSUME NEW S, NEW text, NEW k \in Nat, NEW w, Spread(w, S, text, k), NEW d \in 0..k
  PROVE  \A e \in d..k : /\ w[d] \subseteq w[e]
                         /\ w[d] = Wider(w[d], text) => w[e] = w[d]
<1> DEFINE Good(e) == w[d] \subseteq w[e] /\ (w[d] = Wider(w[d], text) => w[e] = w[d])
           Bad == {e \in d..k : ~Good(e)}
<1>1. SUFFICES Bad = {}
  BY Zenon
<1>2. SUFFICES ASSUME Bad # {} PROVE FALSE
  BY Zenon
<1>3. Bad \subseteq Nat
  OBVIOUS
<1>4. PICK e \in Bad : \A i \in Bad : e <= i
  BY <1>2, <1>3, Least, Zenon
<1>5. e \in d..k /\ ~Good(e)
  BY Zenon
<1> HIDE DEF Bad
<1>6. e # d
  BY <1>5, Zenon
<1>7. e - 1 \in d..k /\ e # 0 /\ e \in 0..k /\ ~(e <= e - 1)
  BY <1>5, <1>6
<1>8. Good(e - 1)
  BY <1>4, <1>7, Zenon DEF Bad
<1>9. w[e] = Wider(w[e - 1], text)
  BY <1>7, Zenon DEF Spread
<1> QED
  BY <1>5, <1>8, <1>9, Zenon DEF Wider

(* Closure begins with S, and is closed when all of it is found. *)
LEMMA ClosureClosed ==
  ASSUME NEW S, NEW text, DOMAIN text \subseteq Paths, text \in [DOMAIN text -> Texts],
         Closure(S, text) \subseteq DOMAIN text
  PROVE  /\ S \subseteq Closure(S, text)
         /\ \A f \in Closure(S, text) : Imports[text[f]] \subseteq Closure(S, text)
<1> DEFINE N == Cardinality(Paths)
<1>1. PICK w : Spread(w, S, text, N) /\ Closure(S, text) = w[N]
  BY ClosureSpread, Zenon
<1>2. N \in Nat /\ IsFiniteSet(Paths) /\ 0 \in 0..N /\ N \in 0..N /\ N \in 0..N
  BY PathCount
<1> HIDE DEF N
<1>3. S \subseteq w[N]
  <2>1. w[0] = S
    BY <1>1, <1>2, Zenon DEF Spread
  <2>2. w[0] \subseteq w[N]
    BY <1>1, <1>2, SpreadGrows, Zenon
  <2> QED
    BY <2>1, <2>2, Zenon
<1>4. w[N] \subseteq DOMAIN text /\ w[N] \subseteq Paths
  BY <1>1, Zenon
<1>5. Wider(w[N], text) \subseteq Paths
  <2> SUFFICES ASSUME NEW f \in w[N] PROVE Imports[text[f]] \subseteq Paths
    BY <1>4, Zenon DEF Wider
  <2>1. text[f] \in Texts
    BY <1>4, Zenon
  <2> QED
    BY <2>1, LineageAssumption, Zenon
<1>6. w[N] = Wider(w[N], text)
  <2> SUFFICES ASSUME w[N] # Wider(w[N], text) PROVE FALSE
    BY Zenon
  <2>1. ASSUME NEW d \in 0..N
        PROVE  w[d] \subseteq Paths /\ w[d] # Wider(w[d], text)
    <3>1. N \in d..N
      BY <1>2
    <3>2. w[d] \subseteq w[N] /\ (w[d] = Wider(w[d], text) => w[N] = w[d])
      <4>1. \A e \in d..N : /\ w[d] \subseteq w[e]
                            /\ w[d] = Wider(w[d], text) => w[e] = w[d]
        BY <1>1, <1>2, SpreadGrows
      <4> QED
        BY <3>1, <4>1, Zenon
    <3> QED
      BY <1>4, <3>2, Zenon
  <2> DEFINE Bad == {d \in 0..N : ~(d <= Cardinality(w[d]))}
  <2>2. Bad = {}
    <3> SUFFICES ASSUME Bad # {} PROVE FALSE
      BY Zenon
    <3>1. Bad \subseteq Nat
      OBVIOUS
    <3>2. PICK d \in Bad : \A i \in Bad : d <= i
      BY <3>1, Least, Zenon
    <3>3. d \in 0..N /\ ~(d <= Cardinality(w[d]))
      BY Zenon
    <3>4. IsFiniteSet(w[d]) /\ Cardinality(w[d]) \in Nat
      BY <1>2, <2>1, <3>3, FS_Subset, FS_CardinalityType, Zenon
    <3> HIDE DEF Bad
    <3>5. d # 0
      BY <3>3, <3>4
    <3>6. d - 1 \in 0..N /\ ~(d <= d - 1)
      BY <1>2, <3>3, <3>5
    <3>7. d - 1 <= Cardinality(w[d - 1])
      BY <3>2, <3>6, Zenon DEF Bad
    <3>8. w[d] = Wider(w[d - 1], text)
      BY <1>1, <3>3, <3>5, Zenon DEF Spread
    <3>9. w[d - 1] \in SUBSET w[d] /\ w[d - 1] # w[d]
      <4>1. w[d - 1] # Wider(w[d - 1], text)
        BY <2>1, <3>6, Zenon
      <4> QED
        BY <4>1, <3>8, Zenon DEF Wider
    <3>10. /\ Cardinality(w[d - 1]) <= Cardinality(w[d])
           /\ Cardinality(w[d]) # Cardinality(w[d - 1])
      BY <3>4, <3>9, FS_Subset, Zenon
    <3>11. Cardinality(w[d - 1]) \in Nat
      <4>1. IsFiniteSet(w[d - 1])
        BY <3>4, <3>9, FS_Subset, Zenon
      <4> QED
        BY <4>1, FS_CardinalityType, Zenon
    <3> QED
      BY <3>3, <3>4, <3>7, <3>10, <3>11
  <2>3. N <= Cardinality(w[N])
    BY <1>2, <2>2, Zenon
  <2>4. Cardinality(w[N]) \in Nat /\ Cardinality(w[N]) <= N /\ (N = Cardinality(w[N]) => Paths = w[N])
    <3>1. w[N] \in SUBSET Paths
      BY <1>4, Zenon
    <3>2. IsFiniteSet(w[N])
      BY <1>2, <3>1, FS_Subset, Zenon
    <3> QED
      BY <1>2, <3>1, <3>2, FS_Subset, FS_CardinalityType, Zenon DEF N
  <2>5. Paths = w[N]
    BY <1>2, <2>3, <2>4
  <2> QED
    BY <1>5, <2>5, Zenon DEF Wider
<1>7. ASSUME NEW f \in w[N] PROVE Imports[text[f]] \subseteq w[N]
  <2>1. Imports[text[f]] \subseteq Wider(w[N], text)
    BY <1>4, Zenon DEF Wider
  <2> QED
    BY <1>6, <2>1, Zenon
<1> QED
  BY <1>1, <1>3, <1>7, Zenon

-----------------------------------------------------------------------------
(* The resolver chain. *)

(* A row whose file can be read. *)
Readable(d) == d.s \in Schemas /\ d.f \in Paths /\ GetBlob(d) \in Texts

(* The rows that offer the path f. *)
Offers(deps, f) == {d \in deps : d.f = f}

(* The row of a path that sourceMapResolver keeps. *)
LEMMA LastRow ==
  ASSUME NEW rows, rows # {}, \A d \in rows : d.s \in Schemas
  PROVE  \E d \in rows : \A e \in rows : e.s <= d.s
<1> DEFINE S == {NumSchemas - d.s : d \in rows}
<1>1. NumSchemas \in Nat /\ \A d \in rows : d.s \in Nat /\ NumSchemas - d.s \in Nat
  BY LineageAssumption DEF Schemas
<1>2. S \subseteq Nat /\ S # {}
  BY <1>1, Zenon
<1>3. PICK x \in S : \A y \in S : x <= y
  BY <1>2, Least, Zenon
<1>4. PICK d \in rows : x = NumSchemas - d.s
  BY <1>3, Zenon
<1>5. ASSUME NEW e \in rows PROVE e.s <= d.s
  <2>1. x <= NumSchemas - e.s
    BY <1>3, Zenon
  <2> QED
    BY <1>1, <1>4, <2>1
<1> QED
  BY <1>5, Zenon

(* The text is that of the last row, otherwise the schema's own. *)
LEMMA SourceMapRead ==
  ASSUME NEW own, NEW deps, \A d \in deps : Readable(d), NEW f \in DOMAIN SourceMap(own, deps)
  PROVE  \/ \E d \in Offers(deps, f) : /\ SourceMap(own, deps)[f] = GetBlob(d)
                                        /\ \A e \in Offers(deps, f) : e.s <= d.s
         \/ /\ Offers(deps, f) = {}
            /\ f \in DOMAIN own
            /\ SourceMap(own, deps)[f] = own[f]
<1> DEFINE rows == {d \in deps : d.f = f}
           last == CHOOSE d \in rows : \A e \in rows : e.s <= d.s
<1>1. rows = Offers(deps, f)
  BY Zenon DEF Offers
<1>2. f \in DOMAIN own \cup {d.f : d \in deps}
  BY Zenon DEF SourceMap
<1>3. SourceMap(own, deps)[f] = IF rows = {} THEN own[f] ELSE GetBlob(last)
  BY <1>2, Zenon DEF SourceMap
<1>4. CASE rows = {}
  BY <1>1, <1>2, <1>3, <1>4, Zenon
<1>5. CASE rows # {}
  <2>1. \E d \in rows : \A e \in rows : e.s <= d.s
    BY <1>5, LastRow, Zenon DEF Readable
  <2>2. last \in rows /\ \A e \in rows : e.s <= last.s
    BY <2>1, Zenon
  <2> HIDE DEF last, rows
  <2> QED
    BY <1>1, <1>3, <1>5, <2>2, Zenon
<1> QED
  BY <1>4, <1>5, Zenon

(* Every text comes from the first tier that has the path. *)
LEMMA ResolveRead ==
  ASSUME NEW chain, Len(chain) \in Nat, NEW f \in DOMAIN Resolve(chain)
  PROVE  \E i \in 1..Len(chain) :
            /\ f \in DOMAIN chain[i]
            /\ \A j \in 1..(i - 1) : f \notin DOMAIN chain[j]
            /\ Resolve(chain)[f] = chain[i][f]
<1> DEFINE S == {i \in 1..Len(chain) : f \in DOMAIN chain[i]}
           first(i) == f \in DOMAIN chain[i] /\ \A j \in 1..(i - 1) : f \notin DOMAIN chain[j]
           k == CHOOSE i \in 1..Len(chain) : first(i)
<1>1. f \in Found(chain)
  BY Zenon DEF Resolve
<1>2. S # {} /\ S \subseteq Nat
  <2>1. S # {}
    BY <1>1, Zenon DEF Found
  <2> QED
    BY <2>1
<1>3. PICK i \in S : \A j \in S : i <= j
  BY <1>2, Least, Zenon
<1>4. i \in 1..Len(chain) /\ f \in DOMAIN chain[i]
  BY Zenon
<1>5. ASSUME NEW j \in 1..(i - 1) PROVE f \notin DOMAIN chain[j]
  <2>1. j \in 1..Len(chain) /\ ~(i <= j)
    BY <1>4
  <2> QED
    BY <1>3, <2>1, Zenon
<1>6. k \in 1..Len(chain) /\ first(k)
  BY <1>4, <1>5, Zenon
<1>7. Resolve(chain)[f] = chain[k][f]
  BY <1>1, Zenon DEF Resolve
<1> HIDE DEF k
<1> QED
  BY <1>6, <1>7, Zenon

(* The tiers of a chain. *)
HasTiers(c, files, deps, tiers, builtins) ==
    /\ Len(c) = Len(tiers) + 2
    /\ c[1] = SourceMap(files, deps)
    /\ \A i \in 1..Len(tiers) : c[i + 1] = SourceMap(NoFiles, tiers[i])
    /\ c[Len(tiers) + 2] = SourceMap(NoFiles, builtins)

(* What buildResolverChain puts together. *)
LEMMA ChainTiers ==
  ASSUME NEW files, NEW deps, NEW tiers, Len(tiers) \in Nat, NEW builtins
  PROVE  HasTiers(ResolverChain(files, deps, tiers, builtins), files, deps, tiers, builtins)
<1> DEFINE A == SourceMap(files, deps)
           B == SourceMap(NoFiles, builtins)
           T(i) == SourceMap(NoFiles, tiers[i])
           t == [i \in 1..Len(tiers) |-> T(i)]
           X == {A, B} \cup {T(i) : i \in 1..Len(tiers)}
           c == ResolverChain(files, deps, tiers, builtins)
           N == Len(tiers)
<1>1. c = <<A>> \o t \o <<B>>
  BY Zenon DEF ResolverChain
<1>2. A \in X /\ B \in X /\ \A i \in 1..N : T(i) \in X
  BY Zenon
<1> HIDE DEF A, B, T, X, c, N
<1>3. N \in Nat /\ t \in Seq(X) /\ Len(t) = N /\ \A i \in 1..N : t[i] = T(i)
  <2>1. N \in Nat
    BY Zenon DEF N
  <2>2. t = [i \in 1..N |-> T(i)]
    BY Zenon DEF N
  <2> HIDE DEF t
  <2> QED
    BY <1>2, <2>1, <2>2
<1> HIDE DEF t
<1>4. /\ Len(c) = N + 2 /\ c[1] = A /\ c[N + 2] = B
      /\ \A i \in 1..N : c[i + 1] = t[i]
  BY <1>1, <1>2, <1>3
<1> QED
  BY <1>3, <1>4, Zenon DEF HasTiers, A, B, T, c, N

(* Where the text t of the path f may come from. *)
ReadFrom(files, deps, tiers, builtins, f, t) ==
    \/ \E d \in Offers(deps, f) : t = GetBlob(d) /\ \A e \in Offers(deps, f) : e.s <= d.s
    \/ Offers(deps, f) = {} /\ f \in DOMAIN files /\ t = files[f]
    \/ /\ Offers(deps, f) = {} /\ f \notin DOMAIN files
       /\ \E i \in 1..Len(tiers) : \E d \in Offers(tiers[i], f) : t = GetBlob(d)
    \/ /\ Offers(deps, f) = {} /\ f \notin DOMAIN files
       /\ \A i \in 1..Len(tiers) : Offers(tiers[i], f) = {}
       /\ \E d \in Offers(builtins, f) : t = GetBlob(d)

AllReadable(deps, tiers, builtins) ==
    /\ \A d \in deps \cup builtins : Readable(d)
    /\ \A i \in 1..Len(tiers) : \A d \in tiers[i] : Readable(d)

(* A path that a tier does not have is offered by none of its rows. *)
LEMMA SourceMapDomain ==
  ASSUME NEW own, NEW deps, NEW f
  PROVE  f \in DOMAIN SourceMap(own, deps) <=> f \in DOMAIN own \/ Offers(deps, f) # {}
  BY Zenon DEF SourceMap, Offers

(* A tier without sources of its own has the text of one of its rows. *)
LEMMA TierRead ==
  ASSUME NEW deps, \A d \in deps : Readable(d), NEW f \in DOMAIN SourceMap(NoFiles, deps)
  PROVE  \E d \in Offers(deps, f) : SourceMap(NoFiles, deps)[f] = GetBlob(d)
<1>1. f \notin DOMAIN NoFiles
  BY DEF NoFiles
<1>2. f \in DOMAIN NoFiles \/ \E d \in Offers(deps, f) : SourceMap(NoFiles, deps)[f] = GetBlob(d)
  BY SourceMapRead
<1> QED
  BY <1>1, <1>2, Zenon

(* Every text the compiler can see comes from one of these places. *)
LEMMA ChainRead ==
  ASSUME NEW files, NEW deps, NEW tiers, Len(tiers) \in Nat, NEW builtins,
         AllReadable(deps, tiers, builtins),
         NEW f \in DOMAIN Resolve(ResolverChain(files, deps, tiers, builtins))
  PROVE  ReadFrom(files, deps, tiers, builtins, f,
                  Resolve(ResolverChain(files, deps, tiers, builtins))[f])
<1> DEFINE c == ResolverChain(files, deps, tiers, builtins)
           t == Resolve(c)[f]
           N == Len(tiers)
<1>1. /\ Len(c) = N + 2
      /\ c[1] = SourceMap(files, deps)
      /\ \A i \in 1..N : c[i + 1] = SourceMap(NoFiles, tiers[i])
      /\ c[N + 2] = SourceMap(NoFiles, builtins)
  <2>1. HasTiers(c, files, deps, tiers, builtins)
    BY ChainTiers, Zenon
  <2> HIDE DEF c
  <2> QED
    BY <2>1, Zenon DEF HasTiers
<1>2. N \in Nat /\ f \in DOMAIN Resolve(c)
  BY Zenon
<1> HIDE DEF c, N
<1>3. Len(c) \in Nat
  BY <1>1, <1>2
<1>4. PICK i \in 1..Len(c) : /\ f \in DOMAIN c[i]
                             /\ \A j \in 1..(i - 1) : f \notin DOMAIN c[j]
                             /\ t = c[i][f]
  BY <1>2, <1>3, ResolveRead, Zenon
<1> HIDE DEF t
<1>5. ReadFrom(files, deps, tiers, builtins, f, t)
  <2>1. CASE i = 1
    <3>1. f \in DOMAIN SourceMap(files, deps) /\ t = SourceMap(files, deps)[f]
      BY <1>1, <1>4, <2>1, Zenon
    <3> QED
      BY <3>1, SourceMapRead, Zenon DEF ReadFrom, AllReadable
  <2>2. CASE i # 1
    <3>1. 1 \in 1..(i - 1) /\ (i = N + 2 \/ (i - 1 \in 1..N /\ (i - 1) + 1 = i))
      BY <1>1, <1>2, <2>2
    <3>2. Offers(deps, f) = {} /\ f \notin DOMAIN files
      <4>1. f \notin DOMAIN SourceMap(files, deps)
        BY <1>1, <1>4, <3>1, Zenon
      <4> QED
        BY <4>1, SourceMapDomain, Zenon
    <3>3. CASE i - 1 \in 1..N /\ (i - 1) + 1 = i
      <4> DEFINE k == i - 1
      <4>1. k \in 1..N /\ c[i] = SourceMap(NoFiles, tiers[k])
        <5>1. k \in 1..N /\ c[k + 1] = SourceMap(NoFiles, tiers[k])
          BY <1>1, <3>3, Zenon
        <5> QED
          BY <3>3, <5>1, Zenon
      <4> HIDE DEF k
      <4>2. \A d \in tiers[k] : Readable(d)
        BY <4>1, Zenon DEF AllReadable, N
      <4>3. f \in DOMAIN SourceMap(NoFiles, tiers[k]) /\ t = SourceMap(NoFiles, tiers[k])[f]
        BY <1>4, <4>1, Zenon
      <4>4. \E d \in Offers(tiers[k], f) : SourceMap(NoFiles, tiers[k])[f] = GetBlob(d)
        BY <4>2, <4>3, TierRead
      <4> QED
        BY <3>2, <4>1, <4>3, <4>4, Zenon DEF ReadFrom, N
    <3>4. CASE i = N + 2
      <4>1. c[i] = SourceMap(NoFiles, builtins) /\ \A d \in builtins : Readable(d)
        BY <1>1, <3>4, Zenon DEF AllReadable
      <4>2. \E d \in Offers(builtins, f) : t = GetBlob(d)
        BY <1>4, <4>1, TierRead, Zenon
      <4>3. ASSUME NEW k \in 1..N PROVE Offers(tiers[k], f) = {}
        <5>1. k + 1 \in 1..(i - 1)
          BY <1>2, <3>4
        <5>2. f \notin DOMAIN SourceMap(NoFiles, tiers[k])
          BY <1>1, <1>4, <5>1, Zenon
        <5> QED
          BY <5>2, SourceMapDomain, Zenon
      <4> QED
        BY <3>2, <4>2, <4>3, Zenon DEF ReadFrom, N
    <3> QED
      BY <3>1, <3>3, <3>4, Zenon
  <2> QED
    BY <2>1, <2>2, Zenon
<1> QED
  BY <1>5, Zenon DEF t, c

(* What can be seen is files with their texts. *)
LEMMA ChainSources ==
  ASSUME NEW files, IsSourceSet(files), NEW deps, NEW tiers, Len(tiers) \in Nat, NEW builtins,
         AllReadable(deps, tiers, builtins)
  PROVE  IsSourceSet(Resolve(ResolverChain(files, deps, tiers, builtins)))
<1> DEFINE text == Resolve(ResolverChain(files, deps, tiers, builtins))
<1>1. text = [f \in DOMAIN text |-> text[f]]
  BY DEF Resolve
<1>2. ASSUME NEW f \in DOMAIN text PROVE f \in Paths /\ text[f] \in Texts
  <2>1. ReadFrom(files, deps, tiers, builtins, f, text[f])
    BY ChainRead, Zenon
  <2> HIDE DEF text
  <2> QED
    BY <2>1, Zenon DEF ReadFrom, AllReadable, Readable, Offers, IsSourceSet
<1> HIDE DEF text
<1>3. text \in [DOMAIN text -> Texts]
  BY <1>1, <1>2, Zenon
<1>4. IsSourceSet(text)
  BY <1>2, <1>3, Zenon DEF IsSourceSet
<1> QED
  BY <1>4, Zenon DEF text

(* What Compile makes: the own paths and what they import, standing alone, *)
(* every text from where the chain finds it.                               *)
LEMMA CompileMakes ==
  ASSUME NEW files, IsSourceSet(files), NEW deps, NEW tiers, Len(tiers) \in Nat, NEW builtins,
         AllReadable(deps, tiers, builtins),
         NEW fds, fds = Compile(files, deps, tiers, builtins), fds # None
  PROVE  /\ IsSourceSet(fds)
         /\ DOMAIN files \subseteq DOMAIN fds
         /\ StandsAlone(fds)
         /\ \A f \in DOMAIN fds : ReadFrom(files, deps, tiers, builtins, f, fds[f])
<1> DEFINE text == Resolve(ResolverChain(files, deps, tiers, builtins))
           all == Closure(DOMAIN files, text)
<1>1. /\ all \subseteq DOMAIN text
      /\ \A f, g \in all : f # g => Defines[text[f]] \cap Defines[text[g]] = {}
      /\ fds = [f \in all |-> text[f]]
  BY Zenon DEF Compile
<1>2. IsSourceSet(text)
  BY ChainSources, Zenon
<1>3. \A f \in DOMAIN text : ReadFrom(files, deps, tiers, builtins, f, text[f])
  BY ChainRead, Zenon
<1> HIDE DEF text
<1>4. /\ DOMAIN files \subseteq all
      /\ \A f \in all : Imports[text[f]] \subseteq all
  BY <1>1, <1>2, ClosureClosed, Zenon DEF IsSourceSet
<1> HIDE DEF all
<1>5. DOMAIN fds = all /\ \A f \in all : fds[f] = text[f]
  BY <1>1, Zenon
<1>6. IsSourceSet(fds)
  <2>1. \A f \in all : f \in Paths /\ text[f] \in Texts
    BY <1>1, <1>2, Zenon DEF IsSourceSet
  <2> QED
    BY <1>1, <1>5, <2>1, Zenon DEF IsSourceSet
<1>7. StandsAlone(fds)
  BY <1>1, <1>4, <1>5, Zenon DEF StandsAlone
<1> QED
  BY <1>1, <1>3, <1>4, <1>5, <1>6, <1>7, Zenon

-----------------------------------------------------------------------------
(* The walk up the hierarchy. *)

(* One turn of the walk. *)
Longer(c) ==
    IF parent[c[Len(c)]] = None \/ \E i \in 1..Len(c) : c[i] = parent[c[Len(c)]] THEN c
    ELSE Append(c, parent[c[Len(c)]])

(* The first k turns. *)
Climb(w, n, k) == w = [d \in 0..k |-> IF d = 0 THEN <<n>> ELSE Longer(w[d - 1])]

(* They can be computed, as many as one likes. *)
LEMMA ClimbExists ==
  ASSUME NEW n, NEW k \in Nat
  PROVE  \E w : Climb(w, n, k)
<1> DEFINE Bad == {j \in Nat : ~ \E w : Climb(w, n, j)}
<1>1. SUFFICES Bad = {}
  BY Zenon
<1>2. SUFFICES ASSUME Bad # {} PROVE FALSE
  BY Zenon
<1>3. PICK j \in Bad : \A i \in Bad : j <= i
  BY <1>2, Least, Zenon
<1>4. j # 0
  <2>1. Climb([d \in 0..0 |-> <<n>>], n, 0)
    BY DEF Climb
  <2> QED
    BY <2>1, Zenon
<1>5. j \in Nat /\ j - 1 \in Nat /\ j - 1 \notin Bad
  <2> HIDE DEF Bad
  <2>1. j \in Nat
    BY Zenon DEF Bad
  <2>2. j - 1 \in Nat /\ ~(j <= j - 1)
    BY <1>4, <2>1
  <2> QED
    BY <1>3, <2>1, <2>2, Zenon
<1>6. PICK w : Climb(w, n, j - 1)
  BY <1>5, Zenon
<1> DEFINE u == [d \in 0..j |-> IF d = 0 THEN <<n>> ELSE Longer(w[d - 1])]
<1>7. ASSUME NEW d \in 0..j, d # 0 PROVE u[d - 1] = w[d - 1]
  <2>1. d - 1 \in 0..(j - 1) /\ d - 1 \in 0..j
    BY <1>5, <1>7
  <2> QED
    BY <1>6, <2>1, Zenon DEF Climb
<1>8. Climb(u, n, j)
  BY <1>7, Zenon DEF Climb
<1> QED
  BY <1>3, <1>8, Zenon

(* A walk that has begun with n and not come back to it. *)
Away(c, n) ==
    /\ c \in Seq(Namespaces)
    /\ Len(c) # 0 /\ c[1] = n
    /\ \A i \in 2..Len(c) : c[i] # n

ParentsOK == parent \in [Namespaces -> Namespaces \cup {None}]

(* A turn goes on like that. *)
LEMMA LongerAway ==
  ASSUME ParentsOK, NEW n, NEW c, Away(c, n)
  PROVE  Away(Longer(c), n)
<1> DEFINE up == parent[c[Len(c)]]
<1>1. CASE up = None \/ \E i \in 1..Len(c) : c[i] = up
  BY <1>1, Zenon DEF Longer
<1>2. CASE up # None /\ \A i \in 1..Len(c) : c[i] # up
  <2>1. Longer(c) = Append(c, up)
    BY <1>2, Zenon DEF Longer
  <2>2. Len(c) \in Nat /\ Len(c) # 0 /\ c \in Seq(Namespaces)
    BY DEF Away
  <2>3. up \in Namespaces /\ up # n
    <3>1. 1 \in 1..Len(c) /\ Len(c) \in 1..Len(c)
      BY <2>2
    <3>2. c[Len(c)] \in Namespaces
      BY <2>2, <3>1
    <3> QED
      BY <1>2, <3>1, <3>2, Zenon DEF ParentsOK, Away
  <2> HIDE DEF up
  <2>4. /\ Append(c, up) \in Seq(Namespaces)
        /\ Len(Append(c, up)) = Len(c) + 1
        /\ Append(c, up)[Len(c) + 1] = up
        /\ \A i \in 1..Len(c) : Append(c, up)[i] = c[i]
    BY <2>2, <2>3
  <2>5. ASSUME NEW i \in 2..(Len(c) + 1) PROVE Append(c, up)[i] # n
    <3>1. i = Len(c) + 1 \/ (i \in 2..Len(c) /\ i \in 1..Len(c))
      BY <2>2
    <3> QED
      BY <2>3, <2>4, <3>1, Zenon DEF Away
  <2>6. 1 \in 1..Len(c) /\ Len(c) + 1 # 0
    BY <2>2
  <2> QED
    BY <2>1, <2>4, <2>5, <2>6, Zenon DEF Away
<1> QED
  BY <1>1, <1>2, Zenon

(* The ancestors of n are namespaces other than n. *)
LEMMA AncestorsOther ==
  ASSUME ParentsOK, NEW n \in Namespaces
  PROVE  Ancestors(n) \in Seq(Namespaces \ {n})
<1> DEFINE N == Cardinality(Namespaces)
           w == CHOOSE f : Climb(f, n, N)
<1>1. N \in Nat
  BY LineageAssumption, FS_CardinalityType, Zenon
<1>2. Climb(w, n, N)
  BY <1>1, ClimbExists, Zenon
<1>3. Ancestors(n) = Tail(w[N])
  BY Zenon DEF Ancestors, Climb, Longer
<1> HIDE DEF N, w
<1> DEFINE Bad == {d \in 0..N : ~Away(w[d], n)}
<1>4. Bad = {}
  <2> SUFFICES ASSUME Bad # {} PROVE FALSE
    BY Zenon
  <2>1. Bad \subseteq Nat
    OBVIOUS
  <2>2. PICK d \in Bad : \A i \in Bad : d <= i
    BY <2>1, Least, Zenon
  <2>3. d \in 0..N /\ ~Away(w[d], n)
    BY Zenon
  <2> HIDE DEF Bad
  <2>4. CASE d = 0
    <3>1. w[d] = <<n>>
      BY <1>2, <2>3, <2>4, Zenon DEF Climb
    <3>2. Away(<<n>>, n)
      BY DEF Away
    <3> QED
      BY <2>3, <3>1, <3>2, Zenon
  <2>5. CASE d # 0
    <3>1. d - 1 \in 0..N /\ ~(d <= d - 1)
      BY <1>1, <2>3, <2>5
    <3>2. Away(w[d - 1], n)
      BY <2>2, <3>1, Zenon DEF Bad
    <3>3. w[d] = Longer(w[d - 1])
      BY <1>2, <2>3, <2>5, Zenon DEF Climb
    <3> QED
      BY <2>3, <3>2, <3>3, LongerAway, Zenon
  <2> QED
    BY <2>4, <2>5, Zenon
<1>5. Away(w[N], n)
  <2>1. N \in 0..N
    BY <1>1
  <2> QED
    BY <1>4, <2>1, Zenon
<1> DEFINE c == w[N]
<1>6. Away(c, n) /\ Ancestors(n) = Tail(c)
  BY <1>3, <1>5, Zenon
<1> HIDE DEF c
<1>7. c \in Seq(Namespaces) /\ Len(c) \in Nat /\ c # << >> /\ \A i \in 2..Len(c) : c[i] # n
  BY <1>6 DEF Away
<1>8. /\ Tail(c) \in Seq(Namespaces) /\ Len(Tail(c)) = Len(c) - 1
      /\ \A i \in 1..(Len(c) - 1) : Tail(c)[i] = c[i + 1]
  BY <1>7
<1>9. ASSUME NEW i \in 1..Len(Tail(c)) PROVE Tail(c)[i] \in Namespaces \ {n}
  <2>1. i \in 1..(Len(c) - 1) /\ i + 1 \in 2..Len(c) /\ i + 1 \in 1..Len(c)
    BY <1>7, <1>8
  <2>2. c[i + 1] \in Namespaces
    BY <1>7, <2>1
  <2> QED
    BY <1>7, <1>8, <2>1, <2>2, Zenon
<1>10. Tail(c) \in Seq(Namespaces \ {n})
  <2> DEFINE L == Len(Tail(c))
             t == Tail(c)
  <2>1. L \in Nat /\ t \in [1..L -> Namespaces]
    <3>1. t \in Seq(Namespaces) /\ L = Len(t)
      BY <1>8, Zenon
    <3> HIDE DEF t, L
    <3> QED
      BY <3>1
  <2>2. \A i \in 1..L : t[i] \in Namespaces \ {n}
    BY <1>9, Zenon
  <2> HIDE DEF t, L
  <2>3. t \in [1..L -> Namespaces \ {n}]
    BY <2>1, <2>2, Zenon
  <2>4. t \in Seq(Namespaces \ {n})
    BY <2>1, <2>3
  <2> QED
    BY <2>4, Zenon DEF t
<1> QED
  BY <1>6, <1>10, Zenon

-----------------------------------------------------------------------------
(* The answers to a name. *)

(* What is in memory has a number, sources and descriptors. *)
InMemory ==
    \A s \in Schemas : memCurrent[s] # NoSnap =>
        /\ memCurrent[s].v # 0
        /\ IsSourceSet(log[s][memCurrent[s].v].files)
        /\ memCurrent[s].fds # None

(* The rows of the versions in memory. *)
LEMMA LiveRowsAre ==
  ASSUME InMemory, NEW n, NEW d \in LiveRows(n)
  PROVE  /\ d.s \in Live(n) /\ d.v = memCurrent[d.s].v
         /\ d.f \in DOMAIN log[d.s][memCurrent[d.s].v].files /\ Readable(d)
         /\ d = [s |-> d.s, v |-> memCurrent[d.s].v, f |-> d.f]
<1> DEFINE ver == [t \in Schemas |-> memCurrent[t].v]
<1>1. NoSnap.v = 0
  BY Zenon DEF NoSnap
<1>2. d \in FileRows(n, ver) /\ \A t \in Schemas : ver[t] = memCurrent[t].v
  BY Zenon DEF LiveRows
<1> HIDE DEF ver
<1>3. /\ d.s \in Schemas /\ Home[d.s] = n /\ d.v = ver[d.s] /\ ver[d.s] # 0
      /\ d.f \in DOMAIN log[d.s][ver[d.s]].files
      /\ d = [s |-> d.s, v |-> ver[d.s], f |-> d.f]
  BY <1>2 DEF FileRows, In
<1>4. d.s \in Live(n)
  BY <1>1, <1>2, <1>3, Zenon DEF Live, In
<1>5. IsSourceSet(log[d.s][d.v].files) /\ d.f \in DOMAIN log[d.s][d.v].files
  BY <1>2, <1>3, <1>4, Zenon DEF Live, InMemory
<1>6. Readable(d)
  BY <1>3, <1>5, Zenon DEF Readable, GetBlob, IsSourceSet
<1> QED
  BY <1>2, <1>3, <1>4, <1>6, Zenon

(* Every file of a schema in memory has its row. *)
LEMMA LiveRowOf ==
  ASSUME InMemory, NEW n, NEW s \in Live(n), NEW f \in DOMAIN log[s][memCurrent[s].v].files
  PROVE  [s |-> s, v |-> memCurrent[s].v, f |-> f] \in LiveRows(n)
<1> DEFINE ver == [t \in Schemas |-> memCurrent[t].v]
<1>1. s \in Schemas /\ s \in In(n) /\ memCurrent[s].v # 0
  BY Zenon DEF Live, In, InMemory
<1>2. ver[s] = memCurrent[s].v
  BY <1>1, Zenon
<1> HIDE DEF ver
<1>3. [s |-> s, v |-> ver[s], f |-> f] \in FileRows(n, ver)
  BY <1>1, <1>2 DEF FileRows
<1> QED
  BY <1>2, <1>3, Zenon DEF LiveRows, ver

(* Unless siblings share a path, the schema's own files are found among    *)
(* the rows of its namespace just as well.                                 *)
LEMMA SameSources ==
  ASSUME InMemory, NEW n, ~PathShared(n), NEW s \in Live(n)
  PROVE  SourceMap(log[s][memCurrent[s].v].files, {d \in LiveRows(n) : d.s # s})
            = SourceMap(NoFiles, LiveRows(n))
<1> DEFINE files(t) == log[t][memCurrent[t].v].files
           own == files(s)
           D == LiveRows(n)
           E == {d \in D : d.s # s}
           line(f) == [s |-> s, v |-> memCurrent[s].v, f |-> f]
<1>1. ASSUME NEW d \in D
      PROVE  /\ Readable(d) /\ d.s \in Live(n) /\ d.f \in DOMAIN files(d.s)
             /\ d.s = s => d = line(d.f)
  BY LiveRowsAre
<1>2. ASSUME NEW f \in DOMAIN own
      PROVE  /\ line(f) \in D /\ line(f).f = f /\ line(f).s = s /\ GetBlob(line(f)) = own[f]
  <2>1. line(f) \in D
    BY LiveRowOf, Zenon
  <2>2. line(f).f = f /\ line(f).s = s /\ line(f).v = memCurrent[s].v
    BY Zenon
  <2> HIDE DEF line
  <2> QED
    BY <2>1, <2>2, Zenon DEF GetBlob
<1>3. ASSUME NEW d \in D, d.s # s PROVE d.f \notin DOMAIN own
  <2>1. d.f \in DOMAIN files(d.s) /\ d.s \in Live(n)
    BY <1>1, Zenon
  <2> QED
    BY <1>3, <2>1, Zenon DEF PathShared
<1>4. ASSUME NEW d \in D, d.s = s PROVE d.f \in DOMAIN own
  BY <1>1, <1>4, Zenon
<1>5. \A d \in D : Readable(d)
  BY <1>1, Zenon
<1>6. DOMAIN NoFiles = {}
  BY DEF NoFiles
<1> HIDE DEF D, line, own
<1>7. E \subseteq D /\ \A d \in E : d.s # s
  BY Zenon
<1>8. \A f : f \in DOMAIN SourceMap(own, E) <=> f \in DOMAIN SourceMap(NoFiles, D)
  <2> TAKE f
  <2>1. f \in DOMAIN SourceMap(own, E) <=> f \in DOMAIN own \/ Offers(E, f) # {}
    BY SourceMapDomain, Zenon
  <2>2. f \in DOMAIN SourceMap(NoFiles, D) <=> f \in DOMAIN NoFiles \/ Offers(D, f) # {}
    BY SourceMapDomain, Zenon
  <2> QED
    BY <1>2, <1>4, <1>6, <2>1, <2>2, Zenon DEF Offers
<1>9. ASSUME NEW f \in DOMAIN SourceMap(NoFiles, D)
      PROVE  SourceMap(own, E)[f] = SourceMap(NoFiles, D)[f]
  <2>1. f \in DOMAIN SourceMap(own, E)
    BY <1>8, Zenon
  <2>2. CASE f \in DOMAIN own
    <3>1. Offers(E, f) = {}
      BY <1>3, <1>7, <2>2, Zenon DEF Offers
    <3>2. SourceMap(own, E)[f] = own[f]
      BY <1>5, <1>7, <2>1, <3>1, SourceMapRead, Zenon
    <3>3. PICK d \in Offers(D, f) : SourceMap(NoFiles, D)[f] = GetBlob(d)
      BY <1>5, TierRead, Zenon
    <3>4. d = line(f)
      BY <1>1, <1>3, <2>2, <3>3, Zenon DEF Offers
    <3> QED
      BY <1>2, <2>2, <3>2, <3>3, <3>4, Zenon
  <2>3. CASE f \notin DOMAIN own
    <3>1. {d \in E : d.f = f} = {d \in D : d.f = f}
      BY <1>4, <2>3, Zenon
    <3>2. {d \in D : d.f = f} # {}
      <4>1. f \in DOMAIN NoFiles \/ Offers(D, f) # {}
        BY SourceMapDomain, Zenon
      <4> QED
        BY <1>6, <4>1, Zenon DEF Offers
    <3> DEFINE rows == {d \in D : d.f = f}
               pick == CHOOSE d \in rows : \A e \in rows : e.s <= d.s
    <3>3. f \in DOMAIN own \cup {d.f : d \in E} /\ f \in DOMAIN NoFiles \cup {d.f : d \in D}
      BY <2>1, Zenon DEF SourceMap
    <3> HIDE DEF E
    <3>4. SourceMap(own, E)[f] = GetBlob(pick)
      BY <3>1, <3>2, <3>3, Zenon DEF SourceMap
    <3>5. SourceMap(NoFiles, D)[f] = GetBlob(pick)
      BY <3>2, <3>3, Zenon DEF SourceMap
    <3> QED
      BY <3>4, <3>5, Zenon
  <2> QED
    BY <2>2, <2>3, Zenon
<1>10. SourceMap(own, E) = SourceMap(NoFiles, D)
  <2>1. DOMAIN SourceMap(own, E) = DOMAIN SourceMap(NoFiles, D)
    BY <1>8, Zenon
  <2>2. /\ SourceMap(own, E) = [f \in DOMAIN SourceMap(own, E) |-> SourceMap(own, E)[f]]
        /\ SourceMap(NoFiles, D) = [f \in DOMAIN SourceMap(NoFiles, D) |-> SourceMap(NoFiles, D)[f]]
    BY DEF SourceMap
  <2> QED
    BY <1>9, <2>1, <2>2, Zenon
<1> QED
  BY <1>10, Zenon DEF own, D

(* A snapshot that is what a compilation gives now is a part of what its   *)
(* namespace can see.                                                      *)
LEMMA SnapshotVisible ==
  ASSUME InMemory, NEW n, ~PathShared(n), NEW s \in Live(n),
         memCurrent[s].fds = CompiledNow(s), NEW f \in DOMAIN memCurrent[s].fds
  PROVE  f \in DOMAIN VisibleNow(n) /\ memCurrent[s].fds[f] = VisibleNow(n)[f]
<1> DEFINE own == log[s][memCurrent[s].v].files
           E == {d \in LiveRows(n) : d.s # s}
           text == Resolve(ResolverChain(own, E, TiersNow(n), BuiltinsNow(n)))
           all == Closure(DOMAIN own, text)
<1>1. s \in Schemas /\ Home[s] = n /\ memCurrent[s].fds # None
  BY Zenon DEF Live, In, InMemory
<1>2. CompiledNow(s) = Compile(own, E, TiersNow(n), BuiltinsNow(n))
  BY <1>1, Zenon DEF CompiledNow
<1>3. SourceMap(own, E) = SourceMap(NoFiles, LiveRows(n))
  BY SameSources, Zenon
<1>4. ResolverChain(own, E, TiersNow(n), BuiltinsNow(n))
        = ResolverChain(NoFiles, LiveRows(n), TiersNow(n), BuiltinsNow(n))
  <2> HIDE DEF own, E
  <2> QED
    BY <1>3, Zenon DEF ResolverChain
<1>5. text = VisibleNow(n)
  BY <1>4, Zenon DEF VisibleNow
<1>6. /\ all \subseteq DOMAIN text
      /\ Compile(own, E, TiersNow(n), BuiltinsNow(n)) = [g \in all |-> text[g]]
  BY <1>1, <1>2, Zenon DEF Compile
<1> HIDE DEF all, text, own, E
<1> QED
  BY <1>2, <1>5, <1>6, Zenon

(* Then all of them answer alike. *)
LEMMA OneAnswer ==
  ASSUME InMemory, NEW n, NEW x, ~PathShared(n), ~DeclaredTwice(n, x),
         \A s \in Live(n) : memCurrent[s].fds = CompiledNow(s),
         NEW y \in Hits(n, x), NEW z \in Hits(n, x)
  PROVE  y = z
<1>1. ASSUME NEW h \in Hits(n, x)
      PROVE  \E f \in DOMAIN VisibleNow(n) : h = VisibleNow(n)[f] /\ x \in Defines[VisibleNow(n)[f]]
  <2>1. PICK fds \in AllCurrent(n) : \E f \in DOMAIN fds : h = fds[f] /\ x \in Defines[fds[f]]
    BY DEF Hits
  <2>2. PICK f \in DOMAIN fds : h = fds[f] /\ x \in Defines[fds[f]]
    BY <2>1, Zenon
  <2>3. PICK s \in Live(n) : fds = memCurrent[s].fds
    BY DEF AllCurrent, Live
  <2>4. f \in DOMAIN VisibleNow(n) /\ memCurrent[s].fds[f] = VisibleNow(n)[f]
    BY <2>2, <2>3, SnapshotVisible, Zenon
  <2> QED
    BY <2>2, <2>3, <2>4, Zenon
<1>2. PICK f \in DOMAIN VisibleNow(n) : y = VisibleNow(n)[f] /\ x \in Defines[VisibleNow(n)[f]]
  BY <1>1, Zenon
<1>3. PICK g \in DOMAIN VisibleNow(n) : z = VisibleNow(n)[g] /\ x \in Defines[VisibleNow(n)[g]]
  BY <1>1, Zenon
<1>4. f = g
  BY <1>2, <1>3, Zenon DEF DeclaredTwice
<1> QED
  BY <1>2, <1>3, <1>4, Zenon

(* A set without two different elements. *)
LEMMA AtMostOne ==
  ASSUME NEW S, \A y, z \in S : y = z
  PROVE  ~(Cardinality(S) > 1)
<1>1. CASE S = {}
  BY <1>1, FS_EmptySet
<1>2. CASE S # {}
  <2>1. PICK y \in S : TRUE
    BY <1>2, Zenon
  <2>2. S = {y}
    BY <2>1, Zenon
  <2>3. Cardinality(S) = 1
    BY <2>2, FS_Singleton, Zenon
  <2> QED
    BY <2>3
<1> QED
  BY <1>1, <1>2, Zenon

(* FindMessageByName answers from one namespace of the chain. *)
LEMMA OneNamespace ==
  ASSUME ParentsOK, NEW n \in Namespaces, NEW x, FindMessageByName(n, x) # {}
  PROVE  \E m \in {n} \cup Elements(Ancestors(n)) : FindMessageByName(n, x) = Hits(m, x)
<1> DEFINE chain == <<n>> \o Ancestors(n)
           hit == {i \in 1..Len(chain) : Hits(chain[i], x) # {}}
           k == CHOOSE i \in hit : \A j \in hit : i <= j
<1>1. hit # {} /\ FindMessageByName(n, x) = Hits(chain[k], x)
  BY Zenon DEF FindMessageByName
<1>2. Ancestors(n) \in Seq(Namespaces \ {n})
  BY AncestorsOther, Zenon
<1>3. Len(Ancestors(n)) \in Nat /\ Len(chain) = Len(Ancestors(n)) + 1 /\ chain[1] = n
      /\ \A i \in 1..Len(Ancestors(n)) : chain[i + 1] = Ancestors(n)[i]
  BY <1>2
<1>4. hit \subseteq Nat
  BY <1>3
<1>5. \E i \in hit : \A j \in hit : i <= j
  BY <1>1, <1>4, Least, Zenon
<1>6. k \in hit
  BY <1>5, Zenon
<1>7. k \in 1..Len(chain)
  BY <1>6, Zenon
<1> HIDE DEF k, hit, chain
<1>8. k = 1 \/ (k - 1 \in 1..Len(Ancestors(n)) /\ (k - 1) + 1 = k)
  BY <1>3, <1>7
<1>9. chain[k] \in {n} \cup Elements(Ancestors(n))
  BY <1>3, <1>8 DEF Elements
<1> QED
  BY <1>1, <1>9, Zenon

(* A name that has two answers is declared twice, or what is in memory is  *)
(* not what it would be compiled to.                                       *)
LEMMA AnswersFollow ==
  ASSUME ParentsOK, InMemory
  PROVE  AnswersAgree
<1> SUFFICES ASSUME NEW n \in Namespaces, NEW x \in Names,
                    Cardinality(FindMessageByName(n, x)) > 1,
                    \A m \in {n} \cup Elements(Ancestors(n)) :
                        /\ ~PathShared(m) /\ ~DeclaredTwice(m, x)
                        /\ \A s \in Live(m) : memCurrent[s].fds = CompiledNow(s)
             PROVE  FALSE
  BY Zenon DEF AnswersAgree
<1>1. FindMessageByName(n, x) # {}
  BY FS_EmptySet
<1>2. PICK m \in {n} \cup Elements(Ancestors(n)) : FindMessageByName(n, x) = Hits(m, x)
  BY <1>1, OneNamespace, Zenon
<1>3. \A y, z \in Hits(m, x) : y = z
  BY OneAnswer, Zenon
<1> QED
  BY <1>2, <1>3, AtMostOne, Zenon

-----------------------------------------------------------------------------
(* The invariant. *)

(* A row that stands for a file of a stored version. *)
Backed(d) ==
    d.s \in Schemas /\ d.v \in Numbers(d.s) /\ d.f \in DOMAIN log[d.s][d.v].files

Siblings(s, deps, f) == {d \in Offers(deps, f) : Home[d.s] = Home[s]}

(* The text of f in the descriptors of a version of s is accounted for. *)
FromPins(s, files, deps, fds, f) ==
    /\ Siblings(s, deps, f) # {} =>
          \E d \in Siblings(s, deps, f) : /\ GetBlob(d) = fds[f]
                                          /\ \A e \in Siblings(s, deps, f) : e.s <= d.s
    /\ Siblings(s, deps, f) = {} /\ f \in DOMAIN files => fds[f] = files[f]
    /\ Siblings(s, deps, f) = {} /\ f \notin DOMAIN files /\ Offers(deps, f) # {} =>
          \E d \in Offers(deps, f) : GetBlob(d) = fds[f]
    /\ f \notin DOMAIN files /\ Offers(deps, f) = {} =>
          \E b \in promoted : /\ Home[b[1]] = Builtins
                              /\ f \in DOMAIN Row(b).files
                              /\ Row(b).files[f] = fds[f]

(* Descriptors that were compiled for s from the sources and the pins. *)
Sound(s, files, deps, fds) ==
    /\ IsSourceSet(files) /\ IsSourceSet(fds) /\ fds # None
    /\ DOMAIN files \subseteq DOMAIN fds
    /\ \A d \in deps : Backed(d)
    /\ StandsAlone(fds)
    /\ \A f \in DOMAIN fds : FromPins(s, files, deps, fds, f)

(* They declare no name of a pinned ancestor in a file of another path. *)
Clear(s, files, deps, fds) ==
    \A f \in DOMAIN files : \A d \in deps :
        Home[d.s] # Home[s] /\ f # d.f =>
            Defines[fds[f]] \cap Defines[log[d.s][d.v].fds[d.f]] = {}

RowSound(s, v) ==
    /\ Sound(s, log[s][v].files, log[s][v].deps, log[s][v].fds)
    /\ log[s][v].cv \in 0..1
    /\ <<s, v>> \in calm => Clear(s, log[s][v].files, log[s][v].deps, log[s][v].fds)

(* What a handler has gathered is in the store, of the right namespaces,   *)
(* and what it has compiled is sound.                                      *)
HandlerSound(r) ==
    r.ph # "idle" =>
        /\ IsSourceSet(r.files)
        /\ \A d \in r.deps : Backed(d)
        /\ \A i \in 1..Len(r.tiers) : \A d \in r.tiers[i] : Backed(d) /\ Home[d.s] # Home[r.s]
        /\ r.chain \in Seq(Namespaces \ {Home[r.s]})
        /\ r.ph \in {"check", "record"} => Sound(r.s, r.files, Pins(r), r.fds)
        /\ r.ph = "record" /\ r.calm => Clear(r.s, r.files, Pins(r), r.fds)

SourceInv ==
    /\ \A s \in Schemas : \A v \in Numbers(s) : RowSound(s, v)
    /\ \A s \in Schemas : memCurrent[s] # NoSnap => memCurrent[s].fds # None
    /\ \A p \in Procs : HandlerSound(pub[p])
    /\ promoted \cup calm \subseteq Rows
    /\ ParentsOK
    /\ binary \in 0..1

-----------------------------------------------------------------------------
(* The log only grows. *)

LogGrows ==
    /\ \A s \in Schemas : /\ Numbers(s) \subseteq Numbers(s)'
                          /\ \A v \in Numbers(s) : log'[s][v] = log[s][v]
    /\ promoted \subseteq promoted'

(* A pair of Rows. *)
LEMMA RowOf ==
  ASSUME NEW F, Shape(F), NEW b \in Rows
  PROVE  b[1] \in Schemas /\ b[2] \in Numbers(b[1]) /\ b = <<b[1], b[2]>>
<1>1. PICK s \in Schemas : \E v \in DOMAIN log[s] : b = <<s, v>>
  BY Zenon DEF Rows
<1>2. PICK v \in DOMAIN log[s] : b = <<s, v>>
  BY <1>1, Zenon
<1>3. DOMAIN log[s] = Numbers(s)
  BY DEF Shape, Numbers
<1> QED
  BY <1>2, <1>3

(* And back. *)
LEMMA RowIn ==
  ASSUME NEW F, Shape(F), NEW s \in Schemas, NEW v \in Numbers(s)
  PROVE  <<s, v>> \in Rows
<1>1. DOMAIN log[s] = Numbers(s)
  BY DEF Shape, Numbers
<1> QED
  BY <1>1 DEF Rows

(* A stored version keeps its files. *)
LEMMA BackedStays ==
  ASSUME LogGrows, NEW d, Backed(d)
  PROVE  Backed(d)' /\ log'[d.s][d.v] = log[d.s][d.v] /\ GetBlob(d)' = GetBlob(d)
<1>1. log'[d.s][d.v] = log[d.s][d.v] /\ d.v \in Numbers(d.s)'
  BY Zenon DEF LogGrows, Backed
<1> QED
  BY <1>1, Zenon DEF Backed, GetBlob

(* What was sound remains so. *)
LEMMA SoundStays ==
  ASSUME LogGrows, Shaped, promoted \subseteq Rows,
         NEW s, NEW files, NEW deps, NEW fds, Sound(s, files, deps, fds)
  PROVE  Sound(s, files, deps, fds)'
<1>1. \A d \in deps : Backed(d)' /\ GetBlob(d)' = GetBlob(d)
  BY BackedStays, Zenon DEF Sound
<1>2. ASSUME NEW b \in promoted PROVE b \in promoted' /\ Row(b)' = Row(b)
  <2>1. PICK F : Shape(F)
    BY Zenon DEF Shaped
  <2>2. b[1] \in Schemas /\ b[2] \in Numbers(b[1])
    BY <2>1, RowOf, Zenon
  <2> QED
    BY <2>2, Zenon DEF LogGrows, Row
<1>3. ASSUME NEW f \in DOMAIN fds PROVE FromPins(s, files, deps, fds, f)'
  <2>1. FromPins(s, files, deps, fds, f)
    BY Zenon DEF Sound
  <2>2. Siblings(s, deps, f) \subseteq deps /\ Offers(deps, f) \subseteq deps
    BY Zenon DEF Siblings, Offers
  <2>3. Siblings(s, deps, f) # {} =>
          \E d \in Siblings(s, deps, f) : /\ GetBlob(d)' = fds[f]
                                          /\ \A e \in Siblings(s, deps, f) : e.s <= d.s
    BY <1>1, <2>1, <2>2, Zenon DEF FromPins
  <2>4. Siblings(s, deps, f) = {} /\ f \notin DOMAIN files /\ Offers(deps, f) # {} =>
          \E d \in Offers(deps, f) : GetBlob(d)' = fds[f]
    BY <1>1, <2>1, <2>2, Zenon DEF FromPins
  <2>5. f \notin DOMAIN files /\ Offers(deps, f) = {} =>
          \E b \in promoted' : /\ Home[b[1]] = Builtins
                               /\ f \in DOMAIN Row(b)'.files
                               /\ Row(b)'.files[f] = fds[f]
    BY <1>2, <2>1, Zenon DEF FromPins
  <2>6. Siblings(s, deps, f) = {} /\ f \in DOMAIN files => fds[f] = files[f]
    BY <2>1, Zenon DEF FromPins
  <2> QED
    BY <2>3, <2>4, <2>5, <2>6, Zenon DEF FromPins
<1> QED
  BY <1>1, <1>3, Zenon DEF Sound

(* What was clear of the names of pinned versions remains so. *)
LEMMA ClearStays ==
  ASSUME LogGrows, NEW s, NEW files, NEW deps, NEW fds, Clear(s, files, deps, fds),
         \A d \in deps : Backed(d)
  PROVE  Clear(s, files, deps, fds)'
<1>1. \A d \in deps : log'[d.s][d.v] = log[d.s][d.v]
  BY BackedStays, Zenon
<1> QED
  BY <1>1, Zenon DEF Clear

(* Hence a stored version stays sound. *)
LEMMA RowStays ==
  ASSUME LogGrows, Shaped, promoted \subseteq Rows, NEW s \in Schemas, NEW v \in Numbers(s),
         RowSound(s, v), <<s, v>> \in calm' => <<s, v>> \in calm
  PROVE  RowSound(s, v)'
<1>1. PICK row : row = log[s][v]
  BY Zenon
<1>2. log'[s][v] = row
  BY <1>1, Zenon DEF LogGrows
<1>3. /\ Sound(s, row.files, row.deps, row.fds) /\ row.cv \in 0..1
      /\ <<s, v>> \in calm => Clear(s, row.files, row.deps, row.fds)
  BY <1>1, Zenon DEF RowSound
<1>4. Sound(s, row.files, row.deps, row.fds)'
  BY <1>3, SoundStays, Zenon
<1>5. <<s, v>> \in calm' => Clear(s, row.files, row.deps, row.fds)'
  BY <1>3, ClearStays, Zenon DEF Sound
<1>6. <<s, v>>' = <<s, v>>
  BY Zenon
<1> QED
  BY <1>2, <1>3, <1>4, <1>5, <1>6, Zenon DEF RowSound

(* And so does what a handler has gathered. *)
LEMMA HandlerStays ==
  ASSUME LogGrows, Shaped, promoted \subseteq Rows, NEW r, HandlerSound(r)
  PROVE  HandlerSound(r)'
<1> SUFFICES ASSUME r.ph # "idle" PROVE HandlerSound(r)'
  BY Zenon DEF HandlerSound
<1>1. \A d \in r.deps : Backed(d)'
  BY BackedStays, Zenon DEF HandlerSound
<1>2. \A i \in 1..Len(r.tiers) : \A d \in r.tiers[i] : Backed(d)' /\ Home[d.s] # Home[r.s]
  BY BackedStays, Zenon DEF HandlerSound
<1>3. r.ph \in {"check", "record"} => Sound(r.s, r.files, Pins(r), r.fds)'
  BY SoundStays, Zenon DEF HandlerSound
<1>4. r.ph = "record" /\ r.calm => Clear(r.s, r.files, Pins(r), r.fds)'
  BY ClearStays, Zenon DEF HandlerSound, Sound
<1>5. Pins(r)' = Pins(r)
  BY Zenon DEF Pins, Elements
<1> QED
  BY <1>1, <1>2, <1>3, <1>4, <1>5, Zenon DEF HandlerSound

-----------------------------------------------------------------------------
(* The steps of a publish. *)

(* A step that changes nothing but the request of p, to R. *)
LEMMA SourceStays ==
  ASSUME SourceInv, Shaped, NEW p \in Procs, NEW R, pub' = [pub EXCEPT ![p] = R],
         UNCHANGED <<log, memCurrent, promoted, calm, parent, binary>>, HandlerSound(R)
  PROVE  SourceInv'
<1>1. LogGrows /\ promoted \subseteq Rows
  BY Zenon DEF LogGrows, Numbers, SourceInv
<1>2. ASSUME NEW s \in Schemas, NEW v \in Numbers(s)' PROVE RowSound(s, v)'
  BY <1>1, RowStays, Zenon DEF Numbers, SourceInv
<1>3. ASSUME NEW q \in Procs PROVE HandlerSound(pub[q])'
  <2>1. PICK r : r = pub'[q]
    BY Zenon
  <2>2. HandlerSound(r)
    BY <2>1, Zenon DEF SourceInv, Shaped, Shape
  <2> QED
    BY <1>1, <2>1, <2>2, HandlerStays, Zenon
<1>4. (promoted \cup calm)' \subseteq Rows' /\ ParentsOK' /\ binary' \in 0..1
  <2>1. Rows' = Rows
    BY DEF Rows
  <2> QED
    BY <2>1, Zenon DEF SourceInv, ParentsOK
<1>5. \A s \in Schemas : memCurrent'[s] # NoSnap => memCurrent'[s].fds # None
  BY Zenon DEF SourceInv
<1> QED
  BY <1>2, <1>3, <1>4, <1>5, Zenon DEF SourceInv

(* A request that ends with a reply and no other change. *)
LEMMA ReplySource ==
  ASSUME SourceInv, Shaped, NEW p \in Procs, NEW out, Reply(p, out),
         UNCHANGED <<log, memCurrent, promoted, calm, parent, binary>>
  PROVE  SourceInv'
<1> DEFINE R == [NoRequest EXCEPT !.out = IF p \in Kept THEN out ELSE "none"]
<1>1. pub' = [pub EXCEPT ![p] = R]
  BY Zenon DEF Reply
<1>2. HandlerSound(R)
  BY Zenon DEF HandlerSound, NoRequest
<1> HIDE DEF R
<1> QED
  BY <1>1, <1>2, SourceStays, Zenon

(* Versions that exist. *)
Existing(ver) == \A s \in Schemas : ver[s] # 0 => ver[s] \in Numbers(s)

(* The files of versions that exist are backed. *)
LEMMA RowsBacked ==
  ASSUME NEW n, NEW ver, Existing(ver), NEW d \in FileRows(n, ver)
  PROVE  Backed(d) /\ Home[d.s] = n /\ d.v = ver[d.s]
<1>1. d.s \in Schemas /\ Home[d.s] = n /\ d.v = ver[d.s] /\ ver[d.s] # 0
  BY DEF FileRows, In
<1>2. d.f \in DOMAIN log[d.s][ver[d.s]].files
  BY DEF FileRows
<1> QED
  BY <1>1, <1>2, Zenon DEF Existing, Backed

(* The store's rows point at versions. *)
LEMMA StoreExisting ==
  ASSUME IInv
  PROVE  /\ Existing(current)
         /\ Existing([s \in Schemas |-> IF staged[s] # 0 THEN staged[s] ELSE current[s]])
  BY Zenon DEF IInv, PointersOK, Existing

(* What gatherDeps reads is in the store; the chain leads elsewhere. *)
LEMMA GatherSource ==
  ASSUME IInv, SourceInv, NEW p \in Procs, NEW op \in {"publish", "rebase"}, NEW s \in Schemas,
         NEW files, IsSourceSet(files), Gather(p, op, s, files)
  PROVE  SourceInv'
<1> DEFINE deps == {d \in LoadNamespaceProposed(Home[s]) : d.s # s}
           chain == Ancestors(Home[s])
           R == [NoRequest EXCEPT !.op = op, !.ph = "tiers", !.s = s, !.files = files,
                     !.deps = deps, !.chain = chain]
<1>1. pub' = [pub EXCEPT ![p] = R]
  BY Zenon DEF Gather
<1>2. UNCHANGED <<log, memCurrent, promoted, calm, parent, binary>>
  BY Zenon DEF Gather, storeVars, memVars, history, server
<1>3. \A d \in deps : Backed(d)
  BY StoreExisting, RowsBacked, Zenon DEF LoadNamespaceProposed
<1>4. chain \in Seq(Namespaces \ {Home[s]})
  <2>1. Home[s] \in Namespaces
    BY LineageAssumption, Zenon
  <2> QED
    BY <2>1, AncestorsOther, Zenon DEF SourceInv
<1> HIDE DEF deps, chain
<1>5. /\ R.s = s /\ R.ph = "tiers" /\ R.files = files /\ R.deps = deps /\ R.tiers = << >>
      /\ R.chain = chain
  BY Zenon DEF NoRequest
<1> HIDE DEF R
<1>6. 1..Len(R.tiers) = {}
  BY <1>5
<1>7. HandlerSound(R)
  BY <1>3, <1>4, <1>5, <1>6, Zenon DEF HandlerSound
<1> QED
  BY <1>1, <1>2, <1>7, SourceStays, Zenon DEF IInv

(* So is what is read of an ancestor, which is another namespace. *)
LEMMA GatherTierSource ==
  ASSUME IInv, SourceInv, NEW p \in Procs, GatherTier(p)
  PROVE  SourceInv'
<1>1. PICK F : Shape(F)
  BY Zenon DEF IInv, Shaped
<1> DEFINE r == pub[p]
           n == Head(r.chain)
           X == LoadNamespaceCurrent(n)
           G == F \cup {X}
           R == [r EXCEPT !.chain = Tail(@), !.tiers = Append(@, X)]
<1>2. pub' = [pub EXCEPT ![p] = R]
  BY <1>1, Zenon DEF GatherTier, Shape
<1>3. /\ UNCHANGED <<log, memCurrent, promoted, calm, parent, binary>>
      /\ r.ph = "tiers" /\ r.chain # << >> /\ HandlerSound(r)
  BY Zenon DEF GatherTier, storeVars, memVars, history, server, SourceInv
<1>4. r \in Requests(F)
  BY <1>1, Zenon DEF Shape
<1>5. /\ R.ph = r.ph /\ R.s = r.s /\ R.files = r.files /\ R.deps = r.deps
      /\ R.tiers = Append(r.tiers, X) /\ R.chain = Tail(r.chain) /\ r.tiers \in Seq(F)
  BY <1>4, Zenon DEF Requests
<1>6. n \in Namespaces \ {Home[r.s]} /\ Tail(r.chain) \in Seq(Namespaces \ {Home[r.s]})
  <2>1. r.chain \in Seq(Namespaces \ {Home[r.s]})
    BY <1>3, Zenon DEF HandlerSound
  <2> HIDE DEF r
  <2> QED
    BY <1>3, <2>1
<1>7. \A d \in X : Backed(d) /\ Home[d.s] # Home[r.s]
  <2> HIDE DEF n, r
  <2>1. \A d \in FileRows(n, current) : Backed(d) /\ Home[d.s] = n
    BY StoreExisting, RowsBacked, Zenon
  <2>2. X = FileRows(n, current)
    BY Zenon DEF LoadNamespaceCurrent
  <2> HIDE DEF X
  <2> QED
    BY <1>6, <2>1, <2>2, Zenon
<1> HIDE DEF X, n, R, r
<1>8. \A i \in 1..Len(R.tiers) :
        (i \in 1..Len(r.tiers) /\ R.tiers[i] = r.tiers[i]) \/ R.tiers[i] = X
  <2>1. r.tiers \in Seq(G) /\ X \in G
    BY <1>5
  <2> QED
    BY <1>5, <2>1
<1>9. \A i \in 1..Len(R.tiers) : \A d \in R.tiers[i] : Backed(d) /\ Home[d.s] # Home[r.s]
  BY <1>3, <1>7, <1>8, Zenon DEF HandlerSound
<1>10. HandlerSound(R)
  BY <1>3, <1>5, <1>6, <1>9, Zenon DEF HandlerSound
<1> QED
  BY <1>2, <1>3, <1>10, SourceStays, Zenon DEF IInv

(* The files of a stored version can be read. *)
LEMMA BackedReadable ==
  ASSUME SourceInv, NEW d, Backed(d)
  PROVE  Readable(d)
<1>1. IsSourceSet(log[d.s][d.v].files) /\ d.f \in DOMAIN log[d.s][d.v].files
  BY Zenon DEF SourceInv, RowSound, Sound, Backed
<1> QED
  BY <1>1, Zenon DEF Readable, Backed, IsSourceSet, GetBlob

(* What gatherBuiltins reads has been promoted in __builtins__. *)
LEMMA BuiltinRows ==
  ASSUME IInv, NEW n, NEW d \in GatherBuiltins(n)
  PROVE  /\ Backed(d) /\ Home[d.s] = Builtins /\ <<d.s, d.v>> \in promoted
<1>1. d \in FileRows(Builtins, current)
  BY Zenon DEF GatherBuiltins, LoadNamespaceCurrent
<1>2. Backed(d) /\ Home[d.s] = Builtins /\ d.v = current[d.s]
  BY <1>1, StoreExisting, RowsBacked
<1>3. current[d.s] # 0
  BY <1>1 DEF FileRows
<1>4. <<d.s, current[d.s]>> \in promoted
  BY <1>2, <1>3, Zenon DEF IInv, PointersOK, Backed
<1> QED
  BY <1>2, <1>4, Zenon

(* The pins are the siblings and the tiers. *)
LEMMA PinnedBy ==
  ASSUME NEW r, NEW d
  PROVE  d \in Pins(r) <=> d \in r.deps \/ \E i \in 1..Len(r.tiers) : d \in r.tiers[i]
  BY Zenon DEF Pins, Elements

(* What the chain finds, the pins account for. *)
LEMMA PinsAccount ==
  ASSUME IInv, NEW r, r.ph # "idle", HandlerOK(r), HandlerSound(r), NEW fds, NEW f,
         ReadFrom(r.files, r.deps, r.tiers, GatherBuiltins(Home[r.s]), f, fds[f])
  PROVE  FromPins(r.s, r.files, Pins(r), fds, f)
<1> DEFINE sib == Siblings(r.s, Pins(r), f)
           own == Offers(r.deps, f)
           all == Offers(Pins(r), f)
           t == fds[f]
<1>1. sib = own
  BY PinnedBy, Zenon DEF HandlerOK, HandlerSound, Siblings, Offers
<1>2. \A d : d \in all <=> d \in own \/ \E i \in 1..Len(r.tiers) : d \in Offers(r.tiers[i], f)
  BY PinnedBy, Zenon DEF Offers
<1>3. ASSUME NEW d \in Offers(GatherBuiltins(Home[r.s]), f), t = GetBlob(d)
      PROVE  \E b \in promoted : /\ Home[b[1]] = Builtins
                                 /\ f \in DOMAIN Row(b).files
                                 /\ Row(b).files[f] = t
  <2> DEFINE b == <<d.s, d.v>>
  <2>1. d.f = f /\ Backed(d) /\ Home[d.s] = Builtins /\ b \in promoted
    BY BuiltinRows, Zenon DEF Offers
  <2>2. b[1] = d.s /\ Row(b) = log[d.s][d.v]
    BY DEF Row
  <2> HIDE DEF b, t
  <2> QED
    BY <1>3, <2>1, <2>2, Zenon DEF Backed, GetBlob
<1>4. /\ own # {} => \E d \in own : t = GetBlob(d) /\ \A e \in own : e.s <= d.s
      /\ own = {} /\ f \in DOMAIN r.files => t = r.files[f]
      /\ own = {} /\ f \notin DOMAIN r.files /\ all # {} => \E d \in all : t = GetBlob(d)
      /\ f \notin DOMAIN r.files /\ all = {} =>
            \E d \in Offers(GatherBuiltins(Home[r.s]), f) : t = GetBlob(d)
  <2> HIDE DEF own, all, t
  <2> QED
    BY <1>2, Zenon DEF ReadFrom, own, t
<1> QED
  BY <1>1, <1>3, <1>4, Zenon DEF FromPins

(* What is compiled is sound. *)
LEMMA CompileSourcesSource ==
  ASSUME IInv, SourceInv, NEW p \in Procs, CompileSources(p)
  PROVE  SourceInv'
<1>1. PICK F : Shape(F)
  BY Zenon DEF IInv, Shaped
<1> DEFINE r == pub[p]
           B == GatherBuiltins(Home[r.s])
           fds == Compile(r.files, r.deps, r.tiers, B)
           v == Len(log[r.s]) + 1
           R == [r EXCEPT !.fds = fds, !.v = v, !.ph = "check"]
<1>2. /\ UNCHANGED <<log, memCurrent, promoted, calm, parent, binary>>
      /\ r.ph = "tiers" /\ HandlerSound(r) /\ HandlerOK(r)
  BY Zenon DEF CompileSources, storeVars, memVars, history, server, SourceInv, IInv
<1>3. CASE Reply(p, "error")
  BY <1>2, <1>3, ReplySource, Zenon DEF IInv
<1>4. CASE fds # None /\ pub' = [pub EXCEPT ![p].fds = fds, ![p].v = v, ![p].ph = "check"]
  <2>1. pub' = [pub EXCEPT ![p] = R] /\ r \in Requests(F)
    BY <1>1, <1>4, Zenon DEF Shape
  <2>2. Len(r.tiers) \in Nat
    <3>1. r.tiers \in Seq(F)
      BY <2>1, Zenon DEF Requests
    <3> QED
      BY <3>1
  <2>3. AllReadable(r.deps, r.tiers, B)
    <3>1. \A d \in B : Backed(d)
      BY BuiltinRows, Zenon
    <3> HIDE DEF B, r
    <3> QED
      BY <1>2, <3>1, BackedReadable, Zenon DEF AllReadable, HandlerSound
  <2>4. IsSourceSet(r.files)
    BY <1>2, Zenon DEF HandlerSound
  <2> HIDE DEF r
  <2>5. /\ IsSourceSet(fds)
        /\ DOMAIN r.files \subseteq DOMAIN fds
        /\ StandsAlone(fds)
        /\ \A f \in DOMAIN fds : ReadFrom(r.files, r.deps, r.tiers, B, f, fds[f])
    BY <1>4, <2>2, <2>3, <2>4, CompileMakes, Zenon
  <2> HIDE DEF fds
  <2>6. \A f \in DOMAIN fds : FromPins(r.s, r.files, Pins(r), fds, f)
    BY <1>2, <2>5, PinsAccount, Zenon
  <2>7. \A d \in Pins(r) : Backed(d)
    BY <1>2, PinnedBy, Zenon DEF HandlerSound
  <2>8. Sound(r.s, r.files, Pins(r), fds)
    BY <1>4, <2>4, <2>5, <2>6, <2>7, Zenon DEF Sound
  <2> HIDE DEF v
  <2>9. /\ R.s = r.s /\ R.ph = "check" /\ R.files = r.files /\ R.deps = r.deps
        /\ R.tiers = r.tiers /\ R.fds = fds /\ R.chain = r.chain
    BY <2>1, Zenon DEF Requests
  <2> HIDE DEF R
  <2>10. Pins(R) = Pins(r)
    BY <2>9, Zenon DEF Pins
  <2>11. HandlerSound(R)
    BY <1>2, <2>8, <2>9, <2>10, Zenon DEF HandlerSound
  <2> QED
    BY <1>2, <2>1, <2>11, SourceStays, Zenon DEF IInv
<1> QED
  BY <1>3, <1>4, Zenon DEF CompileSources

(* A name that two descriptor sets have in files of different paths is     *)
(* what DetectFQNConflicts looks for.                                      *)
LEMMA ConflictFound ==
  ASSUME NEW child, NEW ancestor, NEW f \in DOMAIN child, NEW g \in DOMAIN ancestor, f # g,
         Defines[child[f]] \cap Defines[ancestor[g]] # {}
  PROVE  DetectFQNConflicts(child, ancestor)
<1>1. PICK x : x \in Defines[child[f]] /\ x \in Defines[ancestor[g]]
  BY Zenon
<1> DEFINE c == [name |-> x, f |-> f]
           a == [name |-> x, f |-> g]
<1>2. c \in CollectFQNs(child) /\ a \in CollectFQNs(ancestor)
  BY <1>1 DEF CollectFQNs
<1>3. c.name = a.name /\ c.f = f /\ a.f = g
  BY Zenon
<1> HIDE DEF c, a
<1> QED
  BY <1>2, <1>3, Zenon DEF DetectFQNConflicts

(* A check against what was compiled with leaves no name in common. *)
LEMMA CheckedClear ==
  ASSUME SourceInv, NEW r, r.ph = "check", HandlerOK(r), HandlerSound(r), NEW up,
         \A s \in up : /\ memCurrent[s] # NoSnap
                       /\ ~DetectFQNConflicts(r.fds, memCurrent[s].fds)
                       /\ Faithful(s),
         {<<s, memCurrent[s].v>> : s \in up}
            = UNION {{<<d.s, d.v>> : d \in r.tiers[i]} : i \in 1..Len(r.tiers)}
  PROVE  Clear(r.s, r.files, Pins(r), r.fds)
<1> SUFFICES ASSUME NEW f \in DOMAIN r.files, NEW d \in Pins(r), Home[d.s] # Home[r.s], f # d.f
             PROVE  Defines[r.fds[f]] \cap Defines[log[d.s][d.v].fds[d.f]] = {}
  BY Zenon DEF Clear
<1>1. PICK i \in 1..Len(r.tiers) : d \in r.tiers[i]
  BY PinnedBy, Zenon DEF HandlerOK
<1>2. PICK s \in up : <<d.s, d.v>> = <<s, memCurrent[s].v>>
  <2>1. <<d.s, d.v>> \in UNION {{<<e.s, e.v>> : e \in r.tiers[j]} : j \in 1..Len(r.tiers)}
    BY <1>1
  <2> QED
    BY <2>1, Zenon
<1>3. d.s = s /\ d.v = memCurrent[s].v
  BY <1>2, Zenon
<1>4. memCurrent[s].fds = log[d.s][d.v].fds
  BY <1>2, <1>3, Zenon DEF Faithful
<1>5. d.f \in DOMAIN log[d.s][d.v].fds
  <2>1. Backed(d)
    BY <1>1, Zenon DEF HandlerSound
  <2> QED
    BY <2>1, Zenon DEF Backed, SourceInv, RowSound, Sound
<1>6. f \in DOMAIN r.fds
  BY Zenon DEF HandlerSound, Sound
<1>7. ~DetectFQNConflicts(r.fds, log[d.s][d.v].fds)
  BY <1>2, <1>4, Zenon
<1> QED
  BY <1>5, <1>6, <1>7, ConflictFound, Zenon

(* The name check leaves what was compiled as it is. *)
LEMMA CheckConflictsSource ==
  ASSUME IInv, SourceInv, NEW p \in Procs, CheckConflicts(p)
  PROVE  SourceInv'
<1>1. PICK F : Shape(F)
  BY Zenon DEF IInv, Shaped
<1> DEFINE r == pub[p]
           up == {s \in AncestorSchemas(Home[r.s]) : memCurrent[s] # NoSnap}
           seen == {<<s, memCurrent[s].v>> : s \in up}
           used == UNION {{<<d.s, d.v>> : d \in r.tiers[i]} : i \in 1..Len(r.tiers)}
           c == (seen = used /\ \A s \in up : Faithful(s))
           R == [r EXCEPT !.ph = "record", !.calm = c]
<1>2. /\ UNCHANGED <<log, memCurrent, promoted, calm, parent, binary>>
      /\ r.ph = "check" /\ HandlerSound(r) /\ HandlerOK(r)
  BY Zenon DEF CheckConflicts, storeVars, memVars, history, server, SourceInv, IInv
<1>3. CASE Reply(p, "error")
  BY <1>2, <1>3, ReplySource, Zenon DEF IInv
<1>4. CASE /\ ~ \E s \in up : DetectFQNConflicts(r.fds, memCurrent[s].fds)
           /\ pub' = [pub EXCEPT ![p].ph = "record", ![p].calm = c]
  <2>1. pub' = [pub EXCEPT ![p] = R] /\ r \in Requests(F)
    BY <1>1, <1>4, Zenon DEF Shape
  <2>2. c => Clear(r.s, r.files, Pins(r), r.fds)
    <3> SUFFICES ASSUME c PROVE Clear(r.s, r.files, Pins(r), r.fds)
      BY Zenon
    <3>1. \A s \in up : /\ memCurrent[s] # NoSnap
                        /\ ~DetectFQNConflicts(r.fds, memCurrent[s].fds)
                        /\ Faithful(s)
      BY <1>4, Zenon
    <3>2. {<<s, memCurrent[s].v>> : s \in up}
            = UNION {{<<d.s, d.v>> : d \in r.tiers[i]} : i \in 1..Len(r.tiers)}
      BY Zenon
    <3> HIDE DEF up, r, seen, used
    <3> QED
      BY <1>2, <3>1, <3>2, CheckedClear, Zenon
  <2> HIDE DEF c, r
  <2>3. /\ R.s = r.s /\ R.ph = "record" /\ R.files = r.files /\ R.deps = r.deps
        /\ R.tiers = r.tiers /\ R.fds = r.fds /\ R.chain = r.chain /\ R.calm = c
    BY <2>1, Zenon DEF Requests
  <2> HIDE DEF R
  <2>4. Pins(R) = Pins(r)
    BY <2>3, Zenon DEF Pins
  <2>5. HandlerSound(R)
    BY <1>2, <2>2, <2>3, <2>4, Zenon DEF HandlerSound
  <2> QED
    BY <1>2, <2>1, <2>5, SourceStays, Zenon DEF IInv
<1> QED
  BY <1>3, <1>4, Zenon DEF CheckConflicts

(* The row holds what was compiled and what it was compiled from. *)
LEMMA RecordSource ==
  ASSUME IInv, SourceInv, NEW p \in Procs, Record(p), IInv'
  PROVE  SourceInv'
<1>1. PICK F : Shape(F)
  BY Zenon DEF IInv, Shaped
<1> DEFINE r == pub[p]
           row == [files |-> r.files, deps |-> Pins(r), fds |-> r.fds, cv |-> binary]
           k == Len(log[r.s])
<1>2. /\ binary' = binary /\ parent' = parent
      /\ r.ph = "record" /\ HandlerSound(r) /\ HandlerOK(r)
  BY Zenon DEF Record, server, SourceInv, IInv
<1>3. CASE UNCHANGED <<storeVars, memVars, history>>
  <2>1. Reply(p, "ok") \/ Reply(p, "error")
    BY Zenon DEF Record
  <2>2. UNCHANGED <<log, memCurrent, promoted, calm, parent, binary>>
    BY <1>2, <1>3, Zenon DEF storeVars, memVars, history
  <2> QED
    BY <2>1, <2>2, ReplySource, Zenon DEF IInv
<1>4. CASE /\ ~(Len(log[r.s]) >= r.v)
           /\ log' = [log EXCEPT ![r.s] = Append(@, row)]
           /\ calm' = IF r.calm THEN calm \cup {<<r.s, r.v>>} ELSE calm
           /\ Reply(p, "ok")
           /\ UNCHANGED <<current, memCurrent, promoted>>
  <2>1. r.s \in Schemas /\ r.v <= k + 1 /\ r \in Requests(F)
    BY <1>1, <1>2, Zenon DEF HandlerOK, Shape
  <2>2. log \in [Schemas -> Seq(F)] /\ k \in Nat /\ r.v \in Nat
    <3>1. log \in [Schemas -> Seq(F)] /\ r.v \in Nat
      BY <1>1, <2>1, Zenon DEF Shape, Requests
    <3> QED
      BY <2>1, <3>1
  <2>3. r.v = k + 1
    <3> HIDE DEF r
    <3> QED
      BY <1>4, <2>1, <2>2
  <2>4. \A s \in Schemas : s # r.s => log'[s] = log[s]
    BY <1>4, <2>2, Zenon
  <2>5. log'[r.s] = Append(log[r.s], row)
    BY <1>4, <2>1, <2>2, Zenon
  <2>6. PICK s : s = r.s
    BY Zenon
  <2>7. PICK w : w = row
    BY Zenon
  <2>8. /\ Len(log'[s]) = k + 1 /\ log'[s][k + 1] = w
        /\ \A v \in 1..k : log'[s][v] = log[s][v]
    <3>1. log[s] \in Seq(F \cup {w}) /\ w \in F \cup {w} /\ k = Len(log[s])
      BY <2>1, <2>2, <2>6
    <3>2. log'[s] = Append(log[s], w)
      BY <2>5, <2>6, <2>7, Zenon
    <3> HIDE DEF k, row, r
    <3> QED
      BY <3>1, <3>2
  <2>9. LogGrows /\ promoted \subseteq Rows
    <3>1. 1..k \subseteq 1..(k + 1)
      BY <2>2
    <3>2. ASSUME NEW t \in Schemas
          PROVE  Numbers(t) \subseteq Numbers(t)' /\ \A v \in Numbers(t) : log'[t][v] = log[t][v]
      <4>1. CASE t = s
        BY <2>6, <2>8, <3>1, <4>1, Zenon DEF Numbers
      <4>2. CASE t # s
        BY <2>4, <2>6, <4>2, Zenon DEF Numbers
      <4> QED
        BY <4>1, <4>2, Zenon
    <3> QED
      BY <1>4, <3>2, Zenon DEF LogGrows, SourceInv
  <2>10. PICK q : q = r
    BY Zenon
  <2>11. /\ w.files = q.files /\ w.deps = Pins(q) /\ w.fds = q.fds /\ w.cv = binary
         /\ HandlerSound(q) /\ q.ph = "record" /\ q.s = s /\ HandlerOK(q)
    BY <1>2, <2>6, <2>7, <2>10, Zenon
  <2>12. Sound(s, w.files, w.deps, w.fds)' /\ w.cv \in 0..1
    <3>1. Sound(s, w.files, w.deps, w.fds)
      BY <2>11, Zenon DEF HandlerSound
    <3> QED
      BY <2>9, <2>11, <3>1, SoundStays, Zenon DEF IInv, SourceInv
  <2>13. <<s, k + 1>> \in calm' => Clear(s, w.files, w.deps, w.fds)'
    <3> SUFFICES ASSUME <<s, k + 1>> \in calm' PROVE Clear(s, w.files, w.deps, w.fds)'
      BY Zenon
    <3>1. <<s, k + 1>> \notin calm
      <4> SUFFICES ASSUME <<s, k + 1>> \in calm PROVE FALSE
        BY Zenon
      <4>1. k + 1 \in Numbers(s)
        <5>1. <<s, k + 1>> \in Rows
          BY Zenon DEF SourceInv
        <5>2. <<s, k + 1>>[1] = s /\ <<s, k + 1>>[2] = k + 1
          BY Zenon
        <5> QED
          BY <1>1, <5>1, <5>2, RowOf, Zenon
      <4> QED
        BY <2>2, <2>6, <4>1 DEF Numbers
    <3>2. r.calm
      BY <1>4, <3>1, Zenon
    <3>3. Clear(s, w.files, w.deps, w.fds)
      BY <2>10, <2>11, <3>2, Zenon DEF HandlerSound
    <3> QED
      BY <2>9, <2>11, <3>3, ClearStays, Zenon DEF HandlerSound, Sound
  <2>14. ASSUME NEW t \in Schemas, NEW v \in Numbers(t)' PROVE RowSound(t, v)'
    <3>1. CASE t = s /\ v = k + 1
      <4>1. log'[t][v] = w
        BY <2>8, <3>1, Zenon
      <4>2. <<t, v>> \in calm' => <<s, k + 1>> \in calm'
        BY <3>1, Zenon
      <4> HIDE DEF k
      <4> QED
        BY <2>12, <2>13, <3>1, <4>1, <4>2, Zenon DEF RowSound
    <3>2. CASE t # s \/ v # k + 1
      <4>1. v \in Numbers(t)
        <5>1. CASE t # s
          BY <2>4, <2>6, <5>1, Zenon DEF Numbers
        <5>2. CASE t = s
          <6>1. v \in 1..(k + 1) /\ v # k + 1
            BY <2>8, <3>2, <5>2, Zenon DEF Numbers
          <6>2. v \in 1..k
            <7> HIDE DEF k
            <7> QED
              BY <2>2, <6>1
          <6> QED
            BY <2>6, <5>2, <6>2, Zenon DEF Numbers
        <5> QED
          BY <5>1, <5>2, Zenon
      <4>2. <<t, v>> \in calm' => <<t, v>> \in calm
        <5>1. <<t, v>> # <<r.s, r.v>>
          BY <2>3, <2>6, <3>2, Zenon
        <5> QED
          BY <1>4, <5>1, Zenon
      <4> QED
        BY <2>9, <4>1, <4>2, RowStays, Zenon DEF IInv, SourceInv
    <3> QED
      BY <3>1, <3>2, Zenon
  <2>15. ASSUME NEW x \in Procs PROVE HandlerSound(pub[x])'
    <3>1. PICK y : y = pub'[x]
      BY Zenon
    <3>2. HandlerSound(y)
      <4>1. CASE x = p
        <5>1. y.ph = "idle"
          BY <1>1, <1>4, <3>1, <4>1, Zenon DEF Reply, NoRequest, Shape
        <5> QED
          BY <5>1, Zenon DEF HandlerSound
      <4>2. CASE x # p
        BY <1>1, <1>4, <3>1, <4>2, Zenon DEF Reply, Shape, SourceInv
      <4> QED
        BY <4>1, <4>2, Zenon
    <3> QED
      BY <2>9, <3>1, <3>2, HandlerStays, Zenon DEF IInv
  <2>16. (promoted \cup calm)' \subseteq Rows'
    <3>1. PICK H : Shape(H)'
      BY Zenon DEF IInv, Shaped
    <3>2. ASSUME NEW t \in Schemas, NEW v \in Numbers(t)' PROVE <<t, v>> \in Rows'
      <4>1. log' \in [Schemas -> Seq(H)]
        BY <3>1, Zenon DEF Shape
      <4>2. DOMAIN log'[t] = Numbers(t)'
        BY <4>1 DEF Numbers
      <4> QED
        BY <4>2 DEF Rows
    <3>3. ASSUME NEW b \in Rows PROVE b \in Rows'
      <4>1. b[1] \in Schemas /\ b[2] \in Numbers(b[1]) /\ b = <<b[1], b[2]>>
        BY <1>1, RowOf, Zenon
      <4> QED
        BY <2>9, <3>2, <4>1, Zenon DEF LogGrows
    <3>4. <<r.s, r.v>> \in Rows'
      <4>1. k + 1 \in 1..(k + 1)
        BY <2>2
      <4>2. r.v \in Numbers(s)'
        BY <2>3, <2>8, <4>1, Zenon DEF Numbers
      <4>3. <<s, r.v>> \in Rows'
        <5>1. PICK v : v = r.v
          BY Zenon
        <5> QED
          BY <2>1, <2>6, <3>2, <4>2, <5>1, Zenon
      <4> QED
        BY <2>6, <4>3, Zenon
    <3> QED
      BY <1>4, <3>3, <3>4, Zenon DEF SourceInv
  <2> QED
    BY <1>2, <1>4, <2>14, <2>15, <2>16, Zenon DEF SourceInv, ParentsOK
<1> QED
  BY <1>3, <1>4, Zenon DEF Record
=============================================================================
