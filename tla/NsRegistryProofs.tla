-------------------------- MODULE NsRegistryProofs --------------------------
(***************************************************************************)
(* The registries of a namespace keep their indexes true to what is        *)
(* registered: proofs of the properties of NsRegistry for every set of     *)
(* files and types, every parent and every sequence of calls.              *)
(***************************************************************************)
EXTENDS NsRegistry, FiniteSetTheorems, TLAPS

(* A prefix is a name, is not empty and is not longer. *)
LEMMA PrefixType ==
    ASSUME NEW s \in Seq(Parts), NEW m \in Prefixes(s)
    PROVE  /\ m \in Seq(Parts) /\ m # << >>
           /\ Len(m) \in 1..Len(s) /\ Len(s) \in Nat
           /\ m = SubSeq(s, 1, Len(m))
           /\ \A j \in 1..Len(m) : m[j] = s[j]
<1>1. PICK i \in 1..Len(s) : m = SubSeq(s, 1, i)
  BY Zenon DEF Prefixes
<1>2. \A j \in 1..i : s[j] \in Parts
  BY <1>1
<1>3. /\ m \in Seq(Parts) /\ Len(m) = i
      /\ \A j \in 1..i : m[j] = s[j]
  BY <1>1, <1>2
<1> QED
  BY <1>1, <1>3

(* A name with the parts of another one's beginning is a prefix of it. *)
LEMMA PrefixIntro ==
    ASSUME NEW s \in Seq(Parts), NEW m \in Seq(Parts), Len(m) \in 1..Len(s),
           \A j \in 1..Len(m) : m[j] = s[j]
    PROVE  m \in Prefixes(s)
<1> DEFINE t == SubSeq(s, 1, Len(m))
<1>1. /\ t \in Seq(Parts) /\ Len(t) = Len(m)
      /\ \A j \in 1..Len(m) : t[j] = s[j]
  OBVIOUS
<1>2. m = t
  BY <1>1
<1> QED
  BY <1>2, Zenon DEF Prefixes

(* The prefixes of a name are ordered by their length. *)
LEMMA PrefixOrder ==
    ASSUME NEW s \in Seq(Parts), NEW m \in Prefixes(s), NEW k \in Prefixes(s),
           Len(k) <= Len(m)
    PROVE  k \in Prefixes(m) /\ (Len(k) = Len(m) => k = m)
<1>1. /\ m \in Seq(Parts) /\ k \in Seq(Parts) /\ Len(k) \in 1..Len(m)
      /\ \A j \in 1..Len(k) : k[j] = m[j]
  BY PrefixType
<1>2. k \in Prefixes(m)
  BY <1>1, PrefixIntro, Zenon
<1>3. Len(k) = Len(m) => k = m
  BY PrefixType, Zenon
<1> QED
  BY <1>2, <1>3, Zenon

(* A prefix of a prefix is a prefix. *)
LEMMA PrefixTrans ==
    ASSUME NEW s \in Seq(Parts), NEW m \in Prefixes(s), NEW k \in Prefixes(m)
    PROVE  k \in Prefixes(s) /\ Len(k) <= Len(m)
<1>1. m \in Seq(Parts) /\ Len(m) \in 1..Len(s) /\ \A j \in 1..Len(m) : m[j] = s[j]
  BY PrefixType, Zenon
<1>2. k \in Seq(Parts) /\ Len(k) \in 1..Len(m) /\ \A j \in 1..Len(k) : k[j] = m[j]
  BY <1>1, PrefixType, Zenon
<1> QED
  BY <1>1, <1>2, PrefixIntro

(* A name other than the root's is a prefix of itself. *)
LEMMA PrefixSelf ==
    ASSUME NEW s \in Seq(Parts), s # << >>
    PROVE  s \in Prefixes(s)
BY PrefixIntro

(* The root has no prefixes. *)
LEMMA PrefixRoot == Prefixes(<< >>) = {}
BY DEF Prefixes

(* A name in a package has the prefixes of the package and itself. *)
LEMMA PrefixAppend ==
    ASSUME NEW s \in Seq(Parts), NEW x \in Parts
    PROVE  /\ Append(s, x) \in Seq(Parts) /\ Append(s, x) # << >>
           /\ Len(Append(s, x)) = Len(s) + 1
           /\ Append(s, x) \notin Prefixes(s)
           /\ Prefixes(Append(s, x)) = Prefixes(s) \cup {Append(s, x)}
<1> DEFINE n == Append(s, x)
<1>1. /\ n \in Seq(Parts) /\ n # << >> /\ Len(n) = Len(s) + 1
      /\ \A i \in 1..Len(s) : n[i] = s[i]
  <2>1. /\ n \in Seq(Parts) /\ Len(n) = Len(s) + 1 /\ Len(s) \in Nat
        /\ \A i \in 1..Len(s) : n[i] = s[i]
    OBVIOUS
  <2> HIDE DEF n
  <2> QED
    BY <2>1
<1>2. n \notin Prefixes(s)
  <2>1. SUFFICES ASSUME n \in Prefixes(s) PROVE FALSE
    BY Zenon
  <2>2. Len(n) \in 1..Len(s) /\ Len(s) \in Nat
    BY <2>1, PrefixType, Zenon
  <2> HIDE DEF n
  <2> QED
    BY <2>2, <1>1
<1>3. ASSUME NEW m \in Prefixes(s) PROVE m \in Prefixes(n)
  <2>1. m \in Seq(Parts) /\ Len(m) \in 1..Len(s) /\ \A j \in 1..Len(m) : m[j] = s[j]
    BY PrefixType, Zenon
  <2> HIDE DEF n
  <2> QED
    BY <2>1, <1>1, PrefixIntro
<1>4. n \in Prefixes(n)
  BY <1>1, PrefixSelf, Zenon
<1>5. ASSUME NEW m \in Prefixes(n), m # n PROVE m \in Prefixes(s)
  <2> HIDE DEF n
  <2>1. m \in Seq(Parts) /\ Len(m) \in 1..Len(n) /\ \A j \in 1..Len(m) : m[j] = n[j]
    BY <1>1, PrefixType, Zenon
  <2>2. Len(m) # Len(n)
    BY <1>1, <1>4, <1>5, PrefixOrder, <2>1
  <2>3. Len(m) \in 1..Len(s)
    BY <2>1, <2>2, <1>1
  <2> QED
    BY <2>1, <2>3, <1>1, PrefixIntro
<1> QED
  BY <1>1, <1>2, <1>3, <1>4, <1>5, Zenon

-----------------------------------------------------------------------------
(* The index d against a set R of files.  P holds the packages that keep   *)
(* others alive: an entry other than the root's has one in P at or below   *)
(* it, with all between present, so the walk that cleans up after the last *)
(* file of a package leaves nothing behind.  N holds the names whose file  *)
(* has been taken out and that the file to come is about to declare.       *)
Kept(d, P, n) ==
    \E p \in P : /\ n \in Prefixes(p)
                 /\ \A m \in Prefixes(p) : Len(m) >= Len(n) => IsPackage(d, m)

IndexInv(d, R, P, N) ==
    /\ IsPackage(d, << >>) /\ DOMAIN d \subseteq Seq(Parts)
    /\ \A n \in DOMAIN d : IsPackage(d, n) => d[n] = Package({f \in R : f.pkg = n})
    /\ \A n \in DOMAIN d : ~IsPackage(d, n) => n \in N \/ \E f \in R : n \in f.names
    /\ \A n \in N : ~IsPackage(d, n) /\ \A f \in R : n \notin f.names
    /\ \A f \in R : IsPackage(d, f.pkg)
    /\ \A f \in R : \A n \in f.names : n \in DOMAIN d /\ d[n] = Entry(f)
    /\ \A n \in DOMAIN d : IsPackage(d, n) /\ n # << >> => Kept(d, P, n)

Pkgs(R) == {f.pkg : f \in R}

-----------------------------------------------------------------------------
(* The names of a file lie directly in its package. *)
LEMMA FileNames ==
    ASSUME NEW f \in FileDescs \cup ParentFiles
    PROVE  /\ f.pkg \in Seq(Parts) /\ f.pkg \notin f.names
           /\ f.pkg = << >> \/ f.pkg \in Prefixes(f.pkg)
           /\ \A n \in f.names : /\ n \in Seq(Parts) /\ n # << >>
                                 /\ Len(n) = Len(f.pkg) + 1
                                 /\ n \notin Prefixes(f.pkg)
                                 /\ Prefixes(n) = Prefixes(f.pkg) \cup {n}
<1>1. f.pkg \in Seq(Parts) /\ f.names \subseteq {Append(f.pkg, x) : x \in Parts}
  BY NsAssumption, Zenon
<1>2. ASSUME NEW n \in f.names
      PROVE  /\ n \in Seq(Parts) /\ n # << >> /\ Len(n) = Len(f.pkg) + 1
             /\ n \notin Prefixes(f.pkg) /\ Prefixes(n) = Prefixes(f.pkg) \cup {n}
  <2>1. PICK x \in Parts : n = Append(f.pkg, x)
    BY <1>1, Zenon
  <2> QED
    BY <2>1, <1>1, PrefixAppend, Zenon
<1>3. f.pkg = << >> \/ f.pkg \in Prefixes(f.pkg)
  BY <1>1, PrefixSelf, Zenon
<1>4. f.pkg \notin f.names
  BY <1>2, <1>3, Zenon
<1> QED
  BY <1>1, <1>2, <1>3, <1>4, Zenon

(* What the two forms of an entry are. *)
LEMMA Entries ==
    /\ \A S : Package(S).kind = "package" /\ Package(S).files = S
    /\ \A S, f : [Package(S) EXCEPT !.files = @ \cup {f}] = Package(S \cup {f})
    /\ \A S, f : [Package(S) EXCEPT !.files = @ \ {f}] = Package(S \ {f})
    /\ \A f : Entry(f).kind # "package" /\ Entry(f).files = {f}
    /\ \A f, g : Entry(f) = Entry(g) => f = g
<1>1. \A S : Package(S).kind = "package" /\ Package(S).files = S
  BY Zenon DEF Package
<1>2. /\ \A S, f : [Package(S) EXCEPT !.files = @ \cup {f}] = Package(S \cup {f})
      /\ \A S, f : [Package(S) EXCEPT !.files = @ \ {f}] = Package(S \ {f})
  BY DEF Package
<1>3. \A f : Entry(f).kind # "package" /\ Entry(f).files = {f}
  BY Zenon DEF Entry
<1>4. \A f, g : Entry(f) = Entry(g) => f = g
  <2> TAKE f, g
  <2> HAVE Entry(f) = Entry(g)
  <2>1. {f} = {g}
    BY <1>3, Zenon
  <2> QED
    BY <2>1, Zenon
<1> QED
  BY <1>1, <1>2, <1>3, <1>4, Zenon

(* The index e is d with the file f in it, entry by entry. *)
Inserted(d, f, e) ==
    /\ DOMAIN e = DOMAIN d \cup Prefixes(f.pkg) \cup f.names
    /\ \A n \in f.names : e[n] = Entry(f)
    /\ \A n \in DOMAIN d : n \notin f.names /\ n # f.pkg => e[n] = d[n]
    /\ \A n \in Prefixes(f.pkg) :
          n \notin f.names /\ n # f.pkg /\ n \notin DOMAIN d => e[n] = Package({})
    /\ \A S : f.pkg \in DOMAIN d /\ d[f.pkg] = Package(S) => e[f.pkg] = Package(S \cup {f})
    /\ f.pkg \in Prefixes(f.pkg) /\ f.pkg \notin DOMAIN d => e[f.pkg] = Package({f})

(* insertFileLocked puts the file into the index. *)
LEMMA InsertAt ==
    ASSUME NEW d, NEW f \in FileDescs
    PROVE  Inserted(d, f, InsertFile(d, f))
<1> SUFFICES ASSUME NEW e, e = InsertFile(d, f) PROVE Inserted(d, f, e)
  BY Zenon
<1> DEFINE made == [n \in DOMAIN d \cup Prefixes(f.pkg) |->
                       IF n \in DOMAIN d THEN d[n] ELSE Package({})]
           listed == [made EXCEPT ![f.pkg].files = @ \cup {f}]
<1>1. e = [n \in DOMAIN listed \cup f.names |->
                 IF n \in f.names THEN Entry(f) ELSE listed[n]]
  BY Zenon DEF InsertFile
<1>2. f.pkg \notin f.names
  BY FileNames, Zenon
<1>3. DOMAIN listed = DOMAIN d \cup Prefixes(f.pkg)
  BY Zenon
<1>4. \A n \in DOMAIN listed : n # f.pkg => listed[n] = made[n]
  BY Zenon
<1>5. f.pkg \in DOMAIN listed =>
         listed[f.pkg] = [made[f.pkg] EXCEPT !.files = @ \cup {f}]
  BY Zenon
<1> HIDE DEF listed
<1>6. ASSUME NEW S, f.pkg \in DOMAIN d, d[f.pkg] = Package(S)
      PROVE  e[f.pkg] = Package(S \cup {f})
  <2>1. made[f.pkg] = Package(S) /\ f.pkg \in DOMAIN listed /\ e[f.pkg] = listed[f.pkg]
    BY <1>1, <1>2, <1>3, <1>6, Zenon
  <2> HIDE DEF made
  <2>2. e[f.pkg] = [Package(S) EXCEPT !.files = @ \cup {f}]
    BY <2>1, <1>5, Zenon
  <2> QED
    BY <2>2, Entries, Zenon
<1>7. ASSUME f.pkg \in Prefixes(f.pkg), f.pkg \notin DOMAIN d
      PROVE  e[f.pkg] = Package({f})
  <2>1. made[f.pkg] = Package({}) /\ f.pkg \in DOMAIN listed /\ e[f.pkg] = listed[f.pkg]
    <3>1. f.pkg \in DOMAIN listed
      BY <1>3, <1>7, Zenon
    <3> QED
      BY <1>1, <1>2, <3>1, <1>3, <1>7, Zenon
  <2> HIDE DEF made
  <2>2. e[f.pkg] = [Package({}) EXCEPT !.files = @ \cup {f}]
    BY <2>1, <1>5, Zenon
  <2>3. {} \cup {f} = {f}
    BY Zenon
  <2>4. [Package({}) EXCEPT !.files = @ \cup {f}] = Package({} \cup {f})
    BY Entries, Zenon
  <2> QED
    BY <2>2, <2>3, <2>4, Zenon
<1>8. DOMAIN e = DOMAIN d \cup Prefixes(f.pkg) \cup f.names
  BY <1>1, <1>3, Zenon
<1>9. \A n \in f.names : e[n] = Entry(f)
  BY <1>1, <1>3, Zenon
<1>10. /\ \A n \in DOMAIN d : n \notin f.names /\ n # f.pkg => e[n] = d[n]
       /\ \A n \in Prefixes(f.pkg) :
             n \notin f.names /\ n # f.pkg /\ n \notin DOMAIN d => e[n] = Package({})
  BY <1>1, <1>3, <1>4, Zenon
<1> QED
  BY <1>6, <1>7, <1>8, <1>9, <1>10, Zenon DEF Inserted

(* insertFileLocked after the conflict checks: the file is in the index. *)
LEMMA InsertKeeps ==
    ASSUME NEW d, NEW R \in SUBSET FileDescs, NEW P, NEW N, NEW f \in FileDescs,
           IndexInv(d, R, P, N), N \subseteq f.names, f.names \cap DOMAIN d \subseteq N,
           \A n \in Prefixes(f.pkg) : n \notin DOMAIN d \/ IsPackage(d, n)
    PROVE  IndexInv(InsertFile(d, f), R \cup {f}, P \cup {f.pkg}, {})
<1> DEFINE R2 == R \cup {f}
           P2 == P \cup {f.pkg}
<1> SUFFICES ASSUME NEW e, Inserted(d, f, e) PROVE IndexInv(e, R2, P2, {})
  BY InsertAt, Zenon
<1>0. /\ f.pkg \in Seq(Parts) /\ f.pkg \notin f.names
      /\ f.pkg = << >> \/ f.pkg \in Prefixes(f.pkg)
      /\ f.names \cap Prefixes(f.pkg) = {} /\ f.names \subseteq Seq(Parts)
  BY FileNames, Zenon
<1>1. /\ DOMAIN e = DOMAIN d \cup Prefixes(f.pkg) \cup f.names
      /\ \A n \in f.names : e[n] = Entry(f)
      /\ \A n \in DOMAIN d : n \notin f.names /\ n # f.pkg => e[n] = d[n]
      /\ \A n \in Prefixes(f.pkg) : n # f.pkg /\ n \notin DOMAIN d => e[n] = Package({})
  <2>1. \A n \in Prefixes(f.pkg) : n \notin f.names
    BY <1>0, Zenon
  <2> QED
    BY <2>1, Zenon DEF Inserted
<1>2. /\ \A S : f.pkg \in DOMAIN d /\ d[f.pkg] = Package(S) => e[f.pkg] = Package(S \cup {f})
      /\ f.pkg \in DOMAIN d => IsPackage(d, f.pkg)
  BY <1>0, Zenon DEF IndexInv, Inserted
<1>3. f.pkg \notin DOMAIN d => e[f.pkg] = Package({f})
  BY <1>0, Zenon DEF IndexInv, IsPackage, Inserted
<1>4. \A g \in R : g.pkg \in DOMAIN d
  BY Zenon DEF IndexInv, IsPackage
<1>5. e[f.pkg] = Package({g \in R2 : g.pkg = f.pkg})
  <2>1. CASE f.pkg \in DOMAIN d
    <3> DEFINE S == {g \in R : g.pkg = f.pkg}
    <3>1. d[f.pkg] = Package(S)
      BY <2>1, <1>2, Zenon DEF IndexInv
    <3>3. S \cup {f} = {g \in R2 : g.pkg = f.pkg}
      BY Zenon
    <3> HIDE DEF S
    <3>2. e[f.pkg] = Package(S \cup {f})
      BY <2>1, <1>2, <3>1, Zenon
    <3> QED
      BY <3>2, <3>3, Zenon
  <2>2. CASE f.pkg \notin DOMAIN d
    <3>1. {f} = {g \in R2 : g.pkg = f.pkg}
      BY <2>2, <1>4, Zenon
    <3> QED
      BY <3>1, <2>2, <1>3, Zenon
  <2> QED
    BY <2>1, <2>2, Zenon
<1>6. f.pkg \in DOMAIN e /\ IsPackage(e, f.pkg)
  <2>1. f.pkg \in DOMAIN d \cup Prefixes(f.pkg)
    BY <1>0, Zenon DEF IsPackage, IndexInv
  <2>2. f.pkg \in DOMAIN e
    BY <2>1, <1>1, Zenon
  <2> QED
    BY <2>2, <1>5, Entries, Zenon DEF IsPackage
<1>7. \A n : IsPackage(d, n) => IsPackage(e, n)
  <2> SUFFICES ASSUME NEW n, IsPackage(d, n) PROVE IsPackage(e, n)
    BY Zenon
  <2>1. n \notin f.names
    BY Zenon DEF IndexInv, IsPackage
  <2> QED
    BY <2>1, <1>1, <1>6, Zenon DEF IsPackage
<1>8. \A n \in Prefixes(f.pkg) : IsPackage(e, n)
  <2> SUFFICES ASSUME NEW n \in Prefixes(f.pkg), n # f.pkg, n \notin DOMAIN d
               PROVE  IsPackage(e, n)
    BY <1>6, <1>7, Zenon
  <2> QED
    BY <1>1, Entries, Zenon DEF IsPackage
<1>9. IsPackage(e, << >>) /\ DOMAIN e \subseteq Seq(Parts)
  <2>1. Prefixes(f.pkg) \subseteq Seq(Parts)
    BY <1>0, PrefixType, Zenon
  <2> QED
    BY <2>1, <1>0, <1>1, <1>7, Zenon DEF IndexInv
<1>10. ASSUME NEW n \in DOMAIN e, IsPackage(e, n)
       PROVE  e[n] = Package({g \in R2 : g.pkg = n})
  <2>1. n \notin f.names
    BY <1>1, <1>10, Entries, Zenon DEF IsPackage
  <2>2. CASE n = f.pkg
    BY <2>2, <1>5, Zenon
  <2>3. CASE n # f.pkg /\ n \in DOMAIN d
    <3>1. e[n] = d[n] /\ IsPackage(d, n)
      BY <2>1, <2>3, <1>1, <1>10, Zenon DEF IsPackage
    <3>2. {g \in R2 : g.pkg = n} = {g \in R : g.pkg = n}
      BY <2>3, Zenon
    <3> QED
      BY <3>1, <3>2, <2>3, Zenon DEF IndexInv
  <2>4. CASE n # f.pkg /\ n \notin DOMAIN d
    <3>1. e[n] = Package({})
      BY <2>4, <2>1, <1>1, Zenon
    <3>2. {g \in R2 : g.pkg = n} = {}
      BY <2>4, <1>4, Zenon
    <3> QED
      BY <3>1, <3>2, Zenon
  <2> QED
    BY <2>2, <2>3, <2>4, Zenon
<1>11. ASSUME NEW n \in DOMAIN e, ~IsPackage(e, n)
       PROVE  \E g \in R2 : n \in g.names
  <2>1. CASE n \in f.names
    BY <2>1, Zenon
  <2>2. CASE n \notin f.names
    <3>1. n \in DOMAIN d /\ ~IsPackage(d, n)
      BY <2>2, <1>1, <1>7, <1>8, <1>11, Zenon
    <3> QED
      BY <3>1, <2>2, Zenon DEF IndexInv
  <2> QED
    BY <2>1, <2>2, Zenon
<1>12. \A g \in R2 : IsPackage(e, g.pkg)
  BY <1>6, <1>7, Zenon DEF IndexInv
<1>13. ASSUME NEW g \in R2, NEW n \in g.names
       PROVE  n \in DOMAIN e /\ e[n] = Entry(g)
  <2>1. CASE g = f
    BY <2>1, <1>1, Zenon
  <2>2. CASE g # f
    <3>1. g \in R /\ n \in DOMAIN d /\ d[n] = Entry(g)
      BY <2>2, Zenon DEF IndexInv
    <3>2. ~IsPackage(d, n) /\ n \notin f.names
      BY <3>1, Entries, Zenon DEF IndexInv, IsPackage
    <3>3. n # f.pkg
      BY <3>1, <3>2, <1>2, Zenon
    <3> QED
      BY <3>1, <3>2, <3>3, <1>1, Zenon
  <2> QED
    BY <2>1, <2>2, Zenon
<1>14. ASSUME NEW n \in DOMAIN e, IsPackage(e, n), n # << >>
       PROVE  Kept(e, P2, n)
  <2>1. CASE n \in Prefixes(f.pkg)
    BY <2>1, <1>8, Zenon DEF Kept
  <2>2. CASE n \notin Prefixes(f.pkg)
    <3>1. n \notin f.names /\ n # f.pkg
      BY <2>2, <1>0, <1>1, <1>14, Entries, Zenon DEF IsPackage
    <3>2. n \in DOMAIN d /\ IsPackage(d, n)
      BY <3>1, <2>2, <1>1, <1>14, Zenon DEF IsPackage
    <3> QED
      BY <3>2, <1>7, <1>14, Zenon DEF IndexInv, Kept
  <2> QED
    BY <2>1, <2>2, Zenon
<1> QED
  BY <1>9, <1>10, <1>11, <1>12, <1>13, <1>14, Zenon DEF IndexInv

(* A map with keys deleted, entry by entry. *)
LEMMA WithoutAt ==
    ASSUME NEW d, NEW S
    PROVE  /\ DOMAIN Without(d, S) = DOMAIN d \ S
           /\ \A n \in DOMAIN d : n \notin S => Without(d, S)[n] = d[n]
BY Zenon DEF Without

(* Taking a file out of the list of its package, and some of its names out *)
(* of the index, leaves what the other files need.                         *)
LEMMA RemoveKeeps ==
    ASSUME NEW d, NEW R \in SUBSET FileDescs, NEW P, NEW g \in R, NEW S \in SUBSET g.names,
           IndexInv(d, R, P, {})
    PROVE  IndexInv(RemoveFile(Without(d, S), g), R \ {g}, P, g.names \ S)
<1> DEFINE R2 == R \ {g}
<1>1. PICK w : w = Without(d, S)
  BY Zenon
<1>2. DOMAIN w = DOMAIN d \ S /\ \A n \in DOMAIN d : n \notin S => w[n] = d[n]
  BY <1>1, Zenon DEF Without
<1>3. \A n \in g.names : n \in DOMAIN d /\ d[n] = Entry(g) /\ ~IsPackage(d, n)
  BY Entries, Zenon DEF IndexInv, IsPackage
<1>4. IsPackage(d, g.pkg) /\ g.pkg \notin S /\ IsPackage(w, g.pkg) /\ g.pkg \in DOMAIN d
  BY <1>2, <1>3, Zenon DEF IndexInv, IsPackage
<1>5. PICK e : e = RemoveFile(w, g)
  BY Zenon
<1>6. e = [w EXCEPT ![g.pkg].files = @ \ {g}]
  BY <1>4, <1>5, Zenon DEF RemoveFile
<1>7. DOMAIN e = DOMAIN d \ S
  BY <1>6, <1>2, Zenon
<1>8. \A n \in DOMAIN d : n \notin S /\ n # g.pkg => e[n] = d[n]
  BY <1>6, <1>2, Zenon
<1>9. e[g.pkg] = Package({f \in R2 : f.pkg = g.pkg})
  <2> DEFINE T == {f \in R : f.pkg = g.pkg}
  <2>1. w[g.pkg] = Package(T) /\ g.pkg \in DOMAIN w
    BY <1>2, <1>4, Zenon DEF IndexInv
  <2>2. T \ {g} = {f \in R2 : f.pkg = g.pkg}
    BY Zenon
  <2> HIDE DEF T
  <2>3. e[g.pkg] = [Package(T) EXCEPT !.files = @ \ {g}]
    BY <2>1, <1>6, Zenon
  <2>4. e[g.pkg] = Package(T \ {g})
    BY <2>3, Entries, Zenon
  <2> QED
    BY <2>2, <2>4, Zenon
<1>10. \A n : IsPackage(e, n) <=> IsPackage(d, n)
  <2> TAKE n
  <2>1. CASE n = g.pkg
    BY <2>1, <1>4, <1>7, <1>9, Entries, Zenon DEF IsPackage
  <2>2. CASE n # g.pkg
    BY <2>2, <1>3, <1>7, <1>8, Zenon DEF IsPackage
  <2> QED
    BY <2>1, <2>2, Zenon
<1>11. ASSUME NEW n \in DOMAIN e, IsPackage(e, n)
       PROVE  e[n] = Package({f \in R2 : f.pkg = n})
  <2>1. CASE n = g.pkg
    BY <2>1, <1>9, Zenon
  <2>2. CASE n # g.pkg
    <3>1. e[n] = d[n] /\ n \in DOMAIN d /\ IsPackage(d, n)
      BY <2>2, <1>7, <1>8, <1>10, <1>11, Zenon
    <3>2. {f \in R2 : f.pkg = n} = {f \in R : f.pkg = n}
      BY <2>2, Zenon
    <3> QED
      BY <3>1, <3>2, Zenon DEF IndexInv
  <2> QED
    BY <2>1, <2>2, Zenon
<1>12. ASSUME NEW n \in DOMAIN e, ~IsPackage(e, n)
       PROVE  n \in g.names \ S \/ \E f \in R2 : n \in f.names
  <2>1. n \in DOMAIN d /\ n \notin S /\ ~IsPackage(d, n)
    BY <1>7, <1>10, <1>12, Zenon
  <2>2. PICK f \in R : n \in f.names
    BY <2>1, Zenon DEF IndexInv
  <2> QED
    BY <2>1, <2>2, Zenon
<1>13. ASSUME NEW n \in g.names \ S
       PROVE  ~IsPackage(e, n) /\ \A f \in R2 : n \notin f.names
  <2>1. ~IsPackage(e, n)
    BY <1>3, <1>10, Zenon
  <2>2. ASSUME NEW f \in R2, n \in f.names PROVE FALSE
    <3>1. d[n] = Entry(f) /\ d[n] = Entry(g)
      BY <2>2, <1>3, Zenon DEF IndexInv
    <3> QED
      BY <3>1, Entries, Zenon
  <2> QED
    BY <2>1, <2>2, Zenon
<1>14. \A f \in R2 : IsPackage(e, f.pkg)
  BY <1>10, Zenon DEF IndexInv
<1>15. ASSUME NEW f \in R2, NEW n \in f.names
       PROVE  n \in DOMAIN e /\ e[n] = Entry(f)
  <2>1. n \in DOMAIN d /\ d[n] = Entry(f)
    BY Zenon DEF IndexInv
  <2>2. n \notin S
    BY <2>1, <1>3, Entries, Zenon
  <2>3. n # g.pkg
    BY <2>1, <1>4, Entries, Zenon DEF IsPackage
  <2> QED
    BY <2>1, <2>2, <2>3, <1>7, <1>8, Zenon
<1>16. ASSUME NEW n \in DOMAIN e, IsPackage(e, n), n # << >>
       PROVE  Kept(e, P, n)
  <2>1. Kept(d, P, n)
    BY <1>7, <1>10, <1>16, Zenon DEF IndexInv
  <2> QED
    BY <2>1, <1>10, Zenon DEF Kept
<1>17. IsPackage(e, << >>) /\ DOMAIN e \subseteq Seq(Parts)
  BY <1>7, <1>10, Zenon DEF IndexInv
<1>18. IndexInv(e, R2, P, g.names \ S)
  BY <1>11, <1>12, <1>13, <1>14, <1>15, <1>16, <1>17, Zenon DEF IndexInv
<1> QED
  BY <1>1, <1>5, <1>18, Zenon

(* cleanupPackageChain: once the file of a package is out of the index,    *)
(* the walk up from the package restores that every entry is needed.       *)
LEMMA CleanupKeeps ==
    ASSUME NEW d, NEW R \in SUBSET FileDescs, NEW P \in SUBSET Seq(Parts), NEW N,
           NEW q \in Seq(Parts), IndexInv(d, R, P \cup {q}, N), Pkgs(R) \subseteq P
    PROVE  IndexInv(CleanupPackageChain(d, q), R, P, N)
<1> DEFINE Bare(m) == IsPackage(d, m) /\ d[m].files = {}
           D == {n \in Prefixes(q) : \A m \in Prefixes(q) : Len(m) >= Len(n) => Bare(m)}
<1>1. PICK e : e = CleanupPackageChain(d, q)
  BY Zenon
<1>2. DOMAIN e = DOMAIN d \ D /\ \A n \in DOMAIN d : n \notin D => e[n] = d[n]
  <2>1. e = Without(d, D)
    BY <1>1, Zenon DEF CleanupPackageChain
  <2> HIDE DEF D
  <2> QED
    BY <2>1, Zenon DEF Without
<1>3. \A n \in D : Bare(n) /\ n \in Prefixes(q) /\ n \in Seq(Parts) /\ n # << >> /\ Len(n) \in Nat
  <2> TAKE n \in D
  <2>1. n \in Seq(Parts) /\ n # << >> /\ Len(n) \in Nat
    BY PrefixType
  <2> QED
    BY <2>1
<1>4. \A n \in D, m \in Prefixes(q) : Len(m) >= Len(n) => Bare(m)
  BY Zenon
<1>5. \A n \in Prefixes(q) : n \notin D => \E m \in Prefixes(q) : Len(m) >= Len(n) /\ ~Bare(m)
  BY Zenon
<1> HIDE DEF D
<1>6. \A n : IsPackage(e, n) <=> IsPackage(d, n) /\ n \notin D
  BY <1>2, Zenon DEF IsPackage
<1>7. \A f \in R : f.pkg \notin D
  <2> SUFFICES ASSUME NEW f \in R, f.pkg \in D PROVE FALSE
    BY Zenon
  <2>1. IsPackage(d, f.pkg) /\ d[f.pkg].files = {}
    BY <1>3, Zenon
  <2>2. d[f.pkg] = Package({h \in R : h.pkg = f.pkg})
    BY <2>1, Zenon DEF IndexInv, IsPackage
  <2>3. d[f.pkg].files = {h \in R : h.pkg = f.pkg}
    BY <2>2, Entries, Zenon
  <2> QED
    BY <2>1, <2>3, Zenon
<1>8. ASSUME NEW n \in DOMAIN e, IsPackage(e, n), n # << >>
      PROVE  Kept(e, P, n)
  <2>1. IsPackage(d, n) /\ n \notin D /\ n \in Seq(Parts)
    BY <1>2, <1>6, <1>8, Zenon DEF IndexInv
  <2>2. PICK p \in P \cup {q} : /\ n \in Prefixes(p)
                                /\ \A m \in Prefixes(p) : Len(m) >= Len(n) => IsPackage(d, m)
    BY <1>2, <1>8, <2>1, Zenon DEF IndexInv, Kept
  <2>3. CASE p \in P /\ \A m \in Prefixes(p) : Len(m) >= Len(n) => m \notin D
    BY <2>2, <2>3, <1>6, Zenon DEF Kept
  <2>4. ASSUME NEW k \in Prefixes(q), k \in Prefixes(p), Len(k) >= Len(n), ~Bare(k)
        PROVE  Kept(e, P, n)
    \* The walk stopped below n, at a package that has a file.
    <3>1. p \in Seq(Parts) /\ k \in Seq(Parts)
      BY <2>4, PrefixType, Zenon
    <3>2. IsPackage(d, k) /\ k \in DOMAIN d
      BY <2>2, <2>4, Zenon DEF IsPackage
    <3>3. d[k].files # {}
      BY <3>2, <2>4, Zenon
    <3>4. d[k].files = {f \in R : f.pkg = k}
      BY <3>2, Entries, Zenon DEF IndexInv
    <3>5. k \in P
      BY <3>3, <3>4, Zenon DEF Pkgs
    <3>6. n \in Prefixes(k)
      BY <3>1, <2>2, <2>4, PrefixOrder, Zenon
    <3>7. ASSUME NEW m \in Prefixes(k), Len(m) >= Len(n) PROVE IsPackage(e, m)
      <4>1. m \in Prefixes(p) /\ m \in Prefixes(q) /\ Len(m) <= Len(k)
        BY <3>1, <2>4, PrefixTrans, Zenon
      <4>2. IsPackage(d, m)
        BY <4>1, <2>2, <3>7, Zenon
      <4>3. m \notin D
        BY <4>1, <1>3, <1>4, <2>4, PrefixType, Zenon
      <4> QED
        BY <4>2, <4>3, <1>6, Zenon
    <3> QED
      BY <3>5, <3>6, <3>7, Zenon DEF Kept
  <2>5. CASE p = q
    <3>1. PICK k \in Prefixes(q) : Len(k) >= Len(n) /\ ~Bare(k)
      BY <2>5, <2>2, <1>5, <2>1, Zenon
    <3> QED
      BY <3>1, <2>4, <2>5, Zenon
  <2>6. CASE \E m \in Prefixes(p) : Len(m) >= Len(n) /\ m \in D
    <3>1. PICK m \in Prefixes(p) : Len(m) >= Len(n) /\ m \in D
      BY <2>6, Zenon
    <3>2. p \in Seq(Parts) /\ m \in Prefixes(q) /\ n \in Prefixes(m)
      BY <3>1, <1>3, <2>2, PrefixOrder, PrefixType, Zenon
    <3>3. n \in Prefixes(q)
      BY <3>2, PrefixTrans, Zenon
    <3>4. PICK k \in Prefixes(q) : Len(k) >= Len(n) /\ ~Bare(k)
      BY <3>3, <1>5, <2>1, Zenon
    <3>5. Len(k) < Len(m) /\ k \in Prefixes(m)
      BY <3>1, <3>2, <3>4, <1>4, PrefixType, PrefixOrder
    <3>6. k \in Prefixes(p)
      BY <3>2, <3>5, PrefixTrans, Zenon
    <3> QED
      BY <3>4, <3>6, <2>4, Zenon
  <2> QED
    BY <2>3, <2>5, <2>6, Zenon
<1>9. IsPackage(e, << >>) /\ DOMAIN e \subseteq Seq(Parts)
  BY <1>2, <1>3, <1>6, Zenon DEF IndexInv
<1>10. ASSUME NEW n \in DOMAIN e
       PROVE  /\ IsPackage(e, n) => e[n] = Package({f \in R : f.pkg = n})
              /\ ~IsPackage(e, n) => n \in N \/ \E f \in R : n \in f.names
  <2>1. n \in DOMAIN d /\ n \notin D /\ e[n] = d[n] /\ (IsPackage(e, n) <=> IsPackage(d, n))
    BY <1>2, <1>6, Zenon
  <2> QED
    BY <2>1, Zenon DEF IndexInv
<1>11. \A n \in N : ~IsPackage(e, n) /\ \A f \in R : n \notin f.names
  BY <1>6, Zenon DEF IndexInv
<1>12. \A f \in R : IsPackage(e, f.pkg)
  BY <1>6, <1>7, Zenon DEF IndexInv
<1>13. ASSUME NEW f \in R, NEW n \in f.names PROVE n \in DOMAIN e /\ e[n] = Entry(f)
  <2>1. n \in DOMAIN d /\ d[n] = Entry(f)
    BY Zenon DEF IndexInv
  <2>2. n \notin D
    BY <2>1, <1>3, Entries, Zenon DEF IsPackage
  <2> QED
    BY <2>1, <2>2, <1>2, Zenon
<1>14. IndexInv(e, R, P, N)
  BY <1>8, <1>9, <1>10, <1>11, <1>12, <1>13, Zenon DEF IndexInv
<1> QED
  BY <1>1, <1>14, Zenon

(* RegisterFile: a file that passes the conflict checks. *)
LEMMA RegisterKeeps ==
    ASSUME NEW d, NEW R \in SUBSET FileDescs, NEW f \in FileDescs,
           IndexInv(d, R, Pkgs(R), {}), Accepts(d, f)
    PROVE  IndexInv(InsertFile(d, f), R \cup {f}, Pkgs(R \cup {f}), {})
<1>1. IndexInv(InsertFile(d, f), R \cup {f}, Pkgs(R) \cup {f.pkg}, {})
  <2>1. /\ {} \subseteq f.names /\ f.names \cap DOMAIN d \subseteq {}
        /\ \A n \in Prefixes(f.pkg) : n \notin DOMAIN d \/ IsPackage(d, n)
    BY Zenon DEF Accepts
  <2> QED
    BY <2>1, InsertKeeps
<1>2. Pkgs(R \cup {f}) = Pkgs(R) \cup {f.pkg}
  BY Zenon DEF Pkgs
<1> QED
  BY <1>1, <1>2, Zenon

(* UnregisterFile. *)
LEMMA UnregisterKeeps ==
    ASSUME NEW d, NEW R \in SUBSET FileDescs, NEW g \in R, NEW S \in SUBSET g.names,
           IndexInv(d, R, Pkgs(R), {})
    PROVE  IndexInv(CleanupPackageChain(RemoveFile(Without(d, S), g), g.pkg),
                    R \ {g}, Pkgs(R \ {g}), g.names \ S)
<1>1. PICK e : e = RemoveFile(Without(d, S), g)
  BY Zenon
<1>2. IndexInv(e, R \ {g}, Pkgs(R), g.names \ S)
  BY <1>1, RemoveKeeps, Zenon
<1>3. Pkgs(R) = Pkgs(R \ {g}) \cup {g.pkg}
  BY Zenon DEF Pkgs
<1>4. Pkgs(R \ {g}) \in SUBSET Seq(Parts) /\ g.pkg \in Seq(Parts)
  BY FileNames DEF Pkgs
<1>5. IndexInv(CleanupPackageChain(e, g.pkg), R \ {g}, Pkgs(R \ {g}), g.names \ S)
  <2>1. IndexInv(e, R \ {g}, Pkgs(R \ {g}) \cup {g.pkg}, g.names \ S)
    BY <1>2, <1>3, Zenon
  <2> QED
    BY <2>1, <1>4, CleanupKeeps, Zenon
<1> QED
  BY <1>1, <1>5, Zenon

(* Removing a file adds no entries. *)
LEMMA RemoveDomain ==
    /\ \A d, g, S : DOMAIN RemoveFile(Without(d, S), g) = DOMAIN d \ S
    /\ \A d, q : DOMAIN CleanupPackageChain(d, q) \subseteq DOMAIN d
<1> SUFFICES ASSUME NEW d, NEW g, NEW S, NEW q
             PROVE  /\ DOMAIN RemoveFile(Without(d, S), g) = DOMAIN d \ S
                    /\ DOMAIN CleanupPackageChain(d, q) \subseteq DOMAIN d
  BY Zenon
<1>1. DOMAIN Without(d, S) = DOMAIN d \ S
  BY WithoutAt, Zenon
<1>2. \A w : DOMAIN RemoveFile(w, g) = DOMAIN w
  BY Zenon DEF RemoveFile
<1>3. \A T : DOMAIN Without(d, T) = DOMAIN d \ T
  BY WithoutAt, Zenon
<1>4. DOMAIN CleanupPackageChain(d, q) \subseteq DOMAIN d
  BY <1>3, Zenon DEF CleanupPackageChain
<1> QED
  BY <1>1, <1>2, <1>4, Zenon

(* UpdateFile of a path that has a file, under its callers' condition: the *)
(* names both files have are in the index without a file until the new one *)
(* is inserted.                                                            *)
LEMMA UpdateKeeps ==
    ASSUME NEW d, NEW R \in SUBSET FileDescs, NEW g \in R, NEW f \in FileDescs, NEW e,
           IndexInv(d, R, Pkgs(R), {}), Accepts(Without(d, g.names), f),
           e = LET r == RemoveFile(Without(d, g.names \ f.names), g)
               IN  IF g.pkg = f.pkg THEN r ELSE CleanupPackageChain(r, g.pkg)
    PROVE  IndexInv(InsertFile(e, f), (R \ {g}) \cup {f}, Pkgs((R \ {g}) \cup {f}), {})
<1> DEFINE S == g.names \ f.names
           N == g.names \ S
           R2 == R \ {g}
<1>1. PICK r : r = RemoveFile(Without(d, S), g)
  BY Zenon
<1>2. e = IF g.pkg = f.pkg THEN r ELSE CleanupPackageChain(r, g.pkg)
  BY <1>1, Zenon
<1>3. PICK P : IndexInv(e, R2, P, N) /\ P \cup {f.pkg} = Pkgs(R2 \cup {f})
  <2>1. CASE g.pkg = f.pkg
    <3>1. IndexInv(r, R2, Pkgs(R), N)
      BY <1>1, RemoveKeeps, Zenon
    <3>2. Pkgs(R) \cup {f.pkg} = Pkgs(R2 \cup {f})
      BY <2>1, Zenon DEF Pkgs
    <3> QED
      BY <3>1, <3>2, <1>2, <2>1, Zenon
  <2>2. CASE g.pkg # f.pkg
    <3>1. IndexInv(CleanupPackageChain(r, g.pkg), R2, Pkgs(R2), N)
      BY <1>1, UnregisterKeeps, Zenon
    <3>2. Pkgs(R2) \cup {f.pkg} = Pkgs(R2 \cup {f})
      BY Zenon DEF Pkgs
    <3> QED
      BY <3>1, <3>2, <1>2, <2>2, Zenon
  <2> QED
    BY <2>1, <2>2, Zenon
<1>4. DOMAIN e \subseteq DOMAIN d \ S
  <2>1. DOMAIN r = DOMAIN d \ S
    <3> HIDE DEF S
    <3> QED
      BY <1>1, RemoveDomain, Zenon
  <2>2. DOMAIN CleanupPackageChain(r, g.pkg) \subseteq DOMAIN r
    BY RemoveDomain, Zenon
  <2> QED
    BY <1>2, <2>1, <2>2, Zenon
<1>5. /\ \A n \in Prefixes(f.pkg) : n \in DOMAIN d /\ n \notin g.names => IsPackage(d, n)
      /\ \A n \in f.names : n \in DOMAIN d => n \in g.names
  <2>1. PICK w : w = Without(d, g.names)
    BY Zenon
  <2>2. DOMAIN w = DOMAIN d \ g.names /\ \A n \in DOMAIN d : n \notin g.names => w[n] = d[n]
    BY <2>1, Zenon DEF Without
  <2>3. /\ \A n \in Prefixes(f.pkg) : n \notin DOMAIN w \/ IsPackage(w, n)
        /\ f.names \cap DOMAIN w = {}
    BY <2>1, Zenon DEF Accepts
  <2>4. ASSUME NEW n \in Prefixes(f.pkg), n \in DOMAIN d, n \notin g.names
        PROVE  IsPackage(d, n)
    <3>1. IsPackage(w, n)
      BY <2>2, <2>3, <2>4, Zenon
    <3> QED
      BY <3>1, <2>2, <2>4, Zenon DEF IsPackage
  <2>5. \A n \in f.names : n \in DOMAIN d => n \in g.names
    BY <2>2, <2>3, Zenon
  <2> QED
    BY <2>4, <2>5, Zenon
<1>6. f.names \cap Prefixes(f.pkg) = {}
  BY FileNames, Zenon
<1>7. ASSUME NEW n \in Prefixes(f.pkg), n \in DOMAIN e PROVE IsPackage(e, n)
  <2>1. n \in DOMAIN d /\ n \notin S /\ n \notin f.names
    BY <1>4, <1>6, <1>7, Zenon
  <2>2. IsPackage(d, n)
    BY <2>1, <1>5, Zenon
  <2>3. SUFFICES ASSUME ~IsPackage(e, n) PROVE FALSE
    BY Zenon
  <2>4. n \notin N
    BY <2>1, Zenon
  <2> HIDE DEF N
  <2>5. PICK h \in R2 : n \in h.names
    BY <2>3, <2>4, <1>3, <1>7, Zenon DEF IndexInv
  <2>6. d[n] = Entry(h)
    BY <2>5, Zenon DEF IndexInv
  <2> QED
    BY <2>2, <2>6, Entries, Zenon DEF IsPackage
<1>8. N \subseteq f.names /\ f.names \cap DOMAIN e \subseteq N
  BY <1>4, <1>5, Zenon
<1> HIDE DEF N
<1>9. IndexInv(InsertFile(e, f), R2 \cup {f}, P \cup {f.pkg}, {})
  <2>1. R2 \in SUBSET FileDescs
    BY Zenon
  <2> HIDE DEF R2
  <2> QED
    BY <2>1, <1>3, <1>7, <1>8, InsertKeeps, Zenon
<1> QED
  BY <1>3, <1>9, Zenon

-----------------------------------------------------------------------------
(* The invariants. *)

(* The files, their paths, the counter and the index. *)
FilesInv ==
    /\ DOMAIN files \subseteq FilePaths
    /\ \A p \in DOMAIN files : files[p] \in FileDescs /\ files[p].path = p
    /\ numFiles = Cardinality(DOMAIN files)
    /\ IndexInv(descs, Registered, Pkgs(Registered), {})

(* The types ts against the index xs of extension numbers. *)
TypesMaps(ts, xs) ==
    /\ DOMAIN ts \subseteq TypeNames
    /\ \A n \in DOMAIN ts : /\ ts[n] \in TypeDescs /\ ts[n].name = n
                            /\ IsExtension(ts[n]) =>
                                  LET k == <<ts[n].on, ts[n].num>>
                                  IN  k \in DOMAIN xs /\ xs[k] = ts[n]
    /\ \A k \in DOMAIN xs : /\ IsExtension(xs[k]) /\ k = <<xs[k].on, xs[k].num>>
                            /\ xs[k].name \in DOMAIN ts
                            /\ ts[xs[k].name] = xs[k]

(* The types, the index of extension numbers and the counters. *)
TypesInv ==
    /\ TypesMaps(types, exts)
    /\ DOMAIN counts = Kinds
    /\ \A k \in Kinds : counts[k] = Cardinality(RangeTypes(k))

-----------------------------------------------------------------------------
(* Setting a file: the registered files, and the paths, change by it. *)
LEMMA SetFile ==
    ASSUME NEW f \in FileDescs, FilesInv, files' = With(files, f.path, f)
    PROVE  /\ DOMAIN files' = DOMAIN files \cup {f.path}
           /\ DOMAIN files' \subseteq FilePaths
           /\ \A p \in DOMAIN files' : files'[p] \in FileDescs /\ files'[p].path = p
           /\ f.path \notin DOMAIN files => Registered' = Registered \cup {f}
           /\ f.path \in DOMAIN files =>
                 Registered' = (Registered \ {files[f.path]}) \cup {f}
<1>1. DOMAIN files' = DOMAIN files \cup {f.path}
  BY Zenon DEF With
<1>2. files'[f.path] = f
  BY Zenon DEF With
<1>3. \A p \in DOMAIN files : p # f.path => files'[p] = files[p]
  BY Zenon DEF With
<1>4. \A p \in DOMAIN files : files[p] \in FileDescs /\ files[p].path = p
  BY Zenon DEF FilesInv
<1>5. DOMAIN files' \subseteq FilePaths
  BY <1>1, Zenon DEF FilesInv, FilePaths
<1>6. \A p \in DOMAIN files' : files'[p] \in FileDescs /\ files'[p].path = p
  BY <1>1, <1>2, <1>3, <1>4, Zenon
<1>7. f.path \notin DOMAIN files => Registered' = Registered \cup {f}
  BY <1>1, <1>2, <1>3 DEF Registered
<1>8. f.path \in DOMAIN files => Registered' = (Registered \ {files[f.path]}) \cup {f}
  BY <1>1, <1>2, <1>3, <1>4 DEF Registered
<1> QED
  BY <1>1, <1>5, <1>6, <1>7, <1>8, Zenon

(* The paths are finitely many, and as many as the registered files. *)
LEMMA FilesFinite ==
    ASSUME FilesInv
    PROVE  /\ IsFiniteSet(FilePaths) /\ IsFiniteSet(DOMAIN files)
           /\ Cardinality(DOMAIN files) <= Cardinality(FilePaths)
           /\ Registered \in SUBSET FileDescs
           /\ Cardinality(Registered) = Cardinality(DOMAIN files)
           /\ \A f \in Registered : f.path \in DOMAIN files /\ files[f.path] = f
<1>1. IsFiniteSet(FilePaths)
  <2> DEFINE path == [f \in FileDescs |-> f.path]
  <2>1. path \in Surjection(FileDescs, FilePaths)
    BY Zenon DEF Surjection, FilePaths
  <2> QED
    BY <2>1, NsAssumption, FS_Surjection, Zenon
<1>2. DOMAIN files \in SUBSET FilePaths
  BY Zenon DEF FilesInv
<1>3. IsFiniteSet(DOMAIN files) /\ Cardinality(DOMAIN files) <= Cardinality(FilePaths)
  BY <1>1, <1>2, FS_Subset, Zenon
<1>4. \A p \in DOMAIN files : files[p] \in FileDescs /\ files[p].path = p
  BY Zenon DEF FilesInv
<1>5. Registered \in SUBSET FileDescs
  BY <1>4, Zenon DEF Registered
<1>6. \A f \in Registered : f.path \in DOMAIN files /\ files[f.path] = f
  BY <1>4, Zenon DEF Registered
<1>7. Cardinality(Registered) = Cardinality(DOMAIN files)
  <2> DEFINE at == [p \in DOMAIN files |-> files[p]]
  <2>1. at \in Bijection(DOMAIN files, Registered)
    BY <1>4, <1>6, Zenon DEF Bijection, Injection, Surjection, IsInjective, Registered
  <2>2. ExistsBijection(DOMAIN files, Registered)
    BY <2>1, Zenon DEF ExistsBijection
  <2> QED
    BY <2>2, <1>3, FS_Bijection, Zenon
<1> QED
  BY <1>1, <1>3, <1>5, <1>6, <1>7, Zenon

(* The calls of NamespacedFiles keep the index and the files together. *)
LEMMA FilesStep ==
    ASSUME FilesInv, [Next]_vars
    PROVE  FilesInv'
<1>0. PICK d, R : d = descs /\ R = Registered
  BY Zenon
<1>1. R \in SUBSET FileDescs /\ IndexInv(d, R, Pkgs(R), {}) /\ IsFiniteSet(DOMAIN files)
  BY <1>0, FilesFinite, Zenon DEF FilesInv
<1>2. ASSUME UNCHANGED fileVars PROVE FilesInv'
  <2>1. Registered' = Registered
    BY <1>2, Zenon DEF Registered, fileVars
  <2> QED
    BY <1>0, <1>2, <2>1, Zenon DEF FilesInv, fileVars
<1>3. ASSUME NEW R2, IndexInv(descs', R2, Pkgs(R2), {}), Registered' = R2
      PROVE  (IndexInv(descs, Registered, Pkgs(Registered), {}))'
  BY <1>3, Zenon
<1>4. ASSUME NEW f \in FileDescs, RegisterFile(f) PROVE FilesInv'
  <2>1. CASE UNCHANGED fileVars
    BY <2>1, <1>2, Zenon
  <2>2. CASE /\ f.path \notin DOMAIN files /\ Accepts(descs, f)
             /\ descs' = InsertFile(descs, f)
             /\ files' = With(files, f.path, f) /\ numFiles' = numFiles + 1
    <3>1. IndexInv(descs', R \cup {f}, Pkgs(R \cup {f}), {})
      BY <1>0, <1>1, <2>2, RegisterKeeps, Zenon
    <3>2. Registered' = R \cup {f}
      BY <1>0, <2>2, SetFile, Zenon
    <3>3. numFiles' = Cardinality(DOMAIN files')
      <4>1. DOMAIN files' = DOMAIN files \cup {f.path}
        BY <2>2, SetFile, Zenon
      <4> QED
        BY <4>1, <2>2, <1>1, FS_AddElement DEF FilesInv
    <3> QED
      BY <3>1, <3>2, <3>3, <1>3, <2>2, SetFile, Zenon DEF FilesInv
  <2> QED
    BY <1>4, <2>1, <2>2, Zenon DEF RegisterFile
<1>5. ASSUME NEW f \in FileDescs, UpdateFile(f) PROVE FilesInv'
  <2>0. files' = With(files, f.path, f) /\ descs' = InsertFile(Replaced(f), f)
    BY <1>5, Zenon DEF UpdateFile
  <2>1. CASE f.path \notin DOMAIN files
    <3>1. Accepts(Without(d, {}), f) /\ descs' = InsertFile(d, f) /\ numFiles' = numFiles + 1
      BY <1>0, <1>5, <2>1, Zenon DEF UpdateFile, Replaced
    <3>2. Accepts(d, f)
      <4>1. PICK w : w = Without(d, {})
        BY Zenon
      <4>2. DOMAIN w = DOMAIN d \ {} /\ \A n \in DOMAIN d : w[n] = d[n]
        BY <4>1, Zenon DEF Without
      <4>3. DOMAIN w = DOMAIN d
        BY <4>2, Zenon
      <4> HIDE <4>1
      <4> QED
        BY <3>1, <4>1, <4>2, <4>3, Zenon DEF Accepts, IsPackage
    <3>3. IndexInv(descs', R \cup {f}, Pkgs(R \cup {f}), {})
      BY <1>1, <3>1, <3>2, RegisterKeeps, Zenon
    <3>4. Registered' = R \cup {f}
      BY <1>0, <2>0, <2>1, SetFile, Zenon
    <3>5. numFiles' = Cardinality(DOMAIN files')
      <4>1. DOMAIN files' = DOMAIN files \cup {f.path}
        BY <2>0, SetFile, Zenon
      <4> QED
        BY <4>1, <2>1, <3>1, <1>1, FS_AddElement, Zenon DEF FilesInv
    <3> QED
      BY <3>3, <3>4, <3>5, <1>3, <2>0, SetFile, Zenon DEF FilesInv
  <2>2. CASE f.path \in DOMAIN files
    <3>1. PICK g : g = files[f.path]
      BY Zenon
    <3>2. g \in R
      BY <3>1, <2>2, <1>0, Zenon DEF Registered
    <3>3. PICK e : e = LET r == RemoveFile(Without(d, g.names \ f.names), g)
                       IN  IF g.pkg = f.pkg THEN r ELSE CleanupPackageChain(r, g.pkg)
      BY Zenon
    <3>4. Accepts(Without(d, g.names), f) /\ descs' = InsertFile(e, f) /\ numFiles' = numFiles
      BY <1>0, <1>5, <2>2, <3>1, <3>3, Zenon DEF UpdateFile, Replaced
    <3>5. IndexInv(descs', (R \ {g}) \cup {f}, Pkgs((R \ {g}) \cup {f}), {})
      BY <1>1, <3>2, <3>3, <3>4, UpdateKeeps, Zenon
    <3>6. Registered' = (R \ {g}) \cup {f}
      BY <1>0, <2>0, <2>2, <3>1, SetFile, Zenon
    <3>7. numFiles' = Cardinality(DOMAIN files')
      <4>1. DOMAIN files' = DOMAIN files
        <5>1. DOMAIN files' = DOMAIN files \cup {f.path}
          BY <2>0, SetFile, Zenon
        <5> QED
          BY <5>1, <2>2, Zenon
      <4> QED
        BY <4>1, <3>4, Zenon DEF FilesInv
    <3> QED
      BY <3>5, <3>6, <3>7, <1>3, <2>0, SetFile, Zenon DEF FilesInv
  <2> QED
    BY <2>1, <2>2, Zenon
<1>6. ASSUME NEW p \in FilePaths, UnregisterFile(p) PROVE FilesInv'
  <2>1. PICK g : g = files[p]
    BY Zenon
  <2>2. /\ p \in DOMAIN files /\ files' = Without(files, {p}) /\ numFiles' = numFiles - 1
        /\ descs' = CleanupPackageChain(RemoveFile(Without(d, g.names), g), g.pkg)
    BY <1>0, <1>6, <2>1, Zenon DEF UnregisterFile
  <2>3. g \in R /\ g.path = p
    BY <1>0, <2>1, <2>2, Zenon DEF Registered, FilesInv
  <2>4. IndexInv(descs', R \ {g}, Pkgs(R \ {g}), {})
    <3>1. IndexInv(descs', R \ {g}, Pkgs(R \ {g}), g.names \ g.names)
      BY <1>1, <2>2, <2>3, UnregisterKeeps, Zenon
    <3>2. g.names \ g.names = {}
      BY Zenon
    <3> QED
      BY <3>1, <3>2, Zenon
  <2>5. DOMAIN files' = DOMAIN files \ {p} /\ \A q \in DOMAIN files : q # p => files'[q] = files[q]
    BY <2>2, Zenon DEF Without
  <2>6. \A q \in DOMAIN files : files[q].path = q
    BY Zenon DEF FilesInv
  <2>7. Registered' = R \ {g}
    <3>1. Registered' = {files[q] : q \in DOMAIN files \ {p}}
      BY <2>5, Zenon DEF Registered
    <3>2. \A q \in DOMAIN files \ {p} : files[q] # g
      BY <2>3, <2>6, Zenon
    <3>3. R = {files[q] : q \in DOMAIN files}
      BY <1>0, Zenon DEF Registered
    <3> QED
      BY <3>1, <3>2, <3>3, <2>1, <2>2, Zenon
  <2>8. numFiles' = Cardinality(DOMAIN files')
    BY <2>2, <2>5, <1>1, FS_RemoveElement, Zenon DEF FilesInv
  <2> QED
    BY <2>4, <2>5, <2>7, <2>8, <1>3, Zenon DEF FilesInv
<1>7. ASSUME NEW t \in TypeDescs, RegisterType(t) \/ UpdateType(t) PROVE FilesInv'
  BY <1>2, <1>7, Zenon DEF RegisterType, UpdateType
<1>8. ASSUME NEW k \in Kinds, NEW n \in TypeNames, UnregisterType(k, n) PROVE FilesInv'
  BY <1>2, <1>8, Zenon DEF UnregisterType
<1>9. CASE UNCHANGED vars
  BY <1>2, <1>9, Zenon DEF vars, fileVars
<1> QED
  BY <1>4, <1>5, <1>6, <1>7, <1>8, <1>9, Zenon DEF Next

-----------------------------------------------------------------------------
(* The types of a kind are finitely many, at most one for each name. *)
LEMMA TypesFinite ==
    ASSUME TypesInv, NEW k \in Kinds
    PROVE  /\ IsFiniteSet(RangeTypes(k)) /\ IsFiniteSet(TypeNames)
           /\ Cardinality(RangeTypes(k)) <= Cardinality(TypeNames)
<1>1. RangeTypes(k) \in SUBSET TypeDescs
  BY Zenon DEF TypesInv, TypesMaps, RangeTypes
<1>2. \A t, u \in RangeTypes(k) : t.name = u.name => t = u
  <2>1. \A t \in RangeTypes(k) : \E n \in DOMAIN types : t = types[n] /\ t.name = n
    <3>1. \A n \in DOMAIN types : types[n].name = n
      BY Zenon DEF TypesInv, TypesMaps
    <3> QED
      BY <3>1, Zenon DEF RangeTypes
  <2> QED
    BY <2>1
<1>3. IsFiniteSet(TypeNames)
  <2> DEFINE name == [t \in TypeDescs |-> t.name]
  <2>1. name \in Surjection(TypeDescs, TypeNames)
    BY Zenon DEF Surjection, TypeNames
  <2> QED
    BY <2>1, NsAssumption, FS_Surjection, Zenon
<1>4. IsFiniteSet(RangeTypes(k))
  BY <1>1, NsAssumption, FS_Subset, Zenon
<1>5. Cardinality(RangeTypes(k)) <= Cardinality(TypeNames)
  <2> DEFINE name == [t \in RangeTypes(k) |-> t.name]
  <2>1. name \in Injection(RangeTypes(k), TypeNames)
    BY <1>1, <1>2, Zenon DEF Injection, IsInjective, TypeNames
  <2> QED
    BY <2>1, <1>3, FS_Injection, Zenon
<1> QED
  BY <1>3, <1>4, <1>5, Zenon

(* Setting a type where its name and number are free or its own. *)
LEMMA SetTypeKeeps ==
    ASSUME TypesMaps(types, exts), NEW t \in TypeDescs, SetType(t),
           t.name \in DOMAIN types =>
              /\ types[t.name].kind = t.kind
              /\ types[t.name].on = t.on /\ types[t.name].num = t.num,
           IsExtension(t) /\ <<t.on, t.num>> \in DOMAIN exts =>
              exts[<<t.on, t.num>>].name = t.name
    PROVE  TypesMaps(types', exts')
<1>1. /\ DOMAIN types' = DOMAIN types \cup {t.name} /\ types'[t.name] = t
      /\ \A n \in DOMAIN types : n # t.name => types'[n] = types[n]
  BY Zenon DEF SetType, With
<1> DEFINE num == <<t.on, t.num>>
<1>2. IsExtension(t) =>
         /\ DOMAIN exts' = DOMAIN exts \cup {num} /\ exts'[num] = t
         /\ \A k \in DOMAIN exts : k # num => exts'[k] = exts[k]
  BY Zenon DEF SetType, With
<1>3. ~IsExtension(t) => exts' = exts
  BY Zenon DEF SetType
<1>4. DOMAIN types' \subseteq TypeNames
  BY <1>1 DEF TypesMaps, TypeNames
<1>5. ASSUME NEW n \in DOMAIN types'
      PROVE  /\ types'[n] \in TypeDescs /\ types'[n].name = n
             /\ IsExtension(types'[n]) =>
                   /\ <<types'[n].on, types'[n].num>> \in DOMAIN exts'
                   /\ exts'[<<types'[n].on, types'[n].num>>] = types'[n]
  <2>1. CASE n = t.name
    BY <2>1, <1>1, <1>2, Zenon
  <2>2. CASE n # t.name
    <3>1. n \in DOMAIN types /\ types'[n] = types[n]
      BY <2>2, <1>1, Zenon
    <3>2. PICK u : u = types[n]
      BY Zenon
    <3>3. /\ u \in TypeDescs /\ u.name = n
          /\ IsExtension(u) => <<u.on, u.num>> \in DOMAIN exts /\ exts[<<u.on, u.num>>] = u
      BY <3>1, <3>2, Zenon DEF TypesMaps
    <3>4. IsExtension(u) => <<u.on, u.num>> \in DOMAIN exts' /\ exts'[<<u.on, u.num>>] = u
      <4>1. CASE ~IsExtension(t)
        BY <4>1, <1>3, <3>3, Zenon
      <4>2. CASE IsExtension(t) /\ IsExtension(u)
        <5>1. <<u.on, u.num>> # num
          BY <2>2, <3>3, <4>2, Zenon
        <5> QED
          BY <5>1, <4>2, <3>3, <1>2, Zenon
      <4> QED
        BY <4>1, <4>2, Zenon
    <3> QED
      BY <3>1, <3>2, <3>3, <3>4, Zenon
  <2> QED
    BY <2>1, <2>2, Zenon
<1>6. ASSUME NEW k \in DOMAIN exts'
      PROVE  /\ IsExtension(exts'[k]) /\ k = <<exts'[k].on, exts'[k].num>>
             /\ exts'[k].name \in DOMAIN types' /\ types'[exts'[k].name] = exts'[k]
  <2>1. CASE IsExtension(t) /\ k = num
    BY <2>1, <1>1, <1>2, Zenon
  <2>2. CASE ~(IsExtension(t) /\ k = num)
    <3>1. k \in DOMAIN exts /\ exts'[k] = exts[k]
      BY <2>2, <1>2, <1>3, Zenon
    <3>2. PICK u : u = exts[k]
      BY Zenon
    <3>3. /\ IsExtension(u) /\ k = <<u.on, u.num>>
          /\ u.name \in DOMAIN types /\ types[u.name] = u
      BY <3>1, <3>2, Zenon DEF TypesMaps
    <3>4. u.name # t.name
      BY <3>3, <2>2, Zenon DEF IsExtension
    <3> QED
      BY <3>1, <3>2, <3>3, <3>4, <1>1, Zenon
  <2> QED
    BY <2>1, <2>2, Zenon
<1> QED
  BY <1>4, <1>5, <1>6, Zenon DEF TypesMaps

(* The calls of NamespacedTypes keep the two indexes and the counters      *)
(* together.                                                               *)
LEMMA TypesStep ==
    ASSUME TypesInv, [Next]_vars
    PROVE  TypesInv'
<1>0. /\ TypesMaps(types, exts) /\ DOMAIN counts = Kinds
      /\ \A k \in Kinds : counts[k] = Cardinality(RangeTypes(k))
  BY Zenon DEF TypesInv
<1>1. \A n \in DOMAIN types : types[n] \in TypeDescs /\ types[n].name = n
  BY <1>0, Zenon DEF TypesMaps
<1>2. \A k \in Kinds : IsFiniteSet(RangeTypes(k))
  BY TypesFinite, Zenon
<1>3. ASSUME UNCHANGED typeVars PROVE TypesInv'
  <2>1. types' = types /\ exts' = exts /\ counts' = counts
    BY <1>3, Zenon DEF typeVars
  <2> QED
    <3>1. \A k \in Kinds : RangeTypes(k)' = RangeTypes(k)
      BY <2>1, Zenon DEF RangeTypes
    <3>2. TypesMaps(types', exts')
      BY <1>0, <2>1, Zenon
    <3> QED
      BY <2>1, <3>1, <3>2, <1>0, Zenon DEF TypesInv
<1>4. ASSUME NEW t \in TypeDescs, SetType(t), t.name \notin DOMAIN types,
             IsExtension(t) => <<t.on, t.num>> \notin DOMAIN exts \/ exts[<<t.on, t.num>>].name = t.name,
             counts' = [counts EXCEPT ![t.kind] = @ + 1]
      PROVE  TypesInv'
  <2>1. TypesMaps(types', exts')
    BY <1>0, <1>4, SetTypeKeeps, Zenon
  <2>2. /\ DOMAIN types' = DOMAIN types \cup {t.name} /\ types'[t.name] = t
        /\ \A n \in DOMAIN types : types'[n] = types[n]
    BY <1>4, Zenon DEF SetType, With
  <2>3. t.kind \in Kinds
    BY NsAssumption, Zenon
  <2>4. ASSUME NEW k \in Kinds PROVE counts'[k] = Cardinality(RangeTypes(k)')
    <3>1. CASE k = t.kind
      <4>1. RangeTypes(k)' = RangeTypes(k) \cup {t}
        BY <2>2, <3>1 DEF RangeTypes
      <4>2. t \notin RangeTypes(k)
        BY <1>1, <1>4, Zenon DEF RangeTypes
      <4> QED
        <5>1. Cardinality(RangeTypes(k)') = Cardinality(RangeTypes(k)) + 1
          BY <4>1, <4>2, <1>2, FS_AddElement, Zenon
        <5>2. counts'[k] = counts[k] + 1
          BY <3>1, <1>0, <1>4, Zenon
        <5> QED
          BY <5>1, <5>2, <1>0, Zenon
    <3>2. CASE k # t.kind
      <4>1. RangeTypes(k)' = RangeTypes(k)
        BY <2>2, <3>2, Zenon DEF RangeTypes
      <4> QED
        BY <4>1, <3>2, <1>0, <1>4, Zenon
    <3> QED
      BY <3>1, <3>2, Zenon
  <2>5. DOMAIN counts' = Kinds
    BY <1>0, <1>4, Zenon
  <2> QED
    BY <2>1, <2>4, <2>5, Zenon DEF TypesInv
<1>5. ASSUME NEW t \in TypeDescs, RegisterType(t) PROVE TypesInv'
  <2>1. CASE UNCHANGED typeVars
    BY <2>1, <1>3, Zenon
  <2>2. CASE ~UNCHANGED typeVars
    <3>1. /\ t.name \notin DOMAIN types /\ SetType(t)
          /\ IsExtension(t) => <<t.on, t.num>> \notin DOMAIN exts
          /\ counts' = [counts EXCEPT ![t.kind] = @ + 1]
      BY <1>5, <2>2, Zenon DEF RegisterType
    <3> QED
      BY <3>1, <1>4, Zenon
  <2> QED
    BY <2>1, <2>2, Zenon
<1>6. ASSUME NEW t \in TypeDescs, UpdateType(t) PROVE TypesInv'
  <2>1. /\ SetType(t)
        /\ t.name \in DOMAIN types =>
              /\ types[t.name].kind = t.kind
              /\ types[t.name].on = t.on /\ types[t.name].num = t.num
        /\ IsExtension(t) /\ <<t.on, t.num>> \in DOMAIN exts =>
              exts[<<t.on, t.num>>].name = t.name
        /\ counts' = IF t.name \in DOMAIN types THEN counts
                     ELSE [counts EXCEPT ![t.kind] = @ + 1]
    BY <1>6, Zenon DEF UpdateType
  <2>2. CASE t.name \notin DOMAIN types
    BY <2>1, <2>2, <1>4, Zenon
  <2>3. CASE t.name \in DOMAIN types
    <3>1. TypesMaps(types', exts')
      BY <1>0, <2>1, SetTypeKeeps, Zenon
    <3>2. /\ DOMAIN types' = DOMAIN types /\ types'[t.name] = t
          /\ \A n \in DOMAIN types : n # t.name => types'[n] = types[n]
      <4>1. /\ DOMAIN types' = DOMAIN types \cup {t.name} /\ types'[t.name] = t
            /\ \A n \in DOMAIN types : n # t.name => types'[n] = types[n]
        BY <2>1, Zenon DEF SetType, With
      <4>2. DOMAIN types \cup {t.name} = DOMAIN types
        BY <2>3, Zenon
      <4> QED
        BY <4>1, <4>2, Zenon
    <3>3. PICK u : u = types[t.name] /\ u.kind = t.kind
      BY <2>1, <2>3, Zenon
    <3>4. ASSUME NEW k \in Kinds PROVE counts'[k] = Cardinality(RangeTypes(k)')
      <4>1. CASE k = t.kind

        <5>2. RangeTypes(k)' = (RangeTypes(k) \ {u}) \cup {t}
          BY <3>2, <3>3, <4>1, <1>1, <2>3 DEF RangeTypes
        <5>3. u \in RangeTypes(k) /\ t \notin RangeTypes(k) \ {u}
          BY <3>3, <4>1, <1>1, <2>3 DEF RangeTypes
        <5>4. /\ IsFiniteSet(RangeTypes(k) \ {u})
              /\ Cardinality(RangeTypes(k) \ {u}) = Cardinality(RangeTypes(k)) - 1
          BY <5>3, <1>2, FS_RemoveElement, Zenon
        <5>5. Cardinality(RangeTypes(k)') = Cardinality(RangeTypes(k) \ {u}) + 1
          BY <5>2, <5>3, <5>4, FS_AddElement, Zenon
        <5>6. Cardinality(RangeTypes(k)) \in Nat
          BY <1>2, FS_CardinalityType, Zenon
        <5> QED
          BY <5>4, <5>5, <5>6, <1>0, <2>1, <2>3
      <4>2. CASE k # t.kind
        <5>1. RangeTypes(k)' = RangeTypes(k)
          BY <3>2, <3>3, <4>2, <2>3, Zenon DEF RangeTypes
        <5> QED
          BY <5>1, <1>0, <2>1, <2>3, Zenon
      <4> QED
        BY <4>1, <4>2, Zenon
    <3> QED
      BY <3>1, <3>4, <1>0, <2>1, <2>3, Zenon DEF TypesInv
  <2> QED
    BY <2>2, <2>3, Zenon
<1>7. ASSUME NEW kind \in Kinds, NEW name \in TypeNames, UnregisterType(kind, name)
      PROVE  TypesInv'
  <2>1. PICK u : u = types[name]
    BY Zenon
  <2>2. /\ name \in DOMAIN types /\ u.kind = kind /\ u.name = name
        /\ types' = Without(types, {name})
        /\ exts' = IF kind # "extension" THEN exts ELSE Without(exts, {<<u.on, u.num>>})
        /\ counts' = [counts EXCEPT ![kind] = @ - 1]
    BY <1>1, <1>7, <2>1, Zenon DEF UnregisterType
  <2>3. /\ DOMAIN types' = DOMAIN types \ {name}
        /\ \A n \in DOMAIN types : n # name => types'[n] = types[n]
    BY <2>2, Zenon DEF Without
  <2>4. /\ \A k \in DOMAIN exts' : k \in DOMAIN exts /\ exts'[k] = exts[k]
        /\ \A k \in DOMAIN exts :
              k \in DOMAIN exts' <=> ~(kind = "extension" /\ k = <<u.on, u.num>>)
    <3>1. CASE kind = "extension"
      <4>1. exts' = Without(exts, {<<u.on, u.num>>})
        BY <3>1, <2>2, Zenon
      <4>2. DOMAIN exts' = DOMAIN exts \ {<<u.on, u.num>>}
        BY <4>1, Zenon DEF Without
      <4>3. \A k \in DOMAIN exts' : exts'[k] = exts[k]
        BY <4>1, Zenon DEF Without
      <4> QED
        BY <3>1, <4>2, <4>3, Zenon
    <3>2. CASE kind # "extension"
      BY <3>2, <2>2, Zenon
    <3> QED
      BY <3>1, <3>2, Zenon
  <2>5. ASSUME NEW n \in DOMAIN types'
        PROVE  /\ types'[n] \in TypeDescs /\ types'[n].name = n
               /\ IsExtension(types'[n]) =>
                     /\ <<types'[n].on, types'[n].num>> \in DOMAIN exts'
                     /\ exts'[<<types'[n].on, types'[n].num>>] = types'[n]
    <3>1. n \in DOMAIN types /\ types'[n] = types[n] /\ n # name
      BY <2>3, Zenon
    <3>2. PICK v : v = types[n]
      BY Zenon
    <3>3. /\ v \in TypeDescs /\ v.name = n
          /\ IsExtension(v) => <<v.on, v.num>> \in DOMAIN exts /\ exts[<<v.on, v.num>>] = v
      BY <3>1, <3>2, <1>0, Zenon DEF TypesMaps
    <3>4. IsExtension(u) => exts[<<u.on, u.num>>] = u
      BY <2>1, <2>2, <1>0, Zenon DEF TypesMaps
    <3>5. IsExtension(v) => <<v.on, v.num>> \in DOMAIN exts'
      BY <3>1, <3>3, <3>4, <2>2, <2>4, Zenon DEF IsExtension
    <3> QED
      BY <3>1, <3>2, <3>3, <3>5, <2>4, Zenon
  <2>6. ASSUME NEW k \in DOMAIN exts'
        PROVE  /\ IsExtension(exts'[k]) /\ k = <<exts'[k].on, exts'[k].num>>
               /\ exts'[k].name \in DOMAIN types' /\ types'[exts'[k].name] = exts'[k]
    <3>1. k \in DOMAIN exts /\ exts'[k] = exts[k]
      BY <2>4, Zenon
    <3>2. PICK v : v = exts[k]
      BY Zenon
    <3>3. /\ IsExtension(v) /\ k = <<v.on, v.num>>
          /\ v.name \in DOMAIN types /\ types[v.name] = v
      BY <3>1, <3>2, <1>0, Zenon DEF TypesMaps
    <3>4. v.name # name
      BY <3>1, <3>3, <2>1, <2>2, <2>4, Zenon DEF IsExtension
    <3> QED
      BY <3>1, <3>2, <3>3, <3>4, <2>3, Zenon
  <2>7. TypesMaps(types', exts')
    <3>1. DOMAIN types' \subseteq TypeNames
      BY <2>3, <1>0, Zenon DEF TypesMaps
    <3> QED
      BY <3>1, <2>5, <2>6, Zenon DEF TypesMaps
  <2>8. ASSUME NEW k \in Kinds PROVE counts'[k] = Cardinality(RangeTypes(k)')
    <3>1. CASE k = kind
      <4>1. RangeTypes(k)' = RangeTypes(k) \ {u}
        BY <1>1, <2>1, <2>2, <2>3, SMTT(20) DEF RangeTypes
      <4>2. u \in RangeTypes(k)
        BY <3>1, <2>1, <2>2, Zenon DEF RangeTypes
      <4> QED
        <5>1. Cardinality(RangeTypes(k)') = Cardinality(RangeTypes(k)) - 1
          BY <4>1, <4>2, <1>2, FS_RemoveElement, Zenon
        <5>2. counts'[k] = counts[k] - 1
          BY <3>1, <1>0, <2>2, Zenon
        <5> QED
          BY <5>1, <5>2, <1>0, Zenon
    <3>2. CASE k # kind
      <4>1. RangeTypes(k)' = RangeTypes(k)
        <5>1. \A n \in DOMAIN types : types[n].kind = k => n # name
          BY <2>1, <2>2, <3>2, Zenon
        <5>2. ASSUME NEW t \in RangeTypes(k) PROVE t \in RangeTypes(k)'
          <6>1. PICK n \in DOMAIN types : t = types[n] /\ t.kind = k
            BY Zenon DEF RangeTypes
          <6> QED
            BY <5>1, <6>1, <2>3, SMTT(20) DEF RangeTypes
        <5>3. ASSUME NEW t \in RangeTypes(k)' PROVE t \in RangeTypes(k)
          BY <2>3, SMTT(20) DEF RangeTypes
        <5> QED
          BY <5>2, <5>3, Zenon
      <4> QED
        BY <4>1, <3>2, <1>0, <2>2, Zenon
    <3> QED
      BY <3>1, <3>2, Zenon
  <2>9. DOMAIN counts' = Kinds
    BY <1>0, <2>2, Zenon
  <2> QED
    BY <2>7, <2>8, <2>9, Zenon DEF TypesInv
<1>8. ASSUME NEW f \in FileDescs, RegisterFile(f) \/ UpdateFile(f) PROVE TypesInv'
  BY <1>3, <1>8, Zenon DEF RegisterFile, UpdateFile
<1>9. ASSUME NEW p \in FilePaths, UnregisterFile(p) PROVE TypesInv'
  BY <1>3, <1>9, Zenon DEF UnregisterFile
<1>10. CASE UNCHANGED vars
  BY <1>3, <1>10, Zenon DEF vars, typeVars
<1> QED
  BY <1>5, <1>6, <1>7, <1>8, <1>9, <1>10, Zenon DEF Next

-----------------------------------------------------------------------------
(* Both registries start empty. *)
LEMMA InitInv ==
    ASSUME Init
    PROVE  FilesInv /\ TypesInv
<1>1. Registered = {} /\ DOMAIN files = {} /\ DOMAIN types = {} /\ DOMAIN exts = {}
  BY Zenon DEF Init, Registered
<1>2. PICK d : d = descs /\ DOMAIN d = {<< >>} /\ d[<< >>] = Package({})
  <2>1. descs = [n \in {<< >>} |-> Package({})]
    BY Zenon DEF Init
  <2> QED
    BY <2>1
<1>3. IndexInv(d, {}, {}, {})
  <2>1. << >> \in Seq(Parts)
    OBVIOUS
  <2>2. \A n \in DOMAIN d : n = << >>
    BY <1>2, Zenon
  <2>3. IsPackage(d, << >>)
    BY <1>2, Entries, Zenon DEF IsPackage
  <2>4. {f \in {} : f.pkg = << >>} = {}
    BY Zenon
  <2>5. \A n \in DOMAIN d : IsPackage(d, n) /\ d[n] = Package({f \in {} : f.pkg = n})
    <3>1. d[<< >>] = Package({f \in {} : f.pkg = << >>})
      BY <1>2, <2>4, Zenon
    <3> QED
      BY <2>2, <2>3, <3>1, Zenon
  <2> QED
    BY <2>1, <2>2, <2>3, <2>5, Zenon DEF IndexInv
<1>4. Pkgs({}) = {}
  BY Zenon DEF Pkgs
<1>5. FilesInv
  <2>1. IndexInv(descs, Registered, Pkgs(Registered), {})
    BY <1>1, <1>2, <1>3, <1>4, Zenon
  <2>2. numFiles = Cardinality(DOMAIN files)
    BY <1>1, FS_EmptySet, Zenon DEF Init
  <2> QED
    BY <1>1, <2>1, <2>2, Zenon DEF FilesInv
<1>6. TypesMaps(types, exts)
  BY <1>1, Zenon DEF TypesMaps
<1>7. \A k \in Kinds : counts[k] = 0 /\ RangeTypes(k) = {}
  BY <1>1, Zenon DEF Init, RangeTypes
<1>8. DOMAIN counts = Kinds
  BY Zenon DEF Init
<1>9. TypesInv
  BY <1>6, <1>7, <1>8, FS_EmptySet, Zenon DEF TypesInv
<1> QED
  BY <1>5, <1>9, Zenon

(* The inductive invariants of the two registries. *)
THEOREM InvHolds == Spec => [](FilesInv /\ TypesInv)
<1>1. Init => FilesInv /\ TypesInv
  BY InitInv, Zenon
<1>2. FilesInv /\ TypesInv /\ [Next]_vars => (FilesInv /\ TypesInv)'
  BY FilesStep, TypesStep, Zenon
<1> QED
  BY <1>1, <1>2, PTL DEF Spec

(* The variables of the namespace's registries have their types. *)
THEOREM TypeCorrect == Spec => []TypeOK
<1>1. ASSUME FilesInv, TypesInv PROVE TypeOK
  <2>0. PICK d, R : d = descs /\ R = Registered /\ IndexInv(d, R, Pkgs(R), {})
    BY <1>1, Zenon DEF FilesInv
  <2>1. << >> \in DOMAIN d
    BY <2>0, Zenon DEF IndexInv, IsPackage
  <2>2. ASSUME NEW n \in DOMAIN d
        PROVE  d[n].kind \in {"package", "descriptor"} /\ d[n].files \subseteq FileDescs
    <3>1. R \in SUBSET FileDescs
      BY <1>1, <2>0, FilesFinite, Zenon
    <3>2. CASE IsPackage(d, n)
      <4>1. d[n].files = {f \in R : f.pkg = n}
        BY <3>2, <2>0, Entries, Zenon DEF IndexInv
      <4> QED
        BY <4>1, <3>1, <3>2, Zenon DEF IsPackage
    <3>3. CASE ~IsPackage(d, n)
      <4>1. PICK f \in R : n \in f.names
        BY <3>3, <2>0, Zenon DEF IndexInv
      <4>2. d[n] = Entry(f)
        BY <4>1, <2>0, Zenon DEF IndexInv
      <4> QED
        BY <4>1, <4>2, <3>1 DEF Entry
    <3> QED
      BY <3>2, <3>3, Zenon
  <2>3. /\ DOMAIN files \subseteq FilePaths
        /\ \A p \in DOMAIN files : files[p] \in FileDescs /\ files[p].path = p
    BY <1>1, Zenon DEF FilesInv
  <2>4. numFiles \in 0..Cardinality(FilePaths)
    <3>1. /\ Cardinality(DOMAIN files) \in Nat /\ Cardinality(FilePaths) \in Nat
          /\ Cardinality(DOMAIN files) <= Cardinality(FilePaths)
      BY <1>1, FilesFinite, FS_CardinalityType, Zenon
    <3> QED
      BY <3>1, <1>1 DEF FilesInv
  <2>5. DOMAIN types \subseteq TypeNames
    BY <1>1, Zenon DEF TypesInv, TypesMaps
  <2>6. ASSUME NEW k \in DOMAIN exts PROVE k \in Numbers
    <3>1. PICK t : t = exts[k]
      BY Zenon
    <3>2. t \in TypeDescs /\ IsExtension(t) /\ k = <<t.on, t.num>>
      BY <1>1, <3>1, Zenon DEF TypesInv, TypesMaps
    <3> QED
      BY <3>2, Zenon DEF Numbers, IsExtension
  <2>7. ASSUME NEW k \in Kinds PROVE counts[k] \in 0..Cardinality(TypeNames)
    <3>1. /\ Cardinality(RangeTypes(k)) \in Nat /\ Cardinality(TypeNames) \in Nat
          /\ Cardinality(RangeTypes(k)) <= Cardinality(TypeNames)
      BY <1>1, TypesFinite, FS_CardinalityType, Zenon
    <3> QED
      BY <3>1, <1>1 DEF TypesInv
  <2> QED
    BY <2>0, <2>1, <2>2, <2>3, <2>4, <2>5, <2>6, <2>7, Zenon DEF TypeOK
<1> QED
  BY <1>1, InvHolds, PTL

(* However files are registered, replaced and removed, descsByName holds   *)
(* the declarations and the packages of exactly the registered files.      *)
THEOREM IndexCorrect == Spec => []IndexMatchesFiles
<1>1. ASSUME FilesInv PROVE IndexMatchesFiles
  <2>0. PICK d, R : d = descs /\ R = Registered /\ IndexInv(d, R, Pkgs(R), {})
    BY <1>1, Zenon DEF FilesInv
  <2>1. \A f \in R : \A n \in f.names : n \in DOMAIN d /\ d[n] = Entry(f)
    BY <2>0, Zenon DEF IndexInv
  <2>2. {n \in DOMAIN d : ~IsPackage(d, n)} = UNION {f.names : f \in R}
    <3>1. \A f \in R : \A n \in f.names : ~IsPackage(d, n)
      BY <2>1, Entries, Zenon DEF IsPackage
    <3>2. \A n \in DOMAIN d : ~IsPackage(d, n) => \E f \in R : n \in f.names
      BY <2>0, Zenon DEF IndexInv
    <3> QED
      BY <2>1, <3>1, <3>2, Zenon
  <2>3. ASSUME NEW n \in DOMAIN d \cup {f.pkg : f \in R}
        PROVE  FilesByPackage(n) = {f \in R : f.pkg = n}
    <3>1. CASE IsPackage(d, n)
      <4>1. d[n] = Package({f \in R : f.pkg = n})
        BY <3>1, <2>0, Zenon DEF IndexInv, IsPackage
      <4>2. d[n].files = {f \in R : f.pkg = n}
        BY <4>1, Entries, Zenon
      <4> QED
        BY <3>1, <4>2, <2>0, Zenon DEF FilesByPackage
    <3>2. CASE ~IsPackage(d, n)
      <4>1. \A f \in R : IsPackage(d, f.pkg)
        BY <2>0, Zenon DEF IndexInv
      <4>2. {f \in R : f.pkg = n} = {}
        BY <4>1, <3>2, Zenon
      <4> QED
        BY <3>2, <4>2, <2>0, Zenon DEF FilesByPackage
    <3> QED
      BY <3>1, <3>2, Zenon
  <2>4. ASSUME NEW n \in DOMAIN d, n # << >>, IsPackage(d, n)
        PROVE  \E f \in R : n \in Prefixes(f.pkg)
    <3>1. PICK p \in Pkgs(R) : n \in Prefixes(p)
      BY <2>0, <2>4, Zenon DEF IndexInv, Kept
    <3> QED
      BY <3>1, Zenon DEF Pkgs
  <2> QED
    BY <2>0, <2>1, <2>2, <2>3, <2>4, Zenon DEF IndexMatchesFiles
<1> QED
  BY <1>1, InvHolds, PTL

(* Names and numbers of extensions lead to each other, and the counters    *)
(* kept beside the maps count what is in them.                             *)
THEOREM TypeIndexesCorrect == Spec => []TypeIndexesMatch
<1>1. ASSUME FilesInv, TypesInv PROVE TypeIndexesMatch
  <2>1. ASSUME NEW k \in DOMAIN exts, NEW t \in FindExtensionByNumber(k[1], k[2])
        PROVE  k = <<t.on, t.num>> /\ FindType("extension", t.name) = {t}
    <3>1. PICK u : u = exts[k]
      BY Zenon
    <3>2. IsExtension(u) /\ k = <<u.on, u.num>> /\ u.name \in DOMAIN types /\ types[u.name] = u
      BY <1>1, <3>1, Zenon DEF TypesInv, TypesMaps
    <3>3. k = <<k[1], k[2]>>
      BY <3>2, Zenon
    <3>4. t = u
      BY <3>1, <3>3, Zenon DEF FindExtensionByNumber
    <3> QED
      BY <3>2, <3>4, Zenon DEF FindType, IsExtension
  <2>2. ASSUME NEW t \in RangeTypes("extension") PROVE t \in ExtensionsByMessage(t.on)
    <3>1. PICK n \in DOMAIN types : t = types[n] /\ t.kind = "extension"
      BY Zenon DEF RangeTypes
    <3>2. <<t.on, t.num>> \in DOMAIN exts /\ exts[<<t.on, t.num>>] = t
      BY <1>1, <3>1, Zenon DEF TypesInv, TypesMaps, IsExtension
    <3>3. <<t.on, t.num>>[1] = t.on
      BY Zenon
    <3> QED
      BY <3>2, <3>3, Zenon DEF ExtensionsByMessage
  <2>3. numFiles = Cardinality(Registered)
    BY <1>1, FilesFinite, Zenon DEF FilesInv
  <2>4. \A k \in Kinds : counts[k] = Cardinality(RangeTypes(k))
    BY <1>1, Zenon DEF TypesInv
  <2> QED
    BY <2>1, <2>2, <2>3, <2>4, Zenon DEF TypeIndexesMatch
<1> QED
  BY <1>1, InvHolds, PTL

(* A search by the longest prefix in the index finds the registered files  *)
(* that declare the name, unless a package lies inside a message: then it  *)
(* stops at the package.                                                   *)
LEMMA LocalLookup ==
    ASSUME FilesInv, NEW name \in Seq(Parts), name # << >>, ~Buried(name)
    PROVE  FindLocal(name) = {f \in Registered : name \in Declared(f)}
<1>0. PICK d, R : /\ d = descs /\ R = Registered /\ IndexInv(d, R, Pkgs(R), {})
                  /\ R \in SUBSET FileDescs
  BY FilesFinite, Zenon DEF FilesInv
<1> DEFINE held == Prefixes(name) \cap DOMAIN d
           longest == {n \in held : \A o \in held : Len(o) <= Len(n)}
<1>1. FindLocal(name) = {f \in UNION {d[n].files : n \in {m \in longest : ~IsPackage(d, m)}} :
                            name \in Declared(f)}
  BY <1>0, Zenon DEF FindLocal
<1>2. \A f \in R : \A n \in f.names : n \in DOMAIN d /\ d[n] = Entry(f) /\ ~IsPackage(d, n)
  <2>1. \A f \in R : \A n \in f.names : n \in DOMAIN d /\ d[n] = Entry(f)
    BY <1>0, Zenon DEF IndexInv
  <2> QED
    BY <2>1, Entries, Zenon DEF IsPackage
<1>3. ASSUME NEW pkg \in Prefixes(name), IsPackage(d, pkg), NEW f \in R,
             NEW p \in f.names, p \in Prefixes(pkg)
      PROVE  FALSE
  <2>1. Prefixes(pkg) \cap UNION {g.names : g \in Registered} # {}
    BY <1>0, <1>3, Zenon
  <2> QED
    BY <1>0, <1>3, <2>1, Zenon DEF Buried
<1>4. ASSUME NEW f \in FindLocal(name) PROVE f \in R /\ name \in Declared(f)
  <2>1. PICK m \in longest : ~IsPackage(d, m) /\ f \in d[m].files
    BY <1>1, <1>4, Zenon
  <2>2. PICK h \in R : m \in h.names
    BY <1>0, <2>1, Zenon DEF IndexInv
  <2>3. d[m].files = {h}
    BY <1>2, <2>2, Entries, Zenon
  <2> QED
    BY <1>1, <1>4, <2>1, <2>3, Zenon
<1>5. ASSUME NEW f \in R, NEW p \in f.names, p \in longest, name \in Declared(f)
      PROVE  f \in FindLocal(name)
  <2>1. d[p].files = {f} /\ ~IsPackage(d, p)
    BY <1>2, Entries, Zenon
  <2> HIDE DEF longest
  <2> QED
    BY <1>1, <1>5, <2>1, Zenon
<1>6. ASSUME NEW f \in R, name \in Declared(f) PROVE \E p \in f.names : p \in longest
  <2>1. CASE name \in f.names
    <3>1. name \in held
      BY <2>1, <1>2, PrefixSelf, Zenon
    <3>2. \A o \in held : Len(o) <= Len(name)
      BY PrefixType
    <3> QED
      BY <2>1, <3>1, <3>2, Zenon
  <2>2. CASE name \in f.nested
    <3>1. PICK p \in f.names : p \in Prefixes(name)
      BY <1>0, <2>2, NsAssumption, Zenon
    <3>2. p \in held /\ Len(p) \in Nat
      BY <3>1, <1>2, PrefixType
    <3>3. ASSUME NEW o \in held, ~(Len(o) <= Len(p)) PROVE FALSE
      <4>1. o \in Seq(Parts) /\ Len(o) \in Nat /\ p \in Prefixes(o) /\ p # o
        BY <3>1, <3>2, <3>3, PrefixType, PrefixOrder
      <4>2. ~IsPackage(d, o)
        BY <1>3, <3>1, <4>1, Zenon
      <4>3. PICK g \in R : o \in g.names
        BY <1>0, <4>2, Zenon DEF IndexInv
      <4>4. g.pkg \in Seq(Parts) /\ Prefixes(o) = Prefixes(g.pkg) \cup {o} /\ IsPackage(d, g.pkg)
        BY <1>0, <4>3, FileNames, Zenon DEF IndexInv
      <4>5. p \in Prefixes(g.pkg)
        BY <4>1, <4>4, Zenon
      <4>6. g.pkg \in Prefixes(g.pkg)
        BY <4>4, <4>5, PrefixRoot, PrefixSelf, Zenon
      <4>7. g.pkg \in Prefixes(name)
        BY <4>4, <4>6, PrefixTrans, Zenon
      <4> QED
        BY <1>3, <3>1, <4>4, <4>5, <4>7, Zenon
    <3> QED
      BY <3>1, <3>2, <3>3, Zenon
  <2> QED
    BY <1>6, <2>1, <2>2, Zenon DEF Declared
<1> QED
  BY <1>0, <1>4, <1>5, <1>6, Zenon

(* FindDescriptorByName answers as a search of all files would, the local  *)
(* ones first, and the paths of what it finds lead back to it.             *)
THEOREM LookupsCorrect == Spec => []LookupsMatchFiles
<1>1. ASSUME FilesInv PROVE LookupsMatchFiles
  <2> SUFFICES ASSUME NEW n \in UNION {Declared(f) : f \in FileDescs \cup ParentFiles}, ~Buried(n)
               PROVE  LET own == {f \in Registered : n \in Declared(f)}
                          found == FindDescriptorByName(n)
                      IN  /\ own # {} => found = own
                          /\ own = {} => found = {f \in ParentFiles : n \in Declared(f)}
                          /\ \A f \in found : FindFileByPath(f.path) = {f} <=> f \in RangeFilesAll
    BY Zenon DEF LookupsMatchFiles
  <2> DEFINE own == {f \in Registered : n \in Declared(f)}
             found == FindDescriptorByName(n)
  <2>1. n \in Seq(Parts) /\ n # << >>
    <3>1. PICK f \in FileDescs \cup ParentFiles : n \in Declared(f)
      BY Zenon
    <3>2. CASE n \in f.names
      BY <3>2, FileNames, Zenon
    <3>3. CASE n \in f.nested
      <4>1. n \in Seq(Parts) /\ Prefixes(n) # {}
        BY <3>3, NsAssumption
      <4> QED
        BY <4>1, PrefixRoot, Zenon
    <3> QED
      BY <3>1, <3>2, <3>3, Zenon DEF Declared
  <2>2. FindLocal(n) = own
    BY <1>1, <2>1, LocalLookup, Zenon
  <2>3. /\ own # {} => found = own
        /\ own = {} => found = {f \in ParentFiles : n \in Declared(f)}
    BY <2>2, Zenon DEF FindDescriptorByName
  <2>4. \A f \in Registered : f.path \in DOMAIN files /\ files[f.path] = f
    BY <1>1, FilesFinite, Zenon
  <2>5. ASSUME NEW f \in Registered
        PROVE  FindFileByPath(f.path) = {f} /\ f \in RangeFilesAll
    BY <2>4, Zenon DEF FindFileByPath, RangeFilesAll
  <2>6. ASSUME NEW f \in ParentFiles, f \notin Registered
        PROVE  FindFileByPath(f.path) = {f} <=> f \in RangeFilesAll
    <3>1. CASE f.path \in DOMAIN files
      <4>1. files[f.path] \in Registered
        BY <3>1, Zenon DEF Registered
      <4> QED
        BY <3>1, <4>1, <2>6, Zenon DEF FindFileByPath, RangeFilesAll
    <3>2. CASE f.path \notin DOMAIN files
      <4>1. {g \in ParentFiles : g.path = f.path} = {f}
        BY NsAssumption, Zenon
      <4> QED
        BY <3>2, <4>1, Zenon DEF FindFileByPath, RangeFilesAll
    <3> QED
      BY <3>1, <3>2, Zenon
  <2>7. \A f \in found : f \in Registered \/ f \in ParentFiles
    BY <2>3, Zenon
  <2> HIDE DEF found, own
  <2>8. \A f \in found : FindFileByPath(f.path) = {f} <=> f \in RangeFilesAll
    BY <2>5, <2>6, <2>7, Zenon
  <2> QED
    BY <2>3, <2>8, Zenon DEF found, own
<1> QED
  BY <1>1, InvHolds, PTL
=============================================================================
