----------------------------- MODULE NsRegistry -----------------------------
(***************************************************************************)
(* The in-memory registries of one namespace (nsregistry/): the files      *)
(* with their index of packages and top-level names (NamespacedFiles), and *)
(* the types with their index of extension numbers (NamespacedTypes).      *)
(* Each call that changes them holds the registry's mutex throughout, so   *)
(* it is a step.  A lookup that finds nothing here asks the parent, which  *)
(* no call here changes; what it answers with its own ancestors is given.  *)
(*                                                                         *)
(* A full name is the sequence of its parts; << >> is the root package.    *)
(***************************************************************************)
EXTENDS Naturals, Sequences, FiniteSets

CONSTANTS Parts,       \* the identifiers full names are made of
          FileDescs,   \* file descriptors: [path, pkg, names, nested]
          TypeDescs,   \* types: [kind, name, on, num], on and num for extensions
          ParentFiles, \* the files and the types that are
          ParentTypes  \* visible in the parent

Kinds == {"message", "enum", "extension"}
FilePaths == {f.path : f \in FileDescs}
TypeNames == {t.name : t \in TypeDescs}
Numbers == {<<t.on, t.num>> : t \in {u \in TypeDescs : u.kind = "extension"}}

(* The packages a package is in, itself included, the root excepted. *)
Prefixes(pkg) == {SubSeq(pkg, 1, i) : i \in 1..Len(pkg)}

(* A file's top-level names lie directly in its package, and what is nested *)
(* lies in one of them; a namespace has one file at a path.                 *)
ASSUME NsAssumption ==
    /\ \A f \in FileDescs \cup ParentFiles :
          /\ f.pkg \in Seq(Parts)
          /\ f.names \subseteq {Append(f.pkg, x) : x \in Parts}
          /\ f.nested \subseteq Seq(Parts)
          /\ \A n \in f.nested : n \notin f.names /\ Prefixes(n) \cap f.names # {}
    /\ \A f, g \in ParentFiles : f.path = g.path => f = g
    /\ \A t \in TypeDescs \cup ParentTypes : t.kind \in Kinds
    /\ IsFiniteSet(FileDescs) /\ IsFiniteSet(TypeDescs)

VARIABLES descs,     \* descsByName: a package with its files, or a descriptor
          files,     \* filesByPath and fileDescs, which have the same keys
          numFiles,
          types,     \* typesByName
          exts,      \* extensionsByMessage, by message and number
          counts     \* numMessages, numEnums, numExtensions

fileVars == <<descs, files, numFiles>>
typeVars == <<types, exts, counts>>
vars == <<descs, files, numFiles, types, exts, counts>>

Package(fs) == [kind |-> "package", files |-> fs]
Entry(f) == [kind |-> "descriptor", files |-> {f}]

(* A map with some keys deleted, and a map with an entry set. *)
Without(m, S) == [k \in DOMAIN m \ S |-> m[k]]
With(m, k, v) == [j \in DOMAIN m \cup {k} |-> IF j = k THEN v ELSE m[j]]

IsPackage(d, name) == name \in DOMAIN d /\ d[name].kind = "package"

Init ==
    /\ descs = [n \in {<< >>} |-> Package({})]
    /\ files = [p \in {} |-> 0]
    /\ numFiles = 0
    /\ types = [n \in {} |-> 0]
    /\ exts = [n \in {} |-> 0]
    /\ counts = [k \in Kinds |-> 0]

-----------------------------------------------------------------------------
(* NamespacedFiles. *)

(* The conflict checks of RegisterFile, against the map d. *)
Accepts(d, f) ==
    /\ \A n \in Prefixes(f.pkg) : n \notin DOMAIN d \/ IsPackage(d, n)
    /\ f.names \cap DOMAIN d = {}

(* insertFileLocked: packages are created as needed, the file is added to  *)
(* its own, and its names replace whatever they stood for.                 *)
InsertFile(d, f) ==
    LET made == [n \in DOMAIN d \cup Prefixes(f.pkg) |->
                    IF n \in DOMAIN d THEN d[n] ELSE Package({})]
        listed == [made EXCEPT ![f.pkg].files = @ \cup {f}]
    IN  [n \in DOMAIN listed \cup f.names |->
            IF n \in f.names THEN Entry(f) ELSE listed[n]]

(* Deviation: the walk goes on to the root package. *)
CleanupPackageRoot(d, pkg) ==
    Without(d, {n \in Prefixes(pkg) \cup {<< >>} : IsPackage(d, n) /\ d[n].files = {}})

(* cleanupPackageChain: walking up from pkg, packages without files are    *)
(* deleted until one has files or is not there, so a package goes if all   *)
(* from pkg up to it are without files.                                    *)
CleanupPackageChain(d, pkg) ==
    Without(d, {n \in Prefixes(pkg) :
                   \A m \in Prefixes(pkg) :
                      Len(m) >= Len(n) => IsPackage(d, m) /\ d[m].files = {}})

(* removeFileByPath on the file list of a package, if it is one. *)
RemoveFile(d, f) ==
    IF IsPackage(d, f.pkg) THEN [d EXCEPT ![f.pkg].files = @ \ {f}] ELSE d

RegisterFile(f) ==
    /\ IF f.path \in DOMAIN files \/ ~Accepts(descs, f) THEN UNCHANGED fileVars
       ELSE /\ descs' = InsertFile(descs, f)
            /\ files' = With(files, f.path, f)
            /\ numFiles' = numFiles + 1
    /\ UNCHANGED typeVars

(* Deviation: the names the new file no longer has stay in the index. *)
ReplacedKeepingNames(f) ==
    IF f.path \in DOMAIN files THEN RemoveFile(descs, files[f.path]) ELSE descs

(* The index once UpdateFile has taken the old file out: its names that    *)
(* the new one lacks go, and its package is cleaned up if it changes.      *)
Replaced(f) ==
    IF f.path \notin DOMAIN files THEN descs
    ELSE LET old == files[f.path]
             d == RemoveFile(Without(descs, old.names \ f.names), old)
         IN  IF old.pkg = f.pkg THEN d ELSE CleanupPackageChain(d, old.pkg)

(* UpdateFile checks nothing: its callers do.  The client upserts files    *)
(* whose names no other file has (buildNameIndex); a file whose package is *)
(* another file's message would make insertFileLocked panic.               *)
UpdateFile(f) ==
    LET old == IF f.path \in DOMAIN files THEN files[f.path].names ELSE {}
    IN  /\ Accepts(Without(descs, old), f)
        /\ descs' = InsertFile(Replaced(f), f)
        /\ files' = With(files, f.path, f)
        /\ numFiles' = IF f.path \in DOMAIN files THEN numFiles ELSE numFiles + 1
        /\ UNCHANGED typeVars

UnregisterFile(p) ==
    /\ p \in DOMAIN files
    /\ descs' = CleanupPackageChain(
                   RemoveFile(Without(descs, files[p].names), files[p]), files[p].pkg)
    /\ files' = Without(files, {p})
    /\ numFiles' = numFiles - 1
    /\ UNCHANGED typeVars

-----------------------------------------------------------------------------
(* NamespacedTypes. *)

IsExtension(t) == t.kind = "extension"

SetType(t) ==
    /\ types' = With(types, t.name, t)
    /\ exts' = IF IsExtension(t) THEN With(exts, <<t.on, t.num>>, t) ELSE exts

(* RegisterMessage, RegisterEnum, RegisterExtension: a name, or a number   *)
(* of the extended message, that is taken is an error.                     *)
RegisterType(t) ==
    /\ IF \/ t.name \in DOMAIN types
          \/ IsExtension(t) /\ <<t.on, t.num>> \in DOMAIN exts
       THEN UNCHANGED typeVars
       ELSE /\ SetType(t)
            /\ counts' = [counts EXCEPT ![t.kind] = @ + 1]
    /\ UNCHANGED fileVars

(* UpdateMessage, UpdateEnum, UpdateExtension: again unchecked.  The       *)
(* client calls them after it has unregistered what they replace, so the   *)
(* name and number they meet are free or the same type's; two schemas that *)
(* use one number of a message are outside the model.                      *)
UpdateType(t) ==
    /\ t.name \in DOMAIN types =>
          /\ types[t.name].kind = t.kind
          /\ types[t.name].on = t.on /\ types[t.name].num = t.num
    /\ IsExtension(t) /\ <<t.on, t.num>> \in DOMAIN exts =>
          exts[<<t.on, t.num>>].name = t.name
    /\ SetType(t)
    /\ counts' = IF t.name \in DOMAIN types THEN counts
                 ELSE [counts EXCEPT ![t.kind] = @ + 1]
    /\ UNCHANGED fileVars

(* Deviation: the number stays taken. *)
UnregisterTypeNumbered(kind, name) ==
    /\ name \in DOMAIN types
    /\ types[name].kind = kind
    /\ types' = Without(types, {name})
    /\ counts' = [counts EXCEPT ![kind] = @ - 1]
    /\ UNCHANGED <<exts, fileVars>>

(* UnregisterMessage, UnregisterEnum, UnregisterExtension: a type of       *)
(* another kind is not found.                                              *)
UnregisterType(kind, name) ==
    /\ name \in DOMAIN types
    /\ types[name].kind = kind
    /\ types' = Without(types, {name})
    /\ exts' = IF kind # "extension" THEN exts
               ELSE Without(exts, {<<types[name].on, types[name].num>>})
    /\ counts' = [counts EXCEPT ![kind] = @ - 1]
    /\ UNCHANGED fileVars

-----------------------------------------------------------------------------
(* Lookups, which change nothing.  An answer is the set of what is found:  *)
(* empty for NotFound and for every other error.                           *)

Registered == {files[p] : p \in DOMAIN files}
Declared(f) == f.names \cup f.nested

(* Deviation: what the prefix stands for is returned for the whole name. *)
FindLocalPrefix(name) ==
    LET held == Prefixes(name) \cap DOMAIN descs
    IN  UNION {descs[n].files : n \in {m \in held : \A o \in held : Len(o) <= Len(m)}}

(* findDescriptorByNameLocal: the longest prefix in the index decides; a   *)
(* package has no members, a descriptor those nested in it.                *)
FindLocal(name) ==
    LET held == Prefixes(name) \cap DOMAIN descs
        longest == {n \in held : \A o \in held : Len(o) <= Len(n)}
    IN  {f \in UNION {descs[n].files : n \in {m \in longest : ~IsPackage(descs, m)}} :
            name \in Declared(f)}

(* The file whose descriptor is found. *)
FindDescriptorByName(name) ==
    IF FindLocal(name) # {} THEN FindLocal(name)
    ELSE {f \in ParentFiles : name \in Declared(f)}

FindFileByPath(p) ==
    IF p \in DOMAIN files THEN {files[p]} ELSE {f \in ParentFiles : f.path = p}

(* RangeFilesAll: a path seen in the child is skipped in the parent. *)
RangeFilesAll == Registered \cup {f \in ParentFiles : f.path \notin DOMAIN files}

(* NumFilesByPackage and RangeFilesByPackage. *)
FilesByPackage(pkg) == IF IsPackage(descs, pkg) THEN descs[pkg].files ELSE {}

(* FindMessageByName, FindMessageByURL, FindEnumByName and                 *)
(* FindExtensionByName: a local type of another kind is an error, and the  *)
(* parent is not asked.                                                    *)
FindType(kind, name) ==
    {t \in IF name \in DOMAIN types THEN {types[name]} ELSE ParentTypes :
        t.name = name /\ t.kind = kind}

FindExtensionByNumber(on, num) ==
    IF <<on, num>> \in DOMAIN exts THEN {exts[<<on, num>>]}
    ELSE {t \in ParentTypes : IsExtension(t) /\ t.on = on /\ t.num = num}

(* RangeMessages, RangeEnums and RangeExtensions. *)
RangeTypes(kind) == {t \in {types[n] : n \in DOMAIN types} : t.kind = kind}

(* NumExtensionsByMessage and RangeExtensionsByMessage. *)
ExtensionsByMessage(on) == {exts[k] : k \in {j \in DOMAIN exts : j[1] = on}}

-----------------------------------------------------------------------------
Next ==
    \/ \E f \in FileDescs : RegisterFile(f) \/ UpdateFile(f)
    \/ \E p \in FilePaths : UnregisterFile(p)
    \/ \E t \in TypeDescs : RegisterType(t) \/ UpdateType(t)
    \/ \E k \in Kinds, n \in TypeNames : UnregisterType(k, n)

Spec == Init /\ [][Next]_vars

-----------------------------------------------------------------------------
(* Properties. *)

(* The variables have their types. *)
TypeOK ==
    /\ << >> \in DOMAIN descs
    /\ \A n \in DOMAIN descs : /\ descs[n].kind \in {"package", "descriptor"}
                               /\ descs[n].files \subseteq FileDescs
    /\ DOMAIN files \subseteq FilePaths
    /\ \A p \in DOMAIN files : files[p] \in FileDescs /\ files[p].path = p
    /\ numFiles \in 0..Cardinality(FilePaths)
    /\ DOMAIN types \subseteq TypeNames
    /\ DOMAIN exts \subseteq Numbers
    /\ \A k \in Kinds : counts[k] \in 0..Cardinality(TypeNames)

(* However files were registered, replaced and removed, a name is in the   *)
(* index exactly if a registered file declares it, as that file's, and the *)
(* files of a package are exactly the registered ones that are in it.  No  *)
(* package entry outlives the last file in it or below it: it would make   *)
(* RegisterFile refuse a file for a package nobody has.                    *)
IndexMatchesFiles ==
    /\ {n \in DOMAIN descs : ~IsPackage(descs, n)} = UNION {f.names : f \in Registered}
    /\ \A f \in Registered : \A n \in f.names : descs[n] = Entry(f)
    /\ \A n \in DOMAIN descs \cup {f.pkg : f \in Registered} :
          FilesByPackage(n) = {f \in Registered : f.pkg = n}
    /\ \A n \in DOMAIN descs \ {<< >>} :
          IsPackage(descs, n) => \E f \in Registered : n \in Prefixes(f.pkg)

(* A package lies inside a message: cleanupPackageChain has deleted the    *)
(* entry of a package above it, and the message took the free name.        *)
Buried(name) ==
    \E pkg \in Prefixes(name) :
        IsPackage(descs, pkg) /\ Prefixes(pkg) \cap UNION {f.names : f \in Registered} # {}

(* FindDescriptorByName, which works from prefixes of the name, finds what *)
(* a search of all files would: the local file that declares the name, at  *)
(* the top or nested, and the parent's only if there is none; and the file *)
(* it finds is the one its path leads to unless a local file has the path. *)
(* Names inside a buried package are excepted.                             *)
LookupsMatchFiles ==
    \A n \in UNION {Declared(f) : f \in FileDescs \cup ParentFiles} :
        LET own == {f \in Registered : n \in Declared(f)}
            found == FindDescriptorByName(n)
        IN  \/ Buried(n)
            \/ /\ own # {} => found = own
               /\ own = {} => found = {f \in ParentFiles : n \in Declared(f)}
               /\ \A f \in found : FindFileByPath(f.path) = {f} <=> f \in RangeFilesAll

(* An extension found here by its number is found by its name and the      *)
(* other way round, so a number is free again once its extension is gone;  *)
(* and the counters kept by hand beside the maps are the numbers of what   *)
(* the range functions visit.                                              *)
TypeIndexesMatch ==
    /\ \A k \in DOMAIN exts : \A t \in FindExtensionByNumber(k[1], k[2]) :
          k = <<t.on, t.num>> /\ FindType("extension", t.name) = {t}
    /\ \A t \in RangeTypes("extension") : t \in ExtensionsByMessage(t.on)
    /\ numFiles = Cardinality(Registered)
    /\ \A k \in Kinds : counts[k] = Cardinality(RangeTypes(k))
=============================================================================
