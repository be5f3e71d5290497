----------------------------- MODULE Hierarchy -----------------------------
(***************************************************************************)
(* The namespace hierarchy: CreateNamespace and SetNamespaceParent of      *)
(* registry.go over the transaction of store/postgres/postgres.go, the     *)
(* audit log of re-parentings, and the parent pointers kept in memory for  *)
(* Namespace.Chain.                                                        *)
(*                                                                         *)
(* Transactions run at READ COMMITTED, the default level: a statement sees *)
(* what is committed when it starts; an UPDATE waits for the row lock of a *)
(* transaction that has updated the same row and then goes on with what it *)
(* has already read of the other rows.                                     *)
(***************************************************************************)
EXTENDS Naturals, Sequences, FiniteSets

CONSTANTS Namespaces,   \* namespace IDs
          Existing,     \* the namespaces that are there to begin with
          Prior,        \* the events logged by then, one per namespace at most
          None,         \* no parent: the implicit root
          Procs,        \* request handlers
          MaxDepth,     \* the walk bound of the cycle check (64 in the code)
          MaxTx,        \* bound: re-parenting transactions begun
          MayCrash,     \* the server process may stop and start again
          MayLoseReply  \* a commit may happen and yet report an error

ASSUME HierarchyAssumption ==
    /\ Existing \subseteq Namespaces
    /\ None \notin Namespaces
    /\ MaxDepth \in Nat \ {0}
    /\ MaxTx \in Nat
    /\ MayCrash \in BOOLEAN
    /\ MayLoseReply \in BOOLEAN

VARIABLES rows,       \* namespaces that have a row
          parent,     \* namespaces.parent_namespace_id
          events,     \* namespace_parent_events, in the order of their IDs
          clock,      \* transactions begun; now() in one is its begin time
          memParent,  \* Namespace.parent
          req,        \* what each handler is doing
          disturbed   \* history: requests have overlapped, or a reply was lost

dbVars == <<rows, parent, events>>
vars == <<rows, parent, events, clock, memParent, req, disturbed>>

Parents == Namespaces \cup {None}

Phases == {"idle", "begin", "check", "lock", "commit", "mem"}

(* ns is re-parented to "to"; prev is the parent read at the start.        *)
Requests == [ph : Phases, ns : Parents, to : Parents, prev : Parents, at : Nat]

NoRequest == [ph |-> "idle", ns |-> None, to |-> None, prev |-> None, at |-> 0]

Events == [ns : Namespaces, prev : Parents, new : Parents, at : Nat]

(* What is logged to begin with: one transaction per namespace moved, and  *)
(* no cycle.                                                               *)
ASSUME PriorAssumption ==
    /\ Prior \in Seq(Events)
    /\ \A i \in 1..Len(Prior) :
          /\ Prior[i].ns \in Existing
          /\ Prior[i].new \in Existing \cup {None}
          /\ Prior[i].prev = None
          /\ Prior[i].at = i - 1
          /\ \A j \in 1..Len(Prior) : Prior[j].ns = Prior[i].ns => i = j
    /\ \A S \in SUBSET Existing : S # {} =>
          \E n \in S : \A i \in 1..Len(Prior) : Prior[i].ns = n => Prior[i].new \notin S

Idle(p) == req[p].ph = "idle"

Return(p) == req' = [req EXCEPT ![p] = NoRequest]

Goto(p, ph) == req' = [req EXCEPT ![p].ph = ph]

Init ==
    /\ rows = Existing
    /\ parent = [n \in Namespaces |->
                   IF \E i \in 1..Len(Prior) : Prior[i].ns = n
                   THEN Prior[CHOOSE i \in 1..Len(Prior) : Prior[i].ns = n].new ELSE None]
    /\ events = Prior
    /\ clock = Len(Prior)
    /\ memParent = parent
    /\ req = [p \in Procs |-> NoRequest]
    /\ disturbed = FALSE

-----------------------------------------------------------------------------

(* CreateNamespace inserts the row (a duplicate ID is an error and ends    *)
(* the request) and goes on to set a parent if one is given.  The row is   *)
(* committed by then: it stays if the parent cannot be set.  A namespace   *)
(* that Publish creates on the way (ensureNamespaceAndSchema) has none.    *)
CreateNamespace(p, n, to) ==
    /\ Idle(p)
    /\ rows' = rows \cup {n}
    /\ IF n \in rows \/ to = None THEN UNCHANGED req
       ELSE /\ clock < MaxTx
            /\ req' = [req EXCEPT ![p] = [NoRequest EXCEPT
                          !.ph = "begin", !.ns = n, !.to = to]]
    /\ UNCHANGED <<parent, events, clock, memParent>>

SetNamespaceParent(p, n, to) ==
    /\ Idle(p)
    /\ clock < MaxTx
    /\ req' = [req EXCEPT ![p] = [NoRequest EXCEPT
                  !.ph = "begin", !.ns = n, !.to = to]]
    /\ UNCHANGED <<dbVars, clock, memParent>>

(* Deviation: the previous parent is not recorded. *)
ReadPreviousForgetting(p) ==
    /\ req[p].ph = "begin"
    /\ clock' = clock + 1
    /\ IF req[p].ns \in rows
       THEN req' = [req EXCEPT ![p].at = clock,
                       ![p].ph = IF req[p].to = None THEN "lock" ELSE "check"]
       ELSE Return(p)
    /\ UNCHANGED <<dbVars, memParent>>

(* The transaction begins and reads the parent it will record as previous. *)
ReadPrevious(p) ==
    /\ req[p].ph = "begin"
    /\ clock' = clock + 1
    /\ IF req[p].ns \in rows
       THEN req' = [req EXCEPT ![p].prev = parent[req[p].ns], ![p].at = clock,
                       ![p].ph = IF req[p].to = None THEN "lock" ELSE "check"]
       ELSE Return(p)
    /\ UNCHANGED <<dbVars, memParent>>

(* Deviation: only the new parent and its own parent are looked at. *)
AncestorsNear(n) == {n, parent[n]} \ {None}

(* The recursive query of SetNamespaceParent: the new parent and its       *)
(* ancestors, tier by tier, cut off after MaxDepth of them.                *)
Ancestors(n) ==
    LET tier[d \in 1..MaxDepth] ==
            IF d = 1 THEN {n}
            ELSE {parent[m] : m \in tier[d - 1]} \ {None}
    IN  UNION {tier[d] : d \in 1..MaxDepth}

(* Deviation: the new parent need not exist. *)
CheckParentTrusting(p) ==
    /\ req[p].ph = "check"
    /\ IF req[p].ns \notin Ancestors(req[p].to) THEN Goto(p, "lock") ELSE Return(p)
    /\ UNCHANGED <<dbVars, clock, memParent>>

(* Deviation: a missing parent is waited for. *)
CheckParentWaiting(p) ==
    /\ req[p].ph = "check"
    /\ req[p].to \in rows
    /\ IF req[p].ns \notin Ancestors(req[p].to) THEN Goto(p, "lock") ELSE Return(p)
    /\ UNCHANGED <<dbVars, clock, memParent>>

(* The statement starts: the new parent exists, and the rows as committed  *)
(* now decide whether there would be a cycle.                              *)
CheckParent(p) ==
    /\ req[p].ph = "check"
    /\ IF req[p].to \in rows /\ req[p].ns \notin Ancestors(req[p].to)
       THEN Goto(p, "lock")
       ELSE Return(p)
    /\ UNCHANGED <<dbVars, clock, memParent>>

(* The row is updated, and from here to the commit locked. *)
LockRow(p) ==
    /\ req[p].ph = "lock"
    /\ \A q \in Procs : ~(req[q].ph = "commit" /\ req[q].ns = req[p].ns)
    /\ Goto(p, "commit")
    /\ UNCHANGED <<dbVars, clock, memParent>>

(* Deviation: the change drops the other rows' parents. *)
CommitDropping(p) ==
    /\ req[p].ph = "commit"
    /\ parent' = [n \in {req[p].ns} |-> req[p].to]
    /\ Goto(p, "mem")
    /\ UNCHANGED <<rows, events, clock, memParent>>

(* Deviation: clearing a parent is not logged. *)
CommitUnlogged(p) ==
    LET r == req[p]
    IN  /\ r.ph = "commit"
        /\ parent' = [parent EXCEPT ![r.ns] = r.to]
        /\ events' = IF r.to = None THEN events
                     ELSE Append(events, [ns |-> r.ns, prev |-> r.prev,
                                          new |-> r.to, at |-> r.at])
        /\ Goto(p, "mem")
        /\ UNCHANGED <<rows, clock, memParent>>

(* The audit row is inserted and the transaction commits. *)
Commit(p) ==
    LET r == req[p]
    IN  /\ r.ph = "commit"
        /\ parent' = [parent EXCEPT ![r.ns] = r.to]
        /\ events' = Append(events, [ns |-> r.ns, prev |-> r.prev, new |-> r.to,
                                     at |-> r.at])
        /\ Goto(p, "mem")
        /\ UNCHANGED <<rows, clock, memParent>>

(* Deviation: memory keeps a parent that was cleared. *)
SetParentMemoryOnly(p) ==
    /\ req[p].ph = "mem"
    /\ memParent' = IF req[p].to = None THEN memParent
                    ELSE [memParent EXCEPT ![req[p].ns] = req[p].to]
    /\ Return(p)
    /\ UNCHANGED <<dbVars, clock>>

(* The pointer in memory follows, in whatever order handlers get here. *)
SetParentMemory(p) ==
    /\ req[p].ph = "mem"
    /\ memParent' = [memParent EXCEPT ![req[p].ns] = req[p].to]
    /\ Return(p)
    /\ UNCHANGED <<dbVars, clock>>

(* A store call fails; the transaction, if begun, is rolled back. *)
Fail(p) ==
    /\ req[p].ph \in {"begin", "check", "lock", "commit"}
    /\ Return(p)
    /\ UNCHANGED <<dbVars, clock, memParent>>

(* The commit succeeds and its reply is lost: the handler returns an error *)
(* and leaves memory as it was.                                            *)
LoseReply(p) ==
    /\ MayLoseReply
    /\ req[p].ph = "mem"
    /\ Return(p)
    /\ UNCHANGED <<dbVars, clock, memParent>>

(* The process stops; the first pass of Restore wires the parents again. *)
Restart ==
    /\ MayCrash
    /\ memParent' = parent
    /\ req' = [p \in Procs |-> NoRequest]
    /\ UNCHANGED <<dbVars, clock>>

Arrive(p) ==
    \E n \in Namespaces, to \in Parents :
        CreateNamespace(p, n, to) \/ SetNamespaceParent(p, n, to)

Step(p) == ReadPrevious(p) \/ CheckParent(p) \/ LockRow(p) \/ Commit(p)
               \/ SetParentMemory(p)

Next ==
    \/ \E p \in Procs :
          \/ /\ Arrive(p)
             /\ disturbed' = (disturbed \/ \E q \in Procs \ {p} : ~Idle(q))
          \/ (Step(p) \/ Fail(p)) /\ UNCHANGED disturbed
          \/ LoseReply(p) /\ disturbed' = TRUE
    \/ Restart /\ UNCHANGED disturbed

Spec == Init /\ [][Next]_vars

(* A row lock is released by a commit, which waits for nobody. *)
FairSpec == Spec /\ \A p \in Procs : WF_vars(Step(p) /\ UNCHANGED disturbed)

-----------------------------------------------------------------------------
(* Namespace.Chain: the walk in memory, with its guards against cycles and *)
(* against chains longer than chainMaxDepth (the same 64).                 *)

Chain(n) ==
    LET walk[d \in 0..MaxDepth] ==
            IF d = 0 THEN << >>
            ELSE LET c == walk[d - 1]
                     next == IF c = << >> THEN n ELSE memParent[c[Len(c)]]
                 IN  IF Len(c) < d - 1 \/ next = None \/ \E i \in 1..Len(c) : c[i] = next
                     THEN c
                     ELSE Append(c, next)
    IN  walk[MaxDepth]

(* Deviation: the listing is in ascending order. *)
NewestAscending(n) ==
    LET mine == {i \in 1..Len(events) : events[i].ns = n}
    IN  events[CHOOSE i \in mine : \A j \in mine : i <= j]

(* The first event ListNamespaceParentEvents returns: the latest by begin  *)
(* time of its transaction, then by ID.                                    *)
Newest(n) ==
    LET mine == {i \in 1..Len(events) : events[i].ns = n}
    IN  events[CHOOSE i \in mine : \A j \in mine :
                  \/ events[j].at < events[i].at
                  \/ events[j].at = events[i].at /\ j <= i]

(* Event i is the last one, by ID, of its namespace before event j. *)
Precedes(i, j) ==
    /\ i < j
    /\ events[i].ns = events[j].ns
    /\ \A k \in (i + 1)..(j - 1) : events[k].ns # events[j].ns

-----------------------------------------------------------------------------
(* Properties of every run. *)

(* The variables have their types. *)
TypeOK ==
    /\ rows \subseteq Namespaces
    /\ parent \in [Namespaces -> Parents]
    /\ events \in Seq(Events)
    /\ clock \in Nat
    /\ memParent \in [Namespaces -> Parents]
    /\ req \in [Procs -> Requests]
    /\ disturbed \in BOOLEAN

(* Only namespaces that exist have a parent, and it exists: Restore never  *)
(* meets the unknown parent it refuses to start with.                      *)
ParentsExist ==
    \A n \in Namespaces : parent[n] # None => n \in rows /\ parent[n] \in rows

(* The audit row is written with the change or not at all: the last event  *)
(* of a namespace, by ID, always names its present parent, and a namespace *)
(* without events has none.                                                *)
AuditMatchesParent ==
    \A n \in Namespaces :
        \/ parent[n] = None /\ \A i \in 1..Len(events) : events[i].ns # n
        \/ \E i \in 1..Len(events) :
              /\ events[i].ns = n
              /\ events[i].new = parent[n]
              /\ \A j \in (i + 1)..Len(events) : events[j].ns # n

(* Every request returns: waiting for a row lock never becomes a deadlock. *)
EveryRequestReturns == \A p \in Procs : ~Idle(p) ~> Idle(p)

(* No namespace is its own ancestor: every set of namespaces has a member  *)
(* whose parent is outside it.                                             *)
Acyclic ==
    \A S \in SUBSET Namespaces :
        S # {} => \E n \in S : parent[n] \notin S

-----------------------------------------------------------------------------
(* Properties of a server that has taken one request at a time so far and  *)
(* heard the reply of every commit.                                        *)

(* The cycle check looks far enough: requests that do not overlap make no  *)
(* cycle, in chains of up to MaxDepth namespaces.                          *)
SerialAcyclic == ~disturbed => Acyclic

(* Each event's previous parent is what the event before it set. *)
AuditChained ==
    ~disturbed => \A j \in 1..Len(events) :
        \/ \E i \in 1..(j - 1) : Precedes(i, j) /\ events[j].prev = events[i].new
        \/ events[j].prev = None /\ \A i \in 1..(j - 1) : events[i].ns # events[j].ns

(* The first event listed for a namespace names its present parent. *)
NewestIsCurrent ==
    ~disturbed => \A n \in Namespaces :
        (\E i \in 1..Len(events) : events[i].ns = n) => Newest(n).new = parent[n]

(* Once no request is under way, a walk in memory meets the ancestors the  *)
(* store holds, nearest first.                                             *)
ChainMatchesStore ==
    ~disturbed /\ (\A p \in Procs : Idle(p)) =>
        \A n \in Namespaces :
            LET c == Chain(n)
            IN  /\ c[1] = n
                /\ \A i \in 1..Len(c) : parent[c[i]] =
                      IF i = Len(c) THEN None ELSE c[i + 1]
=============================================================================
