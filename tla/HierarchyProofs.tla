-------------------------- MODULE HierarchyProofs --------------------------
(***************************************************************************)
(* Proofs, for any namespaces and any number of handlers, with crashes,    *)
(* failures and lost replies, about the parent rows and their audit log;   *)
(* and, for at most MaxDepth namespaces, that the cycle check of           *)
(* SetNamespaceParent looks far enough and Chain finds every ancestor.     *)
(***************************************************************************)
EXTENDS Hierarchy, SequenceTheorems, FiniteSetTheorems, WellFoundedInduction, TLAPS

(* In a transaction that has read the namespace's row. *)
Reading == {"check", "lock", "commit"}

(* What a request knows by the phase it is in: its namespace has a row,    *)
(* and so has the new parent once it is checked.                           *)
HandlerOK(r) ==
    /\ r.ph # "idle" => r.ns \in Namespaces
    /\ r.ph \in Reading => r.ns \in rows /\ r.at < clock
    /\ r.ph \in {"lock", "commit"} => r.to \in rows \cup {None}

(* What it knows besides while nobody interferes: the parent it read is    *)
(* still the present one, and no event is later than its transaction.      *)
SerialOK(r) ==
    r.ph \in Reading =>
        /\ r.prev = parent[r.ns]
        /\ \A i \in 1..Len(events) : events[i].at <= r.at

(* One request at a time, and events in the order of their transactions. *)
Serial ==
    /\ \A p, q \in Procs : Idle(p) \/ Idle(q) \/ p = q
    /\ \A p \in Procs : SerialOK(req[p])
    /\ \A i, j \in 1..Len(events) : i < j => events[i].at <= events[j].at

(* The inductive invariant: the properties, what handlers carry from one   *)
(* statement to the next, and the order of event times.                    *)
IInv ==
    /\ TypeOK
    /\ ParentsExist
    /\ AuditMatchesParent
    /\ AuditChained
    /\ \A p \in Procs : HandlerOK(req[p])
    /\ \A i \in 1..Len(events) : events[i].at < clock
    /\ ~disturbed => Serial

-----------------------------------------------------------------------------

(* The empty request is a request and claims nothing. *)
LEMMA NoRequestOK ==
    /\ NoRequest \in Requests
    /\ HandlerOK(NoRequest) /\ HandlerOK(NoRequest)'
    /\ SerialOK(NoRequest) /\ SerialOK(NoRequest)'
  BY Zenon DEF NoRequest, Requests, Phases, Parents, HandlerOK, SerialOK, Reading

(* The rows and the events there are to begin with satisfy the invariant. *)
LEMMA InitIInv == Init => IInv
<1> SUFFICES ASSUME Init PROVE IInv
  BY Zenon
<1> USE HierarchyAssumption, PriorAssumption
<1>0. /\ Len(Prior) \in Nat /\ events = Prior
      /\ \A i \in 1..Len(Prior) : Prior[i] \in Events
  BY DEF Init
<1>1. ASSUME NEW n \in Namespaces, NEW i \in 1..Len(Prior), Prior[i].ns = n
      PROVE  parent[n] = Prior[i].new
  BY <1>1, Zenon DEF Init
<1>2. ASSUME NEW n \in Namespaces, \A i \in 1..Len(Prior) : Prior[i].ns # n
      PROVE  parent[n] = None
  BY <1>2, Zenon DEF Init
<1>3. TypeOK
  <2>1. \A n \in Namespaces : parent[n] \in Parents
    BY <1>1, <1>2, Zenon DEF Parents
  <2>2. parent \in [Namespaces -> Parents]
    BY <2>1, Zenon DEF Init
  <2> QED
    BY <1>0, <2>2, NoRequestOK, Zenon DEF Init, TypeOK
<1>4. ParentsExist
  <2>1. \A i \in 1..Len(Prior) : Prior[i].ns \in rows /\ Prior[i].new \in rows \cup {None}
    BY Zenon DEF Init
  <2> QED
    BY <1>1, <1>2, <2>1, SMTT(30) DEF ParentsExist
<1>5. AuditMatchesParent
  <2> SUFFICES ASSUME NEW n \in Namespaces, NEW i \in 1..Len(Prior), Prior[i].ns = n
               PROVE  \A j \in (i + 1)..Len(Prior) : Prior[j].ns # n
    BY <1>0, <1>1, <1>2 DEF AuditMatchesParent
  <2> QED
    BY <1>0
<1>6. AuditChained
  BY <1>0 DEF AuditChained
<1>7. Serial
  BY <1>0, NoRequestOK DEF Init, Serial, Idle, NoRequest
<1>8. /\ \A p \in Procs : HandlerOK(req[p])
      /\ \A i \in 1..Len(events) : events[i].at < clock
  BY <1>0, NoRequestOK DEF Init
<1> QED
  BY <1>3, <1>4, <1>5, <1>6, <1>7, <1>8, Zenon DEF IInv

-----------------------------------------------------------------------------
(* What the types say of the log. *)
LEMMA EventTypes ==
  ASSUME TypeOK
  PROVE  /\ Len(events) \in Nat
         /\ clock \in Nat
         /\ \A i \in 1..Len(events) : events[i] \in Events /\ events[i].at \in Nat
<1>1. Len(events) \in Nat /\ clock \in Nat /\ \A i \in 1..Len(events) : events[i] \in Events
  BY DEF TypeOK
<1> QED
  BY <1>1, Zenon DEF Events

(* A step of handler p that leaves parents and events alone keeps the      *)
(* invariant if the request R it goes on with knows what it should, and    *)
(* a step in which p is no longer alone counts as a disturbance.           *)
LEMMA KeepsParents ==
  ASSUME IInv,
         NEW p \in Procs, NEW R \in Requests,
         req' = [req EXCEPT ![p] = R],
         UNCHANGED <<parent, events>>,
         rows \subseteq rows', rows' \subseteq Namespaces,
         clock' \in Nat, clock <= clock',
         memParent' \in [Namespaces -> Parents],
         disturbed' \in BOOLEAN, disturbed => disturbed',
         HandlerOK(R)',
         ~disturbed' => /\ SerialOK(R)'
                        /\ R.ph # "idle" => \A q \in Procs \ {p} : Idle(q)
  PROVE  IInv'
<1>1. req \in [Procs -> Requests] /\ req' \in [Procs -> Requests]
  BY Zenon DEF IInv, TypeOK
<1>2. req'[p] = R /\ \A q \in Procs \ {p} : req'[q] = req[q]
  BY <1>1, Zenon
<1>3. TypeOK'
  BY <1>1, Zenon DEF IInv, TypeOK
<1>4. ParentsExist' /\ AuditMatchesParent'
  BY DEF IInv, ParentsExist, AuditMatchesParent
<1>5. AuditChained'
  BY Zenon DEF IInv, AuditChained, Precedes
<1>6. Len(events) \in Nat /\ clock \in Nat /\ \A i \in 1..Len(events) : events[i].at \in Nat
  BY EventTypes, Zenon DEF IInv
<1>7. \A i \in 1..Len(events) : events'[i].at < clock'
  BY <1>6 DEF IInv
<1>8. ASSUME NEW q \in Procs PROVE HandlerOK(req[q])'
  <2>1. CASE q = p
    BY <1>2, <2>1, Zenon DEF HandlerOK
  <2>2. CASE q # p
    <3>1. req'[q] = req[q] /\ HandlerOK(req[q]) /\ req[q].at \in Nat
      BY <1>1, <1>2, <2>2, Zenon DEF IInv, Requests
    <3> QED
      BY <1>6, <3>1 DEF HandlerOK
  <2> QED
    BY <2>1, <2>2, Zenon
<1>9. ASSUME ~disturbed' PROVE Serial'
  <2>1. Serial
    BY <1>9, Zenon DEF IInv
  <2>2. \A q, r \in Procs : Idle(q)' \/ Idle(r)' \/ q = r
    BY <1>2, <1>9, <2>1 DEF Serial, Idle
  <2>3. ASSUME NEW q \in Procs PROVE SerialOK(req[q])'
    <3>1. CASE q = p
      BY <1>2, <1>9, <3>1, Zenon DEF SerialOK
    <3>2. CASE q # p
      <4>1. req'[q] = req[q] /\ SerialOK(req[q])
        BY <1>2, <2>1, <3>2, Zenon DEF Serial
      <4> QED
        BY <4>1, Zenon DEF SerialOK
    <3> QED
      BY <3>1, <3>2, Zenon
  <2> QED
    BY <2>1, <2>2, <2>3, Zenon DEF Serial
<1> QED
  BY <1>3, <1>4, <1>5, <1>7, <1>8, <1>9, Zenon DEF IInv

(* The same when nothing but the request changes, and nobody else arrives. *)
LEMMA KeepsState ==
  ASSUME IInv,
         NEW p \in Procs, NEW R \in Requests,
         req' = [req EXCEPT ![p] = R],
         UNCHANGED <<dbVars, clock, memParent, disturbed>>,
         HandlerOK(R),
         R.ph # "idle" => ~Idle(p),
         ~disturbed => SerialOK(R)
  PROVE  IInv'
<1>1. HandlerOK(R)'
  BY Zenon DEF HandlerOK, dbVars
<1>2. ~disturbed' => SerialOK(R)'
  BY Zenon DEF SerialOK, dbVars
<1>3. ASSUME ~disturbed', R.ph # "idle" PROVE \A q \in Procs \ {p} : Idle(q)
  BY <1>3, Zenon DEF IInv, Serial
<1>4. /\ UNCHANGED <<parent, events>>
      /\ rows \subseteq rows' /\ rows' \subseteq Namespaces
      /\ clock' \in Nat /\ clock <= clock'
      /\ memParent' \in [Namespaces -> Parents]
      /\ disturbed' \in BOOLEAN /\ (disturbed => disturbed')
  BY DEF IInv, TypeOK, dbVars
<1> QED
  BY <1>1, <1>2, <1>3, <1>4, KeepsParents, Zenon

(* A handler that returns and has changed nothing in this step, except     *)
(* perhaps the parent in memory.                                           *)
LEMMA ReturnKeeps ==
  ASSUME IInv, NEW p \in Procs, Return(p), UNCHANGED dbVars,
         clock' \in Nat, clock <= clock',
         memParent' \in [Namespaces -> Parents],
         disturbed' \in BOOLEAN, disturbed => disturbed'
  PROVE  IInv'
<1>1. PICK R \in Requests : R = NoRequest
  BY NoRequestOK, Zenon
<1>2. /\ req' = [req EXCEPT ![p] = R]
      /\ HandlerOK(R)' /\ SerialOK(R)' /\ R.ph = "idle"
  BY <1>1, NoRequestOK, Zenon DEF Return, NoRequest
<1>3. UNCHANGED <<parent, events>> /\ rows \subseteq rows' /\ rows' \subseteq Namespaces
  BY Zenon DEF IInv, TypeOK, dbVars
<1> QED
  BY <1>2, <1>3, KeepsParents, Zenon

-----------------------------------------------------------------------------
(* The actions. *)

(* A request arrives; that makes a disturbance unless all others are idle. *)
LEMMA ArriveKeeps ==
  ASSUME IInv, NEW p \in Procs, Arrive(p),
         disturbed' = (disturbed \/ \E q \in Procs \ {p} : ~Idle(q))
  PROVE  IInv'
<1>a. /\ disturbed' \in BOOLEAN /\ (disturbed => disturbed')
      /\ ~disturbed' => \A q \in Procs \ {p} : Idle(q)
  BY Zenon
<1>b. /\ req \in [Procs -> Requests] /\ rows \subseteq Namespaces
      /\ clock \in Nat /\ clock <= clock
      /\ memParent \in [Namespaces -> Parents]
  BY DEF IInv, TypeOK
<1>0. /\ disturbed' \in BOOLEAN /\ (disturbed => disturbed')
      /\ ~disturbed' => \A q \in Procs \ {p} : Idle(q)
      /\ req \in [Procs -> Requests] /\ rows \subseteq Namespaces
      /\ clock \in Nat /\ clock <= clock
      /\ memParent \in [Namespaces -> Parents]
  BY <1>a, <1>b, Zenon
<1>1. ASSUME NEW n \in Namespaces, NEW to \in Parents,
             req' = [req EXCEPT ![p] = [NoRequest EXCEPT !.ph = "begin", !.ns = n, !.to = to]],
             UNCHANGED <<parent, events, clock, memParent>>,
             rows \subseteq rows', rows' \subseteq Namespaces
      PROVE  IInv'
  <2>1. PICK R \in Requests : R = [NoRequest EXCEPT !.ph = "begin", !.ns = n, !.to = to]
    BY Zenon DEF NoRequest, Requests, Phases, Parents
  <2>2. R.ph = "begin" /\ R.ns = n
    BY <2>1, Zenon DEF NoRequest
  <2>3. HandlerOK(R)' /\ SerialOK(R)'
    BY <2>2, Zenon DEF HandlerOK, SerialOK, Reading
  <2>4. req' = [req EXCEPT ![p] = R]
    BY <1>1, <2>1, Zenon
  <2> QED
    BY <1>0, <1>1, <2>3, <2>4, KeepsParents, Zenon
<1>2. ASSUME UNCHANGED <<parent, events, clock, memParent, req>>, Idle(p),
             rows \subseteq rows', rows' \subseteq Namespaces
      PROVE  IInv'
  <2>1. PICK R \in Requests : R = req[p]
    BY <1>0, Zenon
  <2>2. req' = [req EXCEPT ![p] = R] /\ R.ph = "idle"
    BY <1>0, <1>2, <2>1, Zenon DEF Idle
  <2>3. HandlerOK(R)' /\ SerialOK(R)'
    BY <2>2, Zenon DEF HandlerOK, SerialOK, Reading
  <2> QED
    BY <1>0, <1>2, <2>2, <2>3, KeepsParents, Zenon
<1>3. PICK n \in Namespaces, to \in Parents :
         CreateNamespace(p, n, to) \/ SetNamespaceParent(p, n, to)
  BY Zenon DEF Arrive
<1>4. CASE CreateNamespace(p, n, to)
  BY <1>0, <1>1, <1>2, <1>4, ZenonT(30) DEF CreateNamespace
<1>5. CASE SetNamespaceParent(p, n, to)
  BY <1>0, <1>1, <1>5, Zenon DEF SetNamespaceParent, dbVars
<1> QED
  BY <1>3, <1>4, <1>5, Zenon

(* A transaction begins, later than every event there is. *)
LEMMA ReadPreviousKeeps ==
  ASSUME IInv, NEW p \in Procs, ReadPrevious(p), UNCHANGED disturbed
  PROVE  IInv'
<1>1. /\ req \in [Procs -> Requests] /\ disturbed \in BOOLEAN
      /\ clock \in Nat /\ clock' \in Nat /\ clock <= clock' /\ clock < clock'
      /\ memParent' \in [Namespaces -> Parents] /\ parent \in [Namespaces -> Parents]
      /\ UNCHANGED <<parent, events>> /\ rows' = rows /\ rows \subseteq Namespaces
  BY DEF IInv, TypeOK, ReadPrevious, dbVars
<1>2. CASE req[p].ns \notin rows
  BY <1>1, <1>2, ReturnKeeps, Zenon DEF ReadPrevious
<1>3. CASE req[p].ns \in rows
  <2> DEFINE ph == IF req[p].to = None THEN "lock" ELSE "check"
  <2>1. PICK R \in Requests :
           R = [req[p] EXCEPT !.prev = parent[req[p].ns], !.at = clock, !.ph = ph]
    <3>1. req[p] \in Requests /\ parent[req[p].ns] \in Parents /\ ph \in Phases
      BY <1>1, <1>3, Zenon DEF Phases
    <3> QED
      BY <1>1, <3>1, Zenon DEF Requests
  <2>2. req[p].ph = "begin" /\ ~Idle(p) /\ req' = [req EXCEPT ![p] = R]
    BY <1>1, <1>3, <2>1, Zenon DEF ReadPrevious, Idle
  <2>3. /\ R.ns = req[p].ns /\ R.to = req[p].to /\ R.at = clock
        /\ R.prev = parent[R.ns] /\ R.ph = ph
    BY <1>1, <2>1, Zenon DEF Requests
  <2>4. HandlerOK(R)'
    BY <1>1, <1>3, <2>3, Zenon DEF HandlerOK, Reading
  <2>5. SerialOK(R)'
    <3>1. \A i \in 1..Len(events) : events[i].at <= clock
      BY EventTypes DEF IInv
    <3> QED
      BY <1>1, <2>3, <3>1, Zenon DEF SerialOK
  <2>6. ASSUME ~disturbed' PROVE \A q \in Procs \ {p} : Idle(q)
    BY <2>2, <2>6, Zenon DEF IInv, Serial
  <2> QED
    BY <1>1, <2>2, <2>4, <2>5, <2>6, KeepsParents, Zenon
<1> QED
  BY <1>2, <1>3, Zenon

(* The new parent is checked, and the request goes on or ends. *)
LEMMA CheckParentKeeps ==
  ASSUME IInv, NEW p \in Procs, CheckParent(p), UNCHANGED disturbed
  PROVE  IInv'
<1>1. /\ req \in [Procs -> Requests] /\ disturbed \in BOOLEAN /\ clock \in Nat
      /\ memParent \in [Namespaces -> Parents]
      /\ UNCHANGED <<dbVars, clock, memParent, disturbed>>
  BY Zenon DEF IInv, TypeOK, CheckParent
<1>2. CASE Return(p)
  BY <1>1, <1>2, ReturnKeeps
<1>3. CASE req[p].to \in rows /\ Goto(p, "lock")
  <2>1. PICK R \in Requests : R = [req[p] EXCEPT !.ph = "lock"]
    BY <1>1, Zenon DEF Requests, Phases
  <2>2. req[p].ph = "check" /\ ~Idle(p) /\ req' = [req EXCEPT ![p] = R]
    BY <1>1, <1>3, <2>1, Zenon DEF CheckParent, Goto, Idle
  <2>3. /\ R.ns = req[p].ns /\ R.to = req[p].to /\ R.at = req[p].at
        /\ R.prev = req[p].prev /\ R.ph = "lock"
    BY <1>1, <2>1, Zenon DEF Requests
  <2>4. HandlerOK(R)
    BY <1>3, <2>2, <2>3, Zenon DEF IInv, HandlerOK, Reading
  <2>5. ~disturbed => SerialOK(R)
    BY <2>2, <2>3, Zenon DEF IInv, Serial, SerialOK, Reading
  <2> QED
    BY <1>1, <2>2, <2>4, <2>5, KeepsState, Zenon
<1> QED
  BY <1>2, <1>3, Zenon DEF CheckParent

(* The row is locked. *)
LEMMA LockRowKeeps ==
  ASSUME IInv, NEW p \in Procs, LockRow(p), UNCHANGED disturbed
  PROVE  IInv'
<1>1. req \in [Procs -> Requests] /\ UNCHANGED <<dbVars, clock, memParent, disturbed>>
  BY Zenon DEF IInv, TypeOK, LockRow
<1>2. PICK R \in Requests : R = [req[p] EXCEPT !.ph = "commit"]
  BY <1>1, ZenonT(30) DEF Requests, Phases
<1>3. req[p].ph = "lock" /\ ~Idle(p) /\ req' = [req EXCEPT ![p] = R]
  BY <1>1, <1>2, Zenon DEF LockRow, Goto, Idle
<1>4. /\ R.ns = req[p].ns /\ R.to = req[p].to /\ R.at = req[p].at
      /\ R.prev = req[p].prev /\ R.ph = "commit"
  BY <1>1, <1>2, Zenon DEF Requests
<1>5. HandlerOK(R)
  BY <1>3, <1>4, Zenon DEF IInv, HandlerOK, Reading
<1>6. ~disturbed => SerialOK(R)
  BY <1>3, <1>4, SMTT(30) DEF IInv, Serial, SerialOK, Reading
<1> QED
  BY <1>1, <1>3, <1>5, <1>6, KeepsState, Zenon

(* The commit: the row and its event change together, and while nobody     *)
(* interferes the event continues the chain of the namespace's events.     *)
LEMMA CommitKeeps ==
  ASSUME IInv, NEW p \in Procs, Commit(p), UNCHANGED disturbed
  PROVE  IInv'
<1> DEFINE r == req[p]
           e == [ns |-> r.ns, prev |-> r.prev, new |-> r.to, at |-> r.at]
           L == Len(events)
<1>1. /\ r \in Requests /\ r.ph = "commit" /\ r.ns \in rows /\ r.ns \in Namespaces
      /\ r.to \in rows \cup {None} /\ r.to \in Parents /\ r.at \in Nat /\ r.at < clock
      /\ r.prev \in Parents
  BY Zenon DEF IInv, TypeOK, Commit, HandlerOK, Reading, Requests
<1>2. /\ parent' = [parent EXCEPT ![r.ns] = r.to]
      /\ events' = Append(events, e)
      /\ req' = [req EXCEPT ![p].ph = "mem"]
      /\ UNCHANGED <<rows, clock, memParent, disturbed>>
  BY Zenon DEF Commit, Goto
<1>3. e \in Events
  BY <1>1, Zenon DEF Events
<1>4. L \in Nat /\ clock \in Nat /\ \A i \in 1..L : events[i] \in Events /\ events[i].at \in Nat
  BY EventTypes, Zenon DEF IInv
<1>5. /\ Len(events') = L + 1 /\ events'[L + 1] = e
      /\ \A i \in 1..L : events'[i] = events[i]
      /\ events' \in Seq(Events)
  BY <1>2, <1>3 DEF IInv, TypeOK
<1>6. /\ parent' \in [Namespaces -> Parents] /\ parent'[r.ns] = r.to
      /\ \A n \in Namespaces \ {r.ns} : parent'[n] = parent[n]
  BY <1>1, <1>2, Zenon DEF IInv, TypeOK
<1>7. /\ req' \in [Procs -> Requests] /\ req'[p].ph = "mem" /\ req'[p].ns = r.ns
      /\ \A q \in Procs \ {p} : req'[q] = req[q]
  BY <1>1, <1>2, Zenon DEF IInv, TypeOK, Requests, Phases
<1> HIDE DEF e, L
<1>8. TypeOK'
  BY <1>2, <1>5, <1>6, <1>7, Zenon DEF IInv, TypeOK
<1>9. ParentsExist'
  BY <1>1, <1>2, <1>6, Zenon DEF IInv, ParentsExist
<1>10. e.ns = r.ns /\ e.new = r.to /\ e.prev = r.prev /\ e.at = r.at
  BY Zenon DEF e
<1>11. AuditMatchesParent'
  <2> SUFFICES ASSUME NEW n \in Namespaces
               PROVE  \/ parent'[n] = None /\ \A i \in 1..(L + 1) : events'[i].ns # n
                      \/ \E i \in 1..(L + 1) :
                            /\ events'[i].ns = n
                            /\ events'[i].new = parent'[n]
                            /\ \A j \in (i + 1)..(L + 1) : events'[j].ns # n
    BY <1>5 DEF AuditMatchesParent
  <2>1. CASE n = r.ns
    <3>1. L + 1 \in 1..(L + 1) /\ (L + 1 + 1)..(L + 1) = {}
      BY <1>4
    <3> QED
      BY <1>5, <1>6, <1>10, <2>1, <3>1, Zenon
  <2>2. CASE n # r.ns
    <3>1. CASE parent[n] = None /\ \A i \in 1..L : events[i].ns # n
      BY <1>4, <1>5, <1>6, <1>10, <2>2, <3>1
    <3>2. CASE \E i \in 1..L : /\ events[i].ns = n
                               /\ events[i].new = parent[n]
                               /\ \A j \in (i + 1)..L : events[j].ns # n
      <4>1. PICK i \in 1..L : /\ events[i].ns = n
                              /\ events[i].new = parent[n]
                              /\ \A j \in (i + 1)..L : events[j].ns # n
        BY <3>2, Zenon
      <4>2. \A j \in (i + 1)..(L + 1) : events'[j].ns # n
        BY <1>4, <1>5, <1>10, <2>2, <4>1, SMTT(30)
      <4> QED
        BY <1>4, <1>5, <1>6, <2>2, <4>1, <4>2
    <3> QED
      BY <3>1, <3>2, Zenon DEF IInv, AuditMatchesParent, L
  <2> QED
    BY <2>1, <2>2, Zenon
<1>12. ASSUME ~disturbed' PROVE Serial /\ SerialOK(r)
  BY <1>2, <1>12 DEF IInv, Serial
<1>13. AuditChained'
  <2> SUFFICES ASSUME ~disturbed', NEW j \in 1..(L + 1)
               PROVE  \/ \E i \in 1..(j - 1) :
                            Precedes(i, j)' /\ events'[j].prev = events'[i].new
                      \/ /\ events'[j].prev = None
                         /\ \A i \in 1..(j - 1) : events'[i].ns # events'[j].ns
    BY <1>5, Zenon DEF AuditChained
  <2>1. CASE j \in 1..L
    <3>1. /\ 1..(j - 1) \subseteq 1..L /\ events'[j] = events[j]
          /\ \A i \in 1..(j - 1) : events'[i] = events[i]
      BY <1>4, <1>5, <2>1
    <3>2. \/ \E i \in 1..(j - 1) : Precedes(i, j) /\ events[j].prev = events[i].new
          \/ events[j].prev = None /\ \A i \in 1..(j - 1) : events[i].ns # events[j].ns
      BY <1>2, <2>1 DEF IInv, AuditChained, L
    <3>3. ASSUME NEW i \in 1..(j - 1), Precedes(i, j) PROVE Precedes(i, j)'
      <4>1. (i + 1)..(j - 1) \subseteq 1..(j - 1)
        BY <1>4, <2>1
      <4> QED
        BY <3>1, <3>3, <4>1, Zenon DEF Precedes
    <3> QED
      BY <3>1, <3>2, <3>3, Zenon
  <2>2. CASE j = L + 1
    <3>1. r.prev = parent[r.ns]
      BY <1>1, <1>12, Zenon DEF SerialOK, Reading
    <3>2. 1..(j - 1) = 1..L /\ events'[j] = e
      BY <1>4, <1>5, <2>2
    <3>3. CASE parent[r.ns] = None /\ \A i \in 1..L : events[i].ns # r.ns
      BY <1>5, <1>10, <3>1, <3>2, <3>3, Zenon
    <3>4. CASE \E i \in 1..L : /\ events[i].ns = r.ns
                               /\ events[i].new = parent[r.ns]
                               /\ \A k \in (i + 1)..L : events[k].ns # r.ns
      <4>1. PICK i \in 1..L : /\ events[i].ns = r.ns
                              /\ events[i].new = parent[r.ns]
                              /\ \A k \in (i + 1)..L : events[k].ns # r.ns
        BY <3>4, Zenon
      <4>2. i < j /\ (i + 1)..(j - 1) = (i + 1)..L /\ (i + 1)..L \subseteq 1..L
        BY <1>4, <2>2
      <4>3. Precedes(i, j)'
        BY <1>5, <1>10, <3>2, <4>1, <4>2, Zenon DEF Precedes
      <4> QED
        BY <1>5, <1>10, <3>1, <3>2, <4>1, <4>3, ZenonT(30)
    <3> QED
      <4>1. r.ns \in Namespaces /\ AuditMatchesParent
        BY <1>1, Zenon DEF IInv
      <4> QED
        BY <3>3, <3>4, <4>1, Zenon DEF AuditMatchesParent, L
  <2> QED
    BY <1>4, <2>1, <2>2
<1>14. \A q \in Procs : HandlerOK(req[q])'
  <2> SUFFICES ASSUME NEW q \in Procs PROVE HandlerOK(req[q])'
    BY Zenon
  <2>1. CASE q = p
    BY <1>1, <1>7, <2>1, Zenon DEF HandlerOK, Reading
  <2>2. CASE q # p
    <3>1. req'[q] = req[q] /\ HandlerOK(req[q])
      BY <1>7, <2>2, Zenon DEF IInv
    <3>2. rows' = rows /\ clock' = clock
      BY <1>2, Zenon
    <3> HIDE DEF r
    <3> QED
      BY <3>1, <3>2, Zenon DEF HandlerOK
  <2> QED
    BY <2>1, <2>2, Zenon
<1>15. \A i \in 1..Len(events') : events'[i].at < clock'
  <2>1. \A i \in 1..L : events[i].at < clock
    BY Zenon DEF IInv, L
  <2> QED
    BY <1>1, <1>2, <1>4, <1>5, <1>10, <2>1
<1>16. ASSUME ~disturbed' PROVE Serial'
  <2>1. \A q \in Procs \ {p} : Idle(q) /\ Idle(q)'
    BY <1>1, <1>7, <1>12, <1>16, Zenon DEF Serial, Idle
  <2>2. \A q \in Procs : SerialOK(req[q])'
    BY <1>7, <2>1, Zenon DEF SerialOK, Reading, Idle
  <2>3. /\ \A i \in 1..L : events[i].at <= r.at
        /\ \A i, j \in 1..L : i < j => events[i].at <= events[j].at
    BY <1>1, <1>12, <1>16, Zenon DEF Serial, SerialOK, Reading, L
  <2>4. \A i, j \in 1..Len(events') : i < j => events'[i].at <= events'[j].at
    <3> SUFFICES ASSUME NEW i \in 1..(L + 1), NEW j \in 1..(L + 1), i < j
                 PROVE  events'[i].at <= events'[j].at
      BY <1>5, Zenon
    <3>1. i \in 1..L /\ events'[i] = events[i]
      BY <1>4, <1>5
    <3>2. CASE j = L + 1
      BY <1>5, <1>10, <2>3, <3>1, <3>2, Zenon
    <3>3. CASE j \in 1..L
      BY <1>5, <2>3, <3>1, <3>3, Zenon
    <3> QED
      BY <1>4, <3>2, <3>3
  <2> QED
    BY <2>1, <2>2, <2>4, Zenon DEF Serial
<1> QED
  BY <1>8, <1>9, <1>11, <1>13, <1>14, <1>15, <1>16, SMTT(30) DEF IInv

(* The parent in memory follows, a call fails, or a reply is lost. *)
LEMMA EndKeeps ==
  ASSUME IInv, NEW p \in Procs,
         SetParentMemory(p) \/ Fail(p) \/ LoseReply(p),
         disturbed' = disturbed \/ disturbed' = TRUE
  PROVE  IInv'
<1>1. disturbed' \in BOOLEAN /\ (disturbed => disturbed')
  BY Zenon DEF IInv, TypeOK
<1>2. /\ Return(p) /\ UNCHANGED dbVars
      /\ clock' \in Nat /\ clock <= clock'
  BY DEF IInv, TypeOK, SetParentMemory, Fail, LoseReply
<1>3. memParent' \in [Namespaces -> Parents]
  BY Zenon DEF IInv, TypeOK, SetParentMemory, Fail, LoseReply, Requests
<1> QED
  BY <1>1, <1>2, <1>3, ReturnKeeps, Zenon

(* After a restart every handler is idle. *)
LEMMA RestartKeeps ==
  ASSUME IInv, Restart, UNCHANGED disturbed
  PROVE  IInv'
<1>1. /\ UNCHANGED <<rows, parent, events, clock, disturbed>> /\ memParent' = parent
      /\ req' = [p \in Procs |-> NoRequest]
  BY Zenon DEF Restart, dbVars
<1>2. TypeOK'
  BY <1>1, NoRequestOK, Zenon DEF IInv, TypeOK
<1>3. ParentsExist' /\ AuditMatchesParent'
  BY <1>1 DEF IInv, ParentsExist, AuditMatchesParent
<1>4. AuditChained'
  BY <1>1 DEF IInv, AuditChained, Precedes
<1>5. \A p \in Procs : HandlerOK(req[p])'
  BY <1>1, NoRequestOK, Zenon DEF HandlerOK
<1>6. \A i \in 1..Len(events') : events'[i].at < clock'
  BY <1>1, SMTT(30) DEF IInv
<1>7. ~disturbed' => Serial'
  BY <1>1, SMTT(30) DEF IInv, Serial, SerialOK, Idle, NoRequest, Reading
<1> QED
  BY <1>2, <1>3, <1>4, <1>5, <1>6, <1>7, Zenon DEF IInv

(* Every step keeps the invariant: one case for each action. *)
LEMMA NextIInv == IInv /\ [Next]_vars => IInv'
<1> SUFFICES ASSUME IInv, [Next]_vars PROVE IInv'
  BY Zenon
<1>1. ASSUME NEW p \in Procs, Step(p), UNCHANGED disturbed PROVE IInv'
  BY <1>1, ReadPreviousKeeps, CheckParentKeeps, LockRowKeeps, CommitKeeps, EndKeeps, Zenon
  DEF Step
<1>2. ASSUME NEW p \in Procs, \/ Fail(p) /\ UNCHANGED disturbed
                              \/ LoseReply(p) /\ disturbed' = TRUE
      PROVE  IInv'
  BY <1>2, EndKeeps, Zenon
<1>3. CASE UNCHANGED vars
  <2>1. UNCHANGED <<rows, parent, events, clock, memParent, req, disturbed>>
    BY <1>3, Zenon DEF vars
  <2>2. TypeOK' /\ ParentsExist' /\ AuditMatchesParent'
    BY <2>1, SMTT(30) DEF IInv, TypeOK, ParentsExist, AuditMatchesParent
  <2>3. AuditChained'
    BY <2>1, Zenon DEF IInv, AuditChained, Precedes
  <2>4. (\A p \in Procs : HandlerOK(req[p])') /\ \A i \in 1..Len(events') : events'[i].at < clock'
    BY <2>1, Zenon DEF IInv, HandlerOK
  <2>5. ~disturbed' => Serial'
    BY <2>1, Zenon DEF IInv, Serial, SerialOK, Idle
  <2> QED
    BY <2>2, <2>3, <2>4, <2>5, Zenon DEF IInv
<1> QED
  BY <1>1, <1>2, <1>3, ArriveKeeps, RestartKeeps, Zenon DEF Next

-----------------------------------------------------------------------------
(* IInv is an invariant of the specification.  The theorems below read     *)
(* their properties off it.                                                *)
THEOREM Invariance == Spec => []IInv
<1> QED
  BY InitIInv, NextIInv, PTL DEF Spec

(* The variables keep their types. *)
THEOREM TypeCorrect == Spec => []TypeOK
<1>1. IInv => TypeOK
  BY Zenon DEF IInv
<1> QED
  BY <1>1, Invariance, PTL

(* However many CreateNamespace and SetNamespaceParent requests overlap,   *)
(* fail half-way or lose their reply, Restore never meets a parent that    *)
(* has no row.                                                             *)
THEOREM ParentIntegrity == Spec => []ParentsExist
<1>1. IInv => ParentsExist
  BY Zenon DEF IInv
<1> QED
  BY <1>1, Invariance, PTL

(* The parent column and the last audit row of a namespace never disagree. *)
THEOREM AuditComplete == Spec => []AuditMatchesParent
<1>1. IInv => AuditMatchesParent
  BY Zenon DEF IInv
<1> QED
  BY <1>1, Invariance, PTL

(* As long as requests have not overlapped, each audit row continues from  *)
(* the row before it: its previous parent, read at the start of the        *)
(* transaction, is what the row before it set.                             *)
THEOREM AuditUnbroken == Spec => []AuditChained
<1>1. IInv => AuditChained
  BY Zenon DEF IInv
<1> QED
  BY <1>1, Invariance, PTL

(* As long as requests have not overlapped, the listing by time starts     *)
(* with the event that set the present parent.                             *)
THEOREM ListingStartsWithPresent == Spec => []NewestIsCurrent
<1>1. IInv => NewestIsCurrent
  <2> SUFFICES ASSUME IInv, ~disturbed, NEW n \in Namespaces,
                      \E i \in 1..Len(events) : events[i].ns = n
               PROVE  Newest(n).new = parent[n]
    BY Zenon DEF NewestIsCurrent
  <2> DEFINE mine == {i \in 1..Len(events) : events[i].ns = n}
             Late(i) == \A j \in mine : \/ events[j].at < events[i].at
                                        \/ events[j].at = events[i].at /\ j <= i
  <2>1. /\ Len(events) \in Nat /\ \A i \in 1..Len(events) : events[i].at \in Nat
        /\ \A i, j \in 1..Len(events) : i < j => events[i].at <= events[j].at
    BY EventTypes, Zenon DEF IInv, Serial
  <2>2. PICK k \in mine : /\ events[k].new = parent[n]
                          /\ \A j \in (k + 1)..Len(events) : events[j].ns # n
    BY Zenon DEF IInv, AuditMatchesParent
  <2>3. \A j \in mine : j <= k
    BY <2>1, <2>2
  <2>4. Late(k)
    <3> SUFFICES ASSUME NEW j \in mine
                 PROVE  \/ events[j].at < events[k].at
                        \/ events[j].at = events[k].at /\ j <= k
      BY Zenon
    <3>1. j = k \/ j < k
      BY <2>1, <2>3
    <3> QED
      BY <2>1, <3>1
  <2>5. ASSUME NEW i \in mine, Late(i) PROVE i = k
    <3>1. i <= k /\ events[i].at \in Nat /\ events[k].at \in Nat
      BY <2>1, <2>3, Zenon
    <3>2. \/ events[k].at < events[i].at
          \/ events[k].at = events[i].at /\ k <= i
      BY <2>5, Zenon
    <3>3. \/ events[i].at < events[k].at
          \/ events[i].at = events[k].at /\ i <= k
      BY <2>4, Zenon
    <3> QED
      BY <2>1, <3>1, <3>2, <3>3
  <2>6. Newest(n) = events[CHOOSE i \in mine : Late(i)]
    BY Zenon DEF Newest
  <2> HIDE DEF mine, Late
  <2>7. (CHOOSE i \in mine : Late(i)) = k
    BY <2>4, <2>5, Zenon
  <2> QED
    BY <2>2, <2>6, <2>7, Zenon
<1> QED
  BY <1>1, Invariance, PTL

-----------------------------------------------------------------------------
(* A registry of at most MaxDepth namespaces. *)

(* The walks of the cycle check and of Chain cannot be too short. *)
Shallow == IsFiniteSet(Namespaces) /\ Cardinality(Namespaces) <= MaxDepth

(* Parents par without a cycle. *)
NoCycle(par) ==
    \A S \in SUBSET Namespaces : S # {} => \E n \in S : par[n] \notin S

(* A checked request would close no cycle, and one that has committed has  *)
(* left its parent in the store.                                           *)
TreeOK(r) ==
    /\ r.ph \in {"lock", "commit"} => NoCycle([parent EXCEPT ![r.ns] = r.to])
    /\ r.ph = "mem" => r.to = parent[r.ns]

(* While nobody interferes there is no cycle, nor will the request under   *)
(* way make one, and memory is behind the store only where that request    *)
(* has yet to write it.                                                    *)
TreeInv ==
    ~disturbed =>
        /\ Acyclic
        /\ \A p \in Procs : TreeOK(req[p])
        /\ \A n \in Namespaces :
              memParent[n] = parent[n] \/ \E p \in Procs : req[p].ph = "mem" /\ req[p].ns = n

-----------------------------------------------------------------------------
(* The walk up the parents, in the store and in memory. *)

(* A non-empty set of numbers has a least one. *)
LEMMA Least ==
  ASSUME NEW S, S \subseteq Nat, S # {}
  PROVE  \E x \in S : \A y \in S : x <= y
<1>1. PICK x \in S : \A y \in S : <<y, x>> \notin OpToRel(<, Nat)
  BY NatLessThanWellFounded, WFMin, Zenon
<1>2. ASSUME NEW y \in S PROVE x <= y
  <2>1. ~(y < x)
    BY <1>1, Zenon DEF OpToRel
  <2> QED
    BY <2>1
<1> QED
  BY <1>2, Zenon

(* One tier of the recursive query from the one before it. *)
Up(X) == {parent[m] : m \in X} \ {None}

(* The first k tiers of the query for n. *)
Tiers(t, n, k) == t = [d \in 1..k |-> IF d = 1 THEN {n} ELSE Up(t[d - 1])]

(* The tiers can be computed, as many as one likes. *)
LEMMA TiersExist ==
  ASSUME NEW n, NEW k \in Nat
  PROVE  \E t : Tiers(t, n, k)
<1> DEFINE Bad == {j \in Nat : ~ \E t : Tiers(t, n, j)}
<1>1. SUFFICES Bad = {}
  BY Zenon
<1>2. SUFFICES ASSUME Bad # {} PROVE FALSE
  BY Zenon
<1>3. PICK j \in Bad : \A i \in Bad : j <= i
  BY <1>2, Least, Zenon
<1>4. j # 0
  <2>1. Tiers([d \in {} |-> {}], n, 0)
    BY DEF Tiers
  <2> QED
    BY <2>1, Zenon
<1>5. j \in Nat /\ j - 1 \in Nat /\ j - 1 \notin Bad
  <2> HIDE DEF Bad
  <2>1. j \in Nat
    BY Zenon DEF Bad
  <2>2. j - 1 \in Nat /\ ~(j <= j - 1)
    BY <1>4, <2>1
  <2> QED
    BY <1>3, <2>1, <2>2, Zenon
<1>6. PICK t : Tiers(t, n, j - 1)
  BY <1>5, Zenon
<1> DEFINE u == [d \in 1..j |-> IF d = 1 THEN {n} ELSE Up(t[d - 1])]
<1>7. ASSUME NEW d \in 1..j, d # 1 PROVE u[d - 1] = t[d - 1]
  <2>1. d - 1 \in 1..(j - 1) /\ d - 1 \in 1..j
    BY <1>5, <1>7
  <2> QED
    BY <1>6, <2>1, Zenon DEF Tiers
<1>8. Tiers(u, n, j)
  BY <1>7, Zenon DEF Tiers
<1> QED
  BY <1>3, <1>8, Zenon

(* The query returns the namespaces of the tiers t. *)
Answer(t, n) ==
    Tiers(t, n, MaxDepth) /\ Ancestors(n) = UNION {t[d] : d \in 1..MaxDepth}

(* What the recursive query of SetNamespaceParent returns. *)
LEMMA AncestorTiers ==
  ASSUME NEW n
  PROVE  \E t : Answer(t, n)
<1> DEFINE t == CHOOSE f : Tiers(f, n, MaxDepth)
<1>1. MaxDepth \in Nat
  BY HierarchyAssumption, Zenon
<1>2. Tiers(t, n, MaxDepth)
  BY <1>1, TiersExist, Zenon
<1>3. Ancestors(n) = UNION {t[d] : d \in 1..MaxDepth}
  BY Zenon DEF Ancestors, Tiers, Up
<1> HIDE DEF t
<1> QED
  BY <1>2, <1>3, Zenon DEF Answer

(* More numbers than names: two numbers have the same one. *)
LEMMA Repeats ==
  ASSUME NEW D, NEW T, IsFiniteSet(D), IsFiniteSet(T), Cardinality(T) < Cardinality(D),
         NEW g \in [D -> T]
  PROVE  \E x, y \in D : x # y /\ g[x] = g[y]
  BY FS_PigeonHole, Zenon

(* A walk longer than there are namespaces meets one of them twice. *)
LEMMA LongWalkRepeats ==
  ASSUME Shallow, NEW g \in [1..(MaxDepth + 1) -> Namespaces]
  PROVE  \E i, j \in 1..(MaxDepth + 1) : i < j /\ g[i] = g[j]
<1>1. MaxDepth \in Nat /\ MaxDepth + 1 \in Nat
  BY HierarchyAssumption
<1>2. IsFiniteSet(1..(MaxDepth + 1)) /\ Cardinality(1..(MaxDepth + 1)) = MaxDepth + 1
  BY <1>1, FS_Interval
<1>3. Cardinality(Namespaces) \in Nat
  BY FS_CardinalityType, Zenon DEF Shallow
<1>4. Cardinality(Namespaces) < Cardinality(1..(MaxDepth + 1)) /\ IsFiniteSet(Namespaces)
  BY <1>1, <1>2, <1>3 DEF Shallow
<1>5. PICK x, y \in 1..(MaxDepth + 1) : x # y /\ g[x] = g[y]
  BY <1>2, <1>4, Repeats, Zenon
<1> QED
  BY <1>1, <1>5

(* Without a cycle no walk is longer than there are namespaces.            *)
LEMMA NoLongWalk ==
  ASSUME Shallow, Acyclic, NEW g \in [1..(MaxDepth + 1) -> Namespaces],
         \A d \in 1..MaxDepth : parent[g[d]] = g[d + 1]
  PROVE  FALSE
<1>1. MaxDepth \in Nat
  BY HierarchyAssumption, Zenon
<1>2. PICK i \in 1..(MaxDepth + 1), j \in 1..(MaxDepth + 1) : i < j /\ g[i] = g[j]
  BY LongWalkRepeats, Zenon
<1> DEFINE C == {g[k] : k \in i..(j - 1)}
<1>3. C \subseteq Namespaces /\ C # {}
  BY <1>1, <1>2
<1>4. PICK m \in C : parent[m] \notin C
  BY <1>3, Zenon DEF Acyclic
<1>5. PICK k \in i..(j - 1) : m = g[k]
  BY <1>4, Zenon
<1>6. k \in 1..MaxDepth /\ parent[m] = g[k + 1] /\ (k + 1 = j \/ k + 1 \in i..(j - 1))
  BY <1>1, <1>2, <1>5
<1>7. i \in i..(j - 1)
  BY <1>1, <1>2
<1> QED
  BY <1>2, <1>4, <1>6, <1>7, Zenon

(* The parents of S, except that of n, are in S. *)
Stays(S, n) == \A m \in S \ {n} : parent[m] \in S

(* As long as the query misses the namespace, and the walk from the new    *)
(* parent stays in a set that the new parents do not leave, each of its    *)
(* tiers holds one namespace of that set.                                  *)
LEMMA TiersStay ==
  ASSUME TypeOK, NEW n \in Namespaces, NEW to \in Namespaces, n \notin Ancestors(to),
         NEW t, Answer(t, to), NEW S \in SUBSET Namespaces, to \in S, Stays(S, n),
         NEW k \in 1..MaxDepth
  PROVE  \E m \in S \ {n} : t[k] = {m}
<1> DEFINE Bad == {d \in 1..MaxDepth : ~ \E m \in S \ {n} : t[d] = {m}}
<1>0. MaxDepth \in Nat \ {0} /\ None \notin S
  BY HierarchyAssumption, Zenon
<1>1. SUFFICES ASSUME Bad # {} PROVE FALSE
  BY Zenon
<1>2. Bad \subseteq Nat
  BY <1>0
<1>3. PICK d \in Bad : \A e \in Bad : d <= e
  BY <1>1, <1>2, Least, Zenon
<1>4. d \in 1..MaxDepth
  BY <1>3, Zenon
<1>5. ASSUME NEW m \in t[d] PROVE m # n
  BY <1>4, <1>5, Zenon DEF Answer
<1>6. CASE d = 1
  <2>1. t[d] = {to}
    BY <1>4, <1>6, Zenon DEF Answer, Tiers
  <2> QED
    BY <1>3, <1>5, <2>1, Zenon
<1>7. CASE d # 1
  <2>1. d - 1 \in 1..MaxDepth /\ ~(d <= d - 1)
    BY <1>0, <1>4, <1>7
  <2>2. d - 1 \notin Bad
    BY <1>3, <2>1, Zenon
  <2>3. PICK m \in S \ {n} : t[d - 1] = {m}
    BY <2>1, <2>2, Zenon
  <2>4. t[d] = Up(t[d - 1])
    BY <1>4, <1>7, Zenon DEF Answer, Tiers
  <2>5. parent[m] \in S /\ parent[m] # None
    BY <1>0, <2>3, Zenon DEF Stays
  <2>6. t[d] = {parent[m]}
    BY <2>3, <2>4, <2>5, Zenon DEF Up
  <2> QED
    BY <1>3, <1>5, <2>5, <2>6, Zenon
<1> QED
  BY <1>6, <1>7, Zenon

(* The check of SetNamespaceParent is enough: if the query from the new    *)
(* parent does not meet the namespace, the new parent closes no cycle.     *)
LEMMA CheckSuffices ==
  ASSUME TypeOK, Shallow, Acyclic, NEW n \in Namespaces, NEW to \in Namespaces,
         n \notin Ancestors(to)
  PROVE  NoCycle([parent EXCEPT ![n] = to])
<1> DEFINE par == [parent EXCEPT ![n] = to]
<1>1. SUFFICES ASSUME NEW S \in SUBSET Namespaces, S # {}, \A m \in S : par[m] \in S
               PROVE  FALSE
  BY Zenon DEF NoCycle
<1>2. par[n] = to /\ \A m \in Namespaces \ {n} : par[m] = parent[m]
  BY Zenon DEF TypeOK
<1> HIDE DEF par
<1>3. n \in S
  <2>1. PICK m \in S : parent[m] \notin S
    BY <1>1, Zenon DEF Acyclic
  <2> QED
    BY <1>1, <1>2, <2>1, Zenon
<1>4. to \in S /\ Stays(S, n)
  BY <1>1, <1>2, <1>3, Zenon DEF Stays
<1>5. PICK t : Answer(t, to)
  BY AncestorTiers, Zenon
<1>6. ASSUME NEW k \in 1..MaxDepth PROVE \E m \in S \ {n} : t[k] = {m}
  BY <1>4, <1>5, TiersStay
<1> DEFINE f == [k \in 1..MaxDepth |-> CHOOSE m \in S \ {n} : t[k] = {m}]
<1>7. \A k \in 1..MaxDepth : f[k] \in S \ {n} /\ t[k] = {f[k]}
  BY <1>6, Zenon
<1> HIDE DEF f
<1>8. MaxDepth \in Nat \ {0}
  BY HierarchyAssumption, Zenon
<1>9. ASSUME NEW k \in 1..MaxDepth, k # MaxDepth PROVE f[k + 1] = parent[f[k]]
  <2>1. k + 1 \in 1..MaxDepth /\ k + 1 # 1 /\ (k + 1) - 1 = k
    BY <1>8, <1>9
  <2>2. t[k + 1] = Up(t[k])
    BY <1>5, <2>1, Zenon DEF Answer, Tiers
  <2>3. {f[k + 1]} = Up({f[k]})
    BY <1>7, <2>1, <2>2, Zenon
  <2> QED
    BY <2>3, Zenon DEF Up
<1> DEFINE g == [k \in 1..(MaxDepth + 1) |-> IF k = MaxDepth + 1 THEN parent[f[MaxDepth]] ELSE f[k]]
<1>10. MaxDepth \in 1..MaxDepth /\ \A k \in 1..(MaxDepth + 1) : k = MaxDepth + 1 \/ k \in 1..MaxDepth
  BY <1>8
<1>11. g \in [1..(MaxDepth + 1) -> Namespaces]
  <2>1. \A k \in 1..(MaxDepth + 1) : g[k] \in S
    BY <1>4, <1>7, <1>10, Zenon DEF Stays
  <2> QED
    BY <2>1, Zenon
<1>12. ASSUME NEW k \in 1..MaxDepth PROVE parent[g[k]] = g[k + 1]
  <2>1. k \in 1..(MaxDepth + 1) /\ k + 1 \in 1..(MaxDepth + 1) /\ k # MaxDepth + 1
        /\ (k + 1 = MaxDepth + 1 <=> k = MaxDepth)
    BY <1>8
  <2> QED
    BY <1>9, <2>1, Zenon
<1> HIDE DEF g
<1> QED
  BY <1>11, <1>12, NoLongWalk, Zenon

-----------------------------------------------------------------------------
(* Namespace.Chain. *)

(* Chain c after one more turn of its loop. *)
Longer(c, d, n) ==
    LET next == IF c = << >> THEN n ELSE memParent[c[Len(c)]]
    IN  IF Len(c) < d - 1 \/ next = None \/ \E i \in 1..Len(c) : c[i] = next
        THEN c
        ELSE Append(c, next)

(* The first k turns of the loop. *)
Walks(w, n, k) == w = [d \in 0..k |-> IF d = 0 THEN << >> ELSE Longer(w[d - 1], d, n)]

(* The walk can be computed, as far as one likes. *)
LEMMA WalksExist ==
  ASSUME NEW n, NEW k \in Nat
  PROVE  \E w : Walks(w, n, k)
<1> DEFINE Bad == {j \in Nat : ~ \E w : Walks(w, n, j)}
<1>1. SUFFICES Bad = {}
  BY Zenon
<1>2. SUFFICES ASSUME Bad # {} PROVE FALSE
  BY Zenon
<1>3. PICK j \in Bad : \A i \in Bad : j <= i
  BY <1>2, Least, Zenon
<1>4. j # 0
  <2>1. Walks([d \in 0..0 |-> << >>], n, 0)
    BY DEF Walks
  <2> QED
    BY <2>1, Zenon
<1>5. j \in Nat /\ j - 1 \in Nat /\ j - 1 \notin Bad
  <2> HIDE DEF Bad
  <2>1. j \in Nat
    BY Zenon DEF Bad
  <2>2. j - 1 \in Nat /\ ~(j <= j - 1)
    BY <1>4, <2>1
  <2> QED
    BY <1>3, <2>1, <2>2, Zenon
<1>6. PICK w : Walks(w, n, j - 1)
  BY <1>5, Zenon
<1> DEFINE u == [d \in 0..j |-> IF d = 0 THEN << >> ELSE Longer(w[d - 1], d, n)]
<1>7. ASSUME NEW d \in 0..j, d # 0 PROVE u[d - 1] = w[d - 1]
  <2>1. d - 1 \in 0..(j - 1) /\ d - 1 \in 0..j
    BY <1>5, <1>7
  <2> QED
    BY <1>6, <2>1, Zenon DEF Walks
<1>8. Walks(u, n, j)
  BY <1>7, Zenon DEF Walks
<1> QED
  BY <1>3, <1>8, Zenon

(* Chain is the last turn. *)
LEMMA ChainWalk ==
  ASSUME NEW n
  PROVE  \E w : Walks(w, n, MaxDepth) /\ Chain(n) = w[MaxDepth]
<1> DEFINE w == CHOOSE f : Walks(f, n, MaxDepth)
<1>1. MaxDepth \in Nat
  BY HierarchyAssumption, Zenon
<1>2. Walks(w, n, MaxDepth)
  BY <1>1, WalksExist, Zenon
<1>3. Chain(n) = w[MaxDepth]
  BY Zenon DEF Chain, Walks, Longer
<1> HIDE DEF w
<1> QED
  BY <1>2, <1>3, Zenon

(* A sequence of ancestors of n, nearest first, begun with n itself. *)
Upward(c, n) ==
    /\ c \in Seq(Namespaces)
    /\ Len(c) # 0 => c[1] = n
    /\ \A i \in 1..(Len(c) - 1) : parent[c[i]] = c[i + 1]

(* Without a cycle a walk does not come back to where it has been. *)
LEMMA UpwardNew ==
  ASSUME Acyclic, NEW n, NEW c, Upward(c, n), NEW i \in 1..Len(c)
  PROVE  parent[c[Len(c)]] # c[i]
<1> SUFFICES ASSUME parent[c[Len(c)]] = c[i] PROVE FALSE
  BY Zenon
<1> DEFINE L == Len(c)
           C == {c[k] : k \in i..L}
<1>1. L \in Nat /\ (\A k \in 1..L : c[k] \in Namespaces)
      /\ \A k \in 1..(L - 1) : parent[c[k]] = c[k + 1]
  BY DEF Upward
<1> HIDE DEF L
<1>2. i \in 1..L /\ parent[c[L]] = c[i]
  BY Zenon DEF L
<1>3. C \subseteq Namespaces /\ C # {}
  BY <1>1, <1>2
<1>4. PICK m \in C : parent[m] \notin C
  BY <1>3, Zenon DEF Acyclic
<1>5. PICK k \in i..L : m = c[k]
  BY <1>4, Zenon
<1>6. i \in i..L /\ (k = L \/ (k \in 1..(L - 1) /\ k + 1 \in i..L))
  BY <1>1, <1>2, <1>5
<1> QED
  BY <1>1, <1>2, <1>4, <1>5, <1>6, Zenon

(* Turn d of the loop is made, or the walk has reached a root. *)
Arrived(c, d) == Len(c) = d \/ (Len(c) # 0 /\ parent[c[Len(c)]] = None)

(* One turn of the loop goes up one namespace, or ends at a root. *)
LEMMA LongerUpward ==
  ASSUME TypeOK, Acyclic, memParent = parent, NEW n \in Namespaces, NEW c, NEW d \in Nat \ {0},
         Upward(c, n), Arrived(c, d - 1)
  PROVE  Upward(Longer(c, d, n), n) /\ Arrived(Longer(c, d, n), d)
<1> DEFINE next == IF c = << >> THEN n ELSE parent[c[Len(c)]]
           L == Len(c)
<1>1. c \in Seq(Namespaces) /\ L \in Nat /\ (c = << >> <=> L = 0)
      /\ \A k \in 1..L : c[k] \in Namespaces
  BY DEF Upward
<1>2. None \notin Namespaces
  BY HierarchyAssumption, Zenon
<1>3. CASE L # 0 /\ parent[c[L]] = None
  <2>1. next = None
    BY <1>1, <1>3, Zenon
  <2>2. Longer(c, d, n) = c
    BY <2>1, Zenon DEF Longer
  <2> QED
    BY <1>3, <2>2, Zenon DEF Arrived
<1>4. CASE L = d - 1 /\ ~(L # 0 /\ parent[c[L]] = None)
  <2>1. ~(L < d - 1) /\ d = L + 1
    BY <1>1, <1>4
  <2>2. next \in Namespaces
    <3>1. CASE L = 0
      BY <1>1, <3>1, Zenon
    <3>2. CASE L # 0
      <4>1. L \in 1..L
        BY <1>1, <3>2
      <4>2. parent[c[L]] \in Parents
        BY <1>1, <4>1, Zenon DEF TypeOK
      <4> QED
        BY <1>1, <1>4, <3>2, <4>2, Zenon DEF Parents
    <3> QED
      BY <3>1, <3>2, Zenon
  <2>3. \A i \in 1..L : c[i] # next
    <3>1. CASE L = 0
      BY <1>1, <3>1
    <3>2. CASE L # 0
      BY <1>1, <3>2, UpwardNew, Zenon
    <3> QED
      BY <3>1, <3>2, Zenon
  <2>4. Longer(c, d, n) = Append(c, next)
    BY <1>2, <2>1, <2>2, <2>3, Zenon DEF Longer
  <2> DEFINE e == Append(c, next)
  <2>5. /\ e \in Seq(Namespaces) /\ Len(e) = L + 1 /\ e[L + 1] = next
        /\ \A i \in 1..L : e[i] = c[i]
    BY <1>1, <2>2
  <2> HIDE DEF e
  <2>6. e[1] = n
    <3>1. CASE L = 0
      BY <1>1, <2>5, <3>1
    <3>2. CASE L # 0
      BY <1>1, <2>5, <3>2 DEF Upward
    <3> QED
      BY <3>1, <3>2, Zenon
  <2>7. ASSUME NEW i \in 1..(Len(e) - 1) PROVE parent[e[i]] = e[i + 1]
    <3>1. i \in 1..L /\ (i = L \/ (i \in 1..(L - 1) /\ i + 1 \in 1..L)) /\ L # 0
      BY <1>1, <2>5
    <3>2. e[i] = c[i]
      BY <2>5, <3>1, Zenon
    <3>3. CASE i = L
      BY <1>1, <2>5, <3>1, <3>2, <3>3, Zenon
    <3>4. CASE i \in 1..(L - 1) /\ i + 1 \in 1..L
      BY <2>5, <3>2, <3>4, Zenon DEF Upward
    <3> QED
      BY <3>1, <3>3, <3>4, Zenon
  <2>8. Upward(e, n) /\ Arrived(e, d)
    BY <2>1, <2>5, <2>6, <2>7, Zenon DEF Upward, Arrived
  <2> QED
    BY <2>4, <2>8, Zenon DEF e
<1> QED
  BY <1>3, <1>4, Zenon DEF Arrived

(* Every turn of the loop has gone up as far as it could. *)
LEMMA WalkUpward ==
  ASSUME TypeOK, Acyclic, memParent = parent, NEW n \in Namespaces,
         NEW w, Walks(w, n, MaxDepth), NEW k \in 0..MaxDepth
  PROVE  Upward(w[k], n) /\ Arrived(w[k], k)
<1> DEFINE Bad == {d \in 0..MaxDepth : ~(Upward(w[d], n) /\ Arrived(w[d], d))}
<1>0. MaxDepth \in Nat
  BY HierarchyAssumption, Zenon
<1>1. SUFFICES ASSUME Bad # {} PROVE FALSE
  BY Zenon
<1>2. Bad \subseteq Nat
  BY <1>0
<1>3. PICK d \in Bad : \A e \in Bad : d <= e
  BY <1>1, <1>2, Least, Zenon
<1>4. d \in 0..MaxDepth
  BY <1>3, Zenon
<1>5. CASE d = 0
  <2>1. w[d] = << >>
    BY <1>4, <1>5, Zenon DEF Walks
  <2>2. Upward(<< >>, n) /\ Arrived(<< >>, 0)
    BY DEF Upward, Arrived
  <2> QED
    BY <1>3, <1>5, <2>1, <2>2, Zenon
<1>6. CASE d # 0
  <2>1. d - 1 \in 0..MaxDepth /\ ~(d <= d - 1) /\ d \in Nat \ {0}
    BY <1>0, <1>4, <1>6
  <2>2. d - 1 \notin Bad
    BY <1>3, <2>1, Zenon
  <2>3. Upward(w[d - 1], n) /\ Arrived(w[d - 1], d - 1)
    BY <2>1, <2>2, Zenon
  <2>4. w[d] = Longer(w[d - 1], d, n)
    BY <1>4, <1>6, Zenon DEF Walks
  <2>5. Upward(w[d], n) /\ Arrived(w[d], d)
    BY <2>1, <2>3, <2>4, LongerUpward, Zenon
  <2> QED
    BY <1>3, <2>5, Zenon
<1> QED
  BY <1>5, <1>6, Zenon

(* The walk in memory meets the ancestors in the store, and all of them. *)
LEMMA ChainComplete ==
  ASSUME TypeOK, Shallow, Acyclic, memParent = parent, NEW n \in Namespaces
  PROVE  /\ Chain(n)[1] = n
         /\ \A i \in 1..Len(Chain(n)) : parent[Chain(n)[i]] =
               IF i = Len(Chain(n)) THEN None ELSE Chain(n)[i + 1]
<1>1. PICK w : Walks(w, n, MaxDepth) /\ Chain(n) = w[MaxDepth]
  BY ChainWalk, Zenon
<1> DEFINE c == Chain(n)
           L == Len(c)
<1>2. MaxDepth \in Nat \ {0} /\ MaxDepth \in 0..MaxDepth
  BY HierarchyAssumption
<1>3. Upward(c, n) /\ Arrived(c, MaxDepth)
  BY <1>1, <1>2, WalkUpward, Zenon
<1> HIDE DEF c
<1>4. c \in Seq(Namespaces) /\ L \in Nat /\ L # 0 /\ \A k \in 1..L : c[k] \in Namespaces
  BY <1>2, <1>3 DEF Upward, Arrived
<1>5. parent[c[L]] = None
  <2> SUFFICES ASSUME parent[c[L]] # None PROVE FALSE
    BY Zenon
  <2>1. L = MaxDepth /\ L \in 1..L
    BY <1>3, <1>4 DEF Arrived
  <2>2. parent[c[L]] \in Namespaces
    BY <1>4, <2>1, Zenon DEF TypeOK, Parents
  <2> DEFINE g == [k \in 1..(MaxDepth + 1) |-> IF k = MaxDepth + 1 THEN parent[c[L]] ELSE c[k]]
  <2>3. \A k \in 1..(MaxDepth + 1) : k = MaxDepth + 1 \/ k \in 1..L
    BY <1>2, <2>1
  <2>4. g \in [1..(MaxDepth + 1) -> Namespaces]
    BY <1>4, <2>2, <2>3, Zenon
  <2>5. ASSUME NEW k \in 1..MaxDepth PROVE parent[g[k]] = g[k + 1]
    <3>1. /\ k \in 1..(MaxDepth + 1) /\ k + 1 \in 1..(MaxDepth + 1) /\ k # MaxDepth + 1
          /\ (k = L /\ k + 1 = MaxDepth + 1) \/ (k \in 1..(L - 1) /\ k + 1 # MaxDepth + 1)
      BY <1>2, <2>1
    <3> QED
      BY <1>3, <3>1, Zenon DEF Upward
  <2> HIDE DEF g
  <2> QED
    BY <2>4, <2>5, NoLongWalk, Zenon
<1>6. ASSUME NEW i \in 1..L PROVE parent[c[i]] = IF i = L THEN None ELSE c[i + 1]
  <2>1. i = L \/ i \in 1..(L - 1)
    BY <1>4
  <2> QED
    BY <1>3, <1>4, <1>5, <2>1, Zenon DEF Upward
<1>7. c[1] = n
  BY <1>3, <1>4, Zenon DEF Upward
<1> QED
  BY <1>6, <1>7, Zenon DEF c

-----------------------------------------------------------------------------
(* No cycle, and memory follows the store. *)

(* Clearing a parent closes no cycle. *)
LEMMA ClearingSuffices ==
  ASSUME TypeOK, Acyclic, NEW n \in Namespaces
  PROVE  NoCycle([parent EXCEPT ![n] = None])
<1> DEFINE par == [parent EXCEPT ![n] = None]
<1>1. par[n] = None /\ \A m \in Namespaces \ {n} : par[m] = parent[m]
  BY Zenon DEF TypeOK
<1> HIDE DEF par
<1>2. ASSUME NEW S \in SUBSET Namespaces, S # {} PROVE \E m \in S : par[m] \notin S
  <2>1. PICK m \in S : parent[m] \notin S
    BY <1>2, Zenon DEF Acyclic
  <2>2. None \notin S
    BY HierarchyAssumption, Zenon
  <2> QED
    BY <1>1, <2>1, <2>2, Zenon
<1> QED
  BY <1>2, Zenon DEF NoCycle, par

(* What is there to begin with has no cycle. *)
LEMMA InitTree == Init => TreeInv
<1> SUFFICES ASSUME Init PROVE TreeInv
  BY Zenon
<1>1. ASSUME NEW n \in Namespaces, NEW i \in 1..Len(Prior), Prior[i].ns = n
      PROVE  parent[n] = Prior[i].new
  BY <1>1, PriorAssumption, Zenon DEF Init
<1>2. ASSUME NEW n \in Namespaces, \A i \in 1..Len(Prior) : Prior[i].ns # n
      PROVE  parent[n] = None
  BY <1>2, Zenon DEF Init
<1>3. Acyclic
  <2> SUFFICES ASSUME NEW S \in SUBSET Namespaces, S # {}
               PROVE  \E n \in S : parent[n] \notin S
    BY Zenon DEF Acyclic
  <2>1. None \notin S
    BY HierarchyAssumption, Zenon
  <2>2. CASE S \subseteq Existing
    <3>1. PICK n \in S : \A i \in 1..Len(Prior) : Prior[i].ns = n => Prior[i].new \notin S
      BY <2>2, PriorAssumption, Zenon
    <3> QED
      BY <1>1, <1>2, <2>1, <3>1, ZenonT(30)
  <2>3. CASE ~(S \subseteq Existing)
    <3>1. PICK n \in S : n \notin Existing
      BY <2>3, Zenon
    <3>2. \A i \in 1..Len(Prior) : Prior[i].ns # n
      BY <3>1, PriorAssumption, Zenon
    <3> QED
      BY <1>2, <2>1, <3>2, Zenon
  <2> QED
    BY <2>2, <2>3, Zenon
<1>4. \A p \in Procs : req[p].ph = "idle"
  BY Zenon DEF Init, NoRequest
<1>5. \A p \in Procs : TreeOK(req[p])
  BY <1>4, Zenon DEF TreeOK
<1>6. memParent = parent
  BY Zenon DEF Init
<1> QED
  BY <1>3, <1>5, <1>6, Zenon DEF TreeInv

(* A step of handler p that leaves both kinds of parents alone. *)
LEMMA TreeKeeps ==
  ASSUME TreeInv, NEW p \in Procs, NEW R, req'[p] = R,
         \A q \in Procs \ {p} : req'[q] = req[q],
         UNCHANGED <<parent, memParent>>, disturbed => disturbed',
         req[p].ph # "mem", ~disturbed => TreeOK(R)
  PROVE  TreeInv'
<1> SUFFICES ASSUME ~disturbed'
             PROVE  /\ Acyclic'
                    /\ \A q \in Procs : TreeOK(req[q])'
                    /\ \A n \in Namespaces :
                          memParent'[n] = parent'[n]
                             \/ \E q \in Procs : req'[q].ph = "mem" /\ req'[q].ns = n
  BY Zenon DEF TreeInv
<1>1. /\ Acyclic /\ TreeOK(R)
      /\ \A q \in Procs : TreeOK(req[q])
      /\ \A n \in Namespaces :
            memParent[n] = parent[n] \/ \E q \in Procs : req[q].ph = "mem" /\ req[q].ns = n
  BY Zenon DEF TreeInv
<1>2. Acyclic'
  BY <1>1, Zenon DEF Acyclic
<1>3. ASSUME NEW q \in Procs PROVE TreeOK(req[q])'
  <2>1. TreeOK(req'[q])
    BY <1>1, Zenon
  <2> QED
    BY <2>1, Zenon DEF TreeOK
<1>4. ASSUME NEW n \in Namespaces
      PROVE  memParent'[n] = parent'[n]
                \/ \E q \in Procs : req'[q].ph = "mem" /\ req'[q].ns = n
  BY <1>1, Zenon
<1> QED
  BY <1>2, <1>3, <1>4, Zenon

(* The parts of the invariant while nobody interferes. *)
LEMMA TreeNow ==
  ASSUME IInv, TreeInv, ~disturbed, NEW p \in Procs
  PROVE  Acyclic /\ TreeOK(req[p]) /\ \A q \in Procs : Idle(p) \/ Idle(q) \/ p = q
  BY Zenon DEF IInv, Serial, TreeInv

(* A request that returns, and one that has not been checked, claim        *)
(* nothing.                                                                *)
LEMMA PlainTree ==
  ASSUME NEW R, R.ph \in {"idle", "begin", "check"}
  PROVE  TreeOK(R)
  BY Zenon DEF TreeOK

(* The requests after a step of handler p. *)
LEMMA OneRequest ==
  ASSUME TypeOK, NEW p \in Procs, NEW R, req' = [req EXCEPT ![p] = R]
  PROVE  req'[p] = R /\ \A q \in Procs \ {p} : req'[q] = req[q]
  BY Zenon DEF TypeOK

(* A handler that returns without having committed. *)
LEMMA ReturnTree ==
  ASSUME IInv, TreeInv, NEW p \in Procs, Return(p), req[p].ph # "mem",
         UNCHANGED <<parent, memParent>>, disturbed => disturbed'
  PROVE  TreeInv'
<1>1. NoRequest.ph = "idle"
  BY Zenon DEF NoRequest
<1>2. TreeOK(NoRequest)
  BY <1>1, PlainTree
<1>3. req'[p] = NoRequest /\ \A q \in Procs \ {p} : req'[q] = req[q]
  BY OneRequest, Zenon DEF IInv, Return
<1> QED
  BY <1>2, <1>3, TreeKeeps, Zenon

(* A request arrives. *)
LEMMA ArriveTree ==
  ASSUME IInv, TreeInv, NEW p \in Procs, Arrive(p), disturbed => disturbed'
  PROVE  TreeInv'
<1>1. PICK n \in Namespaces, to \in Parents :
         CreateNamespace(p, n, to) \/ SetNamespaceParent(p, n, to)
  BY Zenon DEF Arrive
<1>2. UNCHANGED <<parent, memParent>> /\ req[p].ph = "idle"
  BY <1>1, Zenon DEF CreateNamespace, SetNamespaceParent, Idle, dbVars
<1> DEFINE B == [NoRequest EXCEPT !.ph = "begin", !.ns = n, !.to = to]
<1>3. req' = req \/ req' = [req EXCEPT ![p] = B]
  BY <1>1, Zenon DEF CreateNamespace, SetNamespaceParent
<1>4. B.ph = "begin"
  BY Zenon DEF NoRequest
<1> HIDE DEF B
<1>5. req'[p].ph \in {"idle", "begin"} /\ \A q \in Procs \ {p} : req'[q] = req[q]
  BY <1>2, <1>3, <1>4, OneRequest, Zenon DEF IInv
<1>6. TreeOK(req'[p])
  BY <1>5, Zenon DEF TreeOK
<1>7. req[p].ph # "mem"
  BY <1>2, Zenon
<1> QED
  BY <1>2, <1>5, <1>6, <1>7, TreeKeeps, Zenon

(* A transaction begins; one that clears the parent needs no check. *)
LEMMA ReadPreviousTree ==
  ASSUME IInv, TreeInv, NEW p \in Procs, ReadPrevious(p), disturbed' = disturbed
  PROVE  TreeInv'
<1>1. /\ UNCHANGED <<parent, memParent>> /\ (disturbed => disturbed')
      /\ req[p].ph = "begin" /\ req[p].ph # "mem"
  BY Zenon DEF ReadPrevious, dbVars
<1>2. CASE Return(p)
  BY <1>1, <1>2, ReturnTree, Zenon
<1>3. CASE req[p].ns \in rows
  <2> DEFINE R == [req[p] EXCEPT !.prev = parent[req[p].ns], !.at = clock,
                                 !.ph = IF req[p].to = None THEN "lock" ELSE "check"]
  <2>1. req \in [Procs -> Requests] /\ rows \subseteq Namespaces
    BY Zenon DEF IInv, TypeOK
  <2>2. req' = [req EXCEPT ![p] = R]
    BY <1>3, <2>1, Zenon DEF ReadPrevious
  <2>3. /\ R.ns = req[p].ns /\ R.to = req[p].to
        /\ R.ph = IF req[p].to = None THEN "lock" ELSE "check"
    BY <2>1, Zenon DEF Requests
  <2> HIDE DEF R
  <2>4. req'[p] = R /\ \A q \in Procs \ {p} : req'[q] = req[q]
    BY <2>2, OneRequest, Zenon DEF IInv
  <2>5. ASSUME ~disturbed PROVE TreeOK(R)
    <3>1. CASE req[p].to = None
      <4>1. NoCycle([parent EXCEPT ![req[p].ns] = None])
        BY <1>3, <2>1, <2>5, TreeNow, ClearingSuffices, Zenon DEF IInv
      <4> QED
        BY <2>3, <3>1, <4>1, Zenon DEF TreeOK
    <3>2. CASE req[p].to # None
      BY <2>3, <3>2, Zenon DEF TreeOK
    <3> QED
      BY <3>1, <3>2, Zenon
  <2> QED
    BY <1>1, <2>4, <2>5, TreeKeeps, Zenon
<1> QED
  BY <1>2, <1>3, Zenon DEF ReadPrevious

(* A request goes on to another phase. *)
LEMMA GotoTree ==
  ASSUME IInv, TreeInv, NEW p \in Procs, NEW ph, Goto(p, ph), req[p].ph # "mem",
         UNCHANGED <<parent, memParent>>, disturbed => disturbed',
         ph \in {"lock", "commit"},
         ~disturbed => NoCycle([parent EXCEPT ![req[p].ns] = req[p].to])
  PROVE  TreeInv'
<1> DEFINE R == [req[p] EXCEPT !.ph = ph]
<1>1. req \in [Procs -> Requests]
  BY Zenon DEF IInv, TypeOK
<1>2. req' = [req EXCEPT ![p] = R]
  BY <1>1, Zenon DEF Goto
<1>3. R.ns = req[p].ns /\ R.to = req[p].to /\ R.ph = ph
  BY <1>1, Zenon DEF Requests
<1> HIDE DEF R
<1>4. req'[p] = R /\ \A q \in Procs \ {p} : req'[q] = req[q]
  BY <1>2, OneRequest, Zenon DEF IInv
<1>5. ~disturbed => TreeOK(R)
  BY <1>3, Zenon DEF TreeOK
<1> QED
  BY <1>4, <1>5, TreeKeeps, Zenon

(* The new parent is checked. *)
LEMMA CheckParentTree ==
  ASSUME Shallow, IInv, TreeInv, NEW p \in Procs, CheckParent(p), disturbed' = disturbed
  PROVE  TreeInv'
<1>1. /\ UNCHANGED <<parent, memParent>> /\ (disturbed => disturbed')
      /\ req[p].ph = "check" /\ req[p].ph # "mem"
  BY Zenon DEF CheckParent, dbVars
<1>2. CASE Return(p)
  BY <1>1, <1>2, ReturnTree, Zenon
<1>3. CASE req[p].to \in rows /\ req[p].ns \notin Ancestors(req[p].to) /\ Goto(p, "lock")
  <2>1. req[p].to \in Namespaces /\ req[p].ns \in Namespaces
    BY <1>1, <1>3, Zenon DEF IInv, TypeOK, HandlerOK
  <2>2. ~disturbed => NoCycle([parent EXCEPT ![req[p].ns] = req[p].to])
    BY <1>3, <2>1, TreeNow, CheckSuffices, Zenon DEF IInv
  <2> QED
    BY <1>1, <1>3, <2>2, GotoTree, Zenon
<1> QED
  BY <1>2, <1>3, Zenon DEF CheckParent

(* The row is locked. *)
LEMMA LockRowTree ==
  ASSUME IInv, TreeInv, NEW p \in Procs, LockRow(p), disturbed' = disturbed
  PROVE  TreeInv'
<1>1. /\ UNCHANGED <<parent, memParent>> /\ (disturbed => disturbed')
      /\ req[p].ph = "lock" /\ req[p].ph # "mem" /\ Goto(p, "commit")
  BY Zenon DEF LockRow, dbVars
<1>2. ~disturbed => NoCycle([parent EXCEPT ![req[p].ns] = req[p].to])
  BY <1>1, TreeNow, Zenon DEF TreeOK
<1> QED
  BY <1>1, <1>2, GotoTree, Zenon

(* The commit makes the parents that were checked. *)
LEMMA CommitTree ==
  ASSUME IInv, TreeInv, NEW p \in Procs, Commit(p), disturbed' = disturbed
  PROVE  TreeInv'
<1> SUFFICES ASSUME ~disturbed PROVE TreeInv'
  BY Zenon DEF TreeInv
<1> DEFINE r == req[p]
<1>1. /\ r.ph = "commit" /\ r \in Requests /\ req \in [Procs -> Requests]
      /\ parent' = [parent EXCEPT ![r.ns] = r.to] /\ Goto(p, "mem")
      /\ memParent' = memParent
  BY Zenon DEF IInv, TypeOK, Commit
<1>2. r.ns \in Namespaces
  BY <1>1, Zenon DEF IInv, HandlerOK
<1>3. /\ parent'[r.ns] = r.to
      /\ \A n \in Namespaces \ {r.ns} : parent'[n] = parent[n]
  BY <1>1, <1>2, Zenon DEF IInv, TypeOK
<1>4. NoCycle(parent')
  BY <1>1, TreeNow, Zenon DEF TreeOK
<1>5. Acyclic'
  BY <1>4, Zenon DEF NoCycle, Acyclic
<1>6. /\ req'[p].ph = "mem" /\ req'[p].ns = r.ns /\ req'[p].to = r.to
      /\ \A q \in Procs \ {p} : req'[q] = req[q]
  BY <1>1, Zenon DEF Goto, Requests
<1>7. ASSUME NEW q \in Procs \ {p} PROVE req[q].ph = "idle"
  BY <1>1, TreeNow, Zenon DEF Idle
<1>8. ASSUME NEW q \in Procs PROVE TreeOK(req[q])'
  <2>1. CASE q = p
    BY <1>3, <1>6, <2>1, Zenon DEF TreeOK
  <2>2. CASE q # p
    BY <1>6, <1>7, <2>2, Zenon DEF TreeOK
  <2> QED
    BY <2>1, <2>2, Zenon
<1>9. ASSUME NEW n \in Namespaces
      PROVE  memParent'[n] = parent'[n]
                \/ \E q \in Procs : req'[q].ph = "mem" /\ req'[q].ns = n
  <2>1. CASE n = r.ns
    BY <1>6, <2>1, Zenon
  <2>2. CASE n # r.ns
    <3>1. memParent[n] = parent[n] \/ \E q \in Procs : req[q].ph = "mem" /\ req[q].ns = n
      BY Zenon DEF TreeInv
    <3>2. \A q \in Procs : req[q].ph # "mem"
      BY <1>1, <1>7, Zenon
    <3> QED
      BY <1>1, <1>3, <2>2, <3>1, <3>2, Zenon
  <2> QED
    BY <2>1, <2>2, Zenon
<1> QED
  BY <1>5, <1>8, <1>9, Zenon DEF TreeInv

(* Memory follows. *)
LEMMA SetParentMemoryTree ==
  ASSUME IInv, TreeInv, NEW p \in Procs, SetParentMemory(p), disturbed' = disturbed
  PROVE  TreeInv'
<1> SUFFICES ASSUME ~disturbed PROVE TreeInv'
  BY Zenon DEF TreeInv
<1> DEFINE r == req[p]
<1>1. /\ r.ph = "mem" /\ parent' = parent /\ Return(p)
      /\ memParent' = [memParent EXCEPT ![r.ns] = r.to]
      /\ memParent \in [Namespaces -> Parents]
  BY Zenon DEF SetParentMemory, dbVars, IInv, TypeOK
<1>2. r.to = parent[r.ns] /\ Acyclic
  BY <1>1, TreeNow, Zenon DEF TreeOK
<1>3. req'[p] = NoRequest /\ \A q \in Procs \ {p} : req'[q] = req[q]
  BY <1>1, OneRequest, Zenon DEF IInv, Return
<1>4. ASSUME NEW q \in Procs \ {p} PROVE req[q].ph = "idle"
  BY <1>1, TreeNow, Zenon DEF Idle
<1>5. ASSUME NEW q \in Procs PROVE req'[q].ph = "idle"
  BY <1>3, <1>4 DEF NoRequest
<1>6. ASSUME NEW q \in Procs PROVE TreeOK(req[q])'
  BY <1>5, Zenon DEF TreeOK
<1>7. ASSUME NEW n \in Namespaces PROVE memParent'[n] = parent'[n]
  <2>1. CASE n = r.ns
    BY <1>1, <1>2, <2>1, Zenon
  <2>2. CASE n # r.ns
    <3>1. memParent[n] = parent[n] \/ \E q \in Procs : req[q].ph = "mem" /\ req[q].ns = n
      BY Zenon DEF TreeInv
    <3>2. \A q \in Procs \ {p} : req[q].ph # "mem"
      BY <1>4, Zenon
    <3>3. memParent[n] = parent[n]
      BY <2>2, <3>1, <3>2, Zenon
    <3> QED
      BY <1>1, <2>2, <3>3, Zenon
  <2> QED
    BY <2>1, <2>2, Zenon
<1>8. Acyclic'
  BY <1>1, <1>2, Zenon DEF Acyclic
<1> QED
  BY <1>6, <1>7, <1>8, Zenon DEF TreeInv

(* Restore reads the parents of the store. *)
LEMMA RestartTree ==
  ASSUME TreeInv, Restart, disturbed' = disturbed
  PROVE  TreeInv'
<1> SUFFICES ASSUME ~disturbed PROVE TreeInv'
  BY Zenon DEF TreeInv
<1>1. parent' = parent /\ memParent' = parent'
  BY Zenon DEF Restart, dbVars
<1>2. Acyclic'
  BY <1>1, Zenon DEF TreeInv, Acyclic
<1>3. ASSUME NEW q \in Procs PROVE req'[q].ph = "idle"
  BY Zenon DEF Restart, NoRequest
<1>4. ASSUME NEW q \in Procs PROVE TreeOK(req[q])'
  BY <1>3, Zenon DEF TreeOK
<1> QED
  BY <1>1, <1>2, <1>4, Zenon DEF TreeInv

(* Every step keeps the tree. *)
LEMMA NextTree ==
  ASSUME Shallow, IInv, TreeInv, [Next]_vars
  PROVE  TreeInv'
<1>1. ASSUME NEW p \in Procs, Arrive(p), disturbed' = (disturbed \/ \E q \in Procs \ {p} : ~Idle(q))
      PROVE  TreeInv'
  <2>1. disturbed => disturbed'
    BY <1>1, Zenon
  <2> QED
    BY <1>1, <2>1, ArriveTree, Zenon
<1>2. ASSUME NEW p \in Procs, Step(p), disturbed' = disturbed PROVE TreeInv'
  BY <1>2, ReadPreviousTree, CheckParentTree, LockRowTree, CommitTree, SetParentMemoryTree,
     Zenon DEF Step
<1>3. ASSUME NEW p \in Procs, Fail(p), disturbed' = disturbed PROVE TreeInv'
  <2>1. /\ UNCHANGED <<parent, memParent>> /\ (disturbed => disturbed')
        /\ req[p].ph # "mem" /\ Return(p)
    BY <1>3, Zenon DEF Fail, dbVars
  <2> QED
    BY <2>1, ReturnTree, Zenon
<1>4. ASSUME disturbed' = TRUE PROVE TreeInv'
  BY <1>4, Zenon DEF TreeInv
<1>5. CASE UNCHANGED vars
  <2>1. UNCHANGED <<parent, memParent, req>> /\ (disturbed' <=> disturbed)
    BY <1>5, Zenon DEF vars
  <2> QED
    BY <2>1, Zenon DEF TreeInv, Acyclic, TreeOK
<1> QED
  BY <1>1, <1>2, <1>3, <1>4, <1>5, RestartTree, Zenon DEF Next

(* With at most MaxDepth namespaces: the hierarchy stays a forest as long  *)
(* as requests do not overlap.                                             *)
THEOREM TreeInvariance ==
  ASSUME Shallow
  PROVE  Spec => []TreeInv
<1>1. IInv /\ TreeInv /\ [Next]_vars => TreeInv'
  BY NextTree, Zenon
<1> QED
  BY <1>1, InitTree, Invariance, PTL DEF Spec

(* The cycle check of SetNamespaceParent, which walks up to MaxDepth       *)
(* ancestors of the new parent, keeps requests that do not overlap from    *)
(* closing a cycle: in a registry of at most MaxDepth namespaces no chain  *)
(* is longer than its walk.                                                *)
THEOREM CycleCheckSound ==
  ASSUME Shallow
  PROVE  Spec => []SerialAcyclic
<1>1. TreeInv => SerialAcyclic
  BY Zenon DEF TreeInv, SerialAcyclic
<1> QED
  BY <1>1, TreeInvariance, PTL

(* Namespace.Chain, walking pointers in memory with its guard against      *)
(* cycles and its bound, returns the namespace and all its ancestors in    *)
(* the store, nearest first, whenever no request is under way.             *)
THEOREM ChainCorrect ==
  ASSUME Shallow
  PROVE  Spec => []ChainMatchesStore
<1>1. IInv /\ TreeInv => ChainMatchesStore
  <2> SUFFICES ASSUME IInv, TreeInv, ~disturbed, \A p \in Procs : Idle(p),
                      NEW n \in Namespaces
               PROVE  /\ Chain(n)[1] = n
                      /\ \A i \in 1..Len(Chain(n)) : parent[Chain(n)[i]] =
                            IF i = Len(Chain(n)) THEN None ELSE Chain(n)[i + 1]
    BY Zenon DEF ChainMatchesStore
  <2>1. \A p \in Procs : req[p].ph # "mem"
    BY Zenon DEF Idle
  <2>2. Acyclic /\ \A m \in Namespaces : memParent[m] = parent[m]
    BY <2>1, Zenon DEF TreeInv
  <2>3. TypeOK
    BY Zenon DEF IInv
  <2>4. memParent = parent
    BY <2>2, <2>3 DEF TypeOK
  <2> QED
    BY <2>2, <2>3, <2>4, ChainComplete, Zenon
<1> QED
  BY <1>1, Invariance, TreeInvariance, PTL
=============================================================================
