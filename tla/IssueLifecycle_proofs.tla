------------------------ MODULE IssueLifecycle_proofs ------------------------
(***************************************************************************)
(* Theorems about IssueLifecycle: its states are well typed, the columns   *)
(* of an issue agree with its status and its threshold, events are on the  *)
(* issue with their fingerprint, counts cover them, and an issue is seen   *)
(* for the first time once.                                                *)
(***************************************************************************)
EXTENDS IssueLifecycle, FiniteSetTheorems, TLAPS

-----------------------------------------------------------------------------
\* What the statements do to the rows and the tasks they touch.

LEMMA CountedRow ==
  ASSUME NEW r \in Row
  PROVE  CountEvent(r) \in Row /\ CountEvent(r).id = r.id /\ CountEvent(r).count = r.count + 1
<1>1. r.count + 1 \in Nat /\ r.release \in Release /\ NoRelease \in Release
  BY DEF Row, Release
<1>2. CASE Reopened(r)
  BY <1>1, <1>2 DEF CountEvent, Row, Status, Null
<1>3. CASE ~Reopened(r)
  BY <1>1, <1>3 DEF CountEvent, Row
<1> QED
  BY <1>2, <1>3

LEMMA RequestedRow ==
  ASSUME NEW r \in Row, NEW q \in Request
  PROVE  Requested(r, q) \in Row /\ Requested(r, q).id = r.id /\ Requested(r, q).count = r.count
<1>1. q.status \in Status /\ q.release \in Release
  BY DEF Request, Status, Release
<1>2. q.until \in Nat /\ q.threshold \in Nat
  <2>1. Threshold \cup {Null} \subseteq Nat /\ 0..MaxTime \subseteq Nat /\ Null \in Nat
    BY IssueNumbersAreNatural DEF Null
  <2> QED
    BY <2>1 DEF Request
<1> QED
  BY <1>1, <1>2 DEF Requested, Row

LEMMA ReleasedRows ==
  ASSUME TypeOK, NEW v \in Version \cup {NoRelease}, issues' = ResolvedIn(v)
  PROVE  /\ DOMAIN issues' = DOMAIN issues
         /\ \A p \in DOMAIN issues : /\ issues'[p] \in Row /\ issues'[p].id = issues[p].id
                                     /\ issues'[p].count = issues[p].count
BY DEF TypeOK, ResolvedIn, Row, Release

LEMMA UnmutedRows ==
  ASSUME TypeOK, Unmute
  PROVE  /\ DOMAIN issues' = DOMAIN issues
         /\ \A p \in DOMAIN issues : /\ issues'[p] \in Row /\ issues'[p].id = issues[p].id
                                     /\ issues'[p].count = issues[p].count
BY DEF TypeOK, Unmute, Row, Status, Null

LEMMA UpdatedRows ==
  ASSUME TypeOK, NEW a, NEW ids, NEW q \in Request, Update(a, ids, q)
  PROVE  /\ DOMAIN issues' = DOMAIN issues
         /\ \A p \in DOMAIN issues : /\ issues'[p] \in Row /\ issues'[p].id = issues[p].id
                                     /\ issues'[p].count = issues[p].count
BY RequestedRow DEF TypeOK, Update

LEMMA SameIds ==
  ASSUME TypeOK, DOMAIN issues' = DOMAIN issues,
         \A p \in DOMAIN issues : issues'[p].id = issues[p].id
  PROVE  {issues'[p].id : p \in DOMAIN issues'} = DOMAIN activity
BY DEF TypeOK

LEMMA RecordedTyped ==
  ASSUME TypeOK, NEW ids, NEW kind \in Kind
  PROVE  /\ DOMAIN Recorded(ids, kind) = Ids
         /\ \A i \in Ids : Recorded(ids, kind)[i] \in Seq(Kind)
BY DEF TypeOK, Recorded, Ids

LEMMA PutWork ==
  ASSUME TypeOK, NEW w \in Worker, NEW t \in Task, work' = Put(work, w, t)
  PROVE  DOMAIN work' \subseteq Worker /\ \A v \in DOMAIN work' : work'[v] \in Task
BY DEF TypeOK, Put

LEMMA DropWork ==
  ASSUME TypeOK, NEW w, work' = Drop(work, w)
  PROVE  DOMAIN work' \subseteq Worker /\ \A v \in DOMAIN work' : work'[v] \in Task
BY DEF TypeOK, Drop, Restrict

LEMMA NextPc ==
  ASSUME TypeOK, NEW w, w \in DOMAIN work, work[w].pc \in {"store", "link"},
         NEW pc \in {"link", "finish"}, work' = [work EXCEPT ![w].pc = pc]
  PROVE  DOMAIN work' \subseteq Worker /\ \A v \in DOMAIN work' : work'[v] \in Task
BY DEF TypeOK, Task

LEMMA FaultTyped ==
  TypeOK /\ (Fault \/ UNCHANGED boundVars)
    => faults' \in Nat /\ changes' \in Nat /\ deletions' \in Nat
BY DEF TypeOK, Fault, boundVars

LEMMA AfterUpsertTyped ==
  ASSUME NEW e \in Event, NEW id \in Nat, NEW count, NEW seen
  PROVE  AfterUpsert(e, id, News(count, seen)) \in Task
BY DEF AfterUpsert, News, Task, Kind

-----------------------------------------------------------------------------
LEMMA InitTyped == Init => TypeOK
BY DEF Init, TypeOK, EmptyFunction

\* The step of a worker: one statement of process_inner.
LEMMA WorkerTyped ==
  ASSUME TypeOK, NEW w \in Worker, WorkerStep(w)
  PROVE  TypeOK'
<1> USE DEF TypeOK
<1>1. ASSUME NEW e \in Event, Begin(w, e) PROVE TypeOK'
  <2>1. faults' \in Nat /\ changes' \in Nat /\ deletions' \in Nat
    BY <1>1, FaultTyped DEF Begin
  <2>2. attempts' \in [Event -> Nat]
    BY <1>1 DEF Begin
  <2>3. DOMAIN work' \subseteq Worker /\ \A v \in DOMAIN work' : work'[v] \in Task
    <3> DEFINE seen == IF FingerprintOf[e] \in DOMAIN issues
                       THEN issues[FingerprintOf[e]].status ELSE "absent"
               t == [pc |-> "upsert", event |-> e, seen |-> seen]
    <3>1. seen \in Status \cup {"absent"}
      BY DEF Row
    <3>2. t \in Task
      BY <3>1 DEF Task
    <3>3. work' = Put(work, w, t) \/ work' = work
      BY <1>1 DEF Begin
    <3> HIDE DEF seen, t
    <3> QED
      BY <3>2, <3>3, PutWork
  <2> QED
    BY <1>1, <2>1, <2>2, <2>3 DEF Begin, tableVars, historyVars
<1>2. ASSUME Upsert(w) PROVE TypeOK'
  <2> DEFINE e == work[w].event
             p == FingerprintOf[e]
  <2>1. e \in Event /\ p \in Fingerprint
    BY <1>2, EventsHaveFingerprints DEF Upsert, At, Task
  <2>2. UNCHANGED <<now, events, attempts, settled, updates, unmuted, ignoredAt, torn>>
    BY <1>2 DEF Upsert, queueVars, historyVars
  <2>3. faults' \in Nat /\ changes' \in Nat /\ deletions' \in Nat
    BY <1>2, FaultTyped DEF Upsert
  <2>4. ASSUME p \in DOMAIN issues, issues' = [issues EXCEPT ![p] = CountEvent(@)],
               activity' = activity,
               work' = Put(work, w, AfterUpsert(e, issues[p].id,
                                                News(issues'[p].count, work[w].seen)))
        PROVE  TypeOK'
    <3>1. issues[p] \in Row /\ issues[p].id \in Nat
      BY <2>4 DEF Row
    <3>2. CountEvent(issues[p]) \in Row /\ CountEvent(issues[p]).id = issues[p].id
      BY <3>1, CountedRow
    <3>3. DOMAIN issues' \subseteq Fingerprint /\ \A x \in DOMAIN issues' : issues'[x] \in Row
      BY <2>4, <3>2
    <3>4. DOMAIN activity' = {issues'[x].id : x \in DOMAIN issues'}
      BY <2>4, <3>2
    <3>5. DOMAIN work' \subseteq Worker /\ \A v \in DOMAIN work' : work'[v] \in Task
      BY <2>1, <2>4, <3>1, AfterUpsertTyped, PutWork
    <3> QED
      BY <2>2, <2>3, <2>4, <3>3, <3>4, <3>5
  <2>5. ASSUME p \notin DOMAIN issues, NEW id \in 1..MaxRowid,
               issues' = Put(issues, p, NewIssue(id)), activity' = Put(activity, id, <<>>),
               work' = Put(work, w, AfterUpsert(e, id, News(1, work[w].seen)))
        PROVE  TypeOK'
    <3>1. id \in Nat
      BY IssueNumbersAreNatural
    <3>2. NewIssue(id) \in Row /\ NewIssue(id).id = id
      BY <3>1 DEF NewIssue, Row, Status, Release, Null
    <3>3. DOMAIN issues' \subseteq Fingerprint /\ \A x \in DOMAIN issues' : issues'[x] \in Row
      BY <2>1, <2>5, <3>2 DEF Put
    <3>4. DOMAIN activity' = {issues'[x].id : x \in DOMAIN issues'}
      <4>1. DOMAIN activity' = DOMAIN activity \cup {id}
        BY <2>5 DEF Put
      <4>2. DOMAIN issues' = DOMAIN issues \cup {p} /\ issues'[p].id = id
        BY <2>5, <3>2 DEF Put
      <4>3. \A x \in DOMAIN issues : issues'[x] = issues[x]
        BY <2>5 DEF Put
      <4> QED
        BY <4>1, <4>2, <4>3
    <3>5. \A i \in DOMAIN activity' : activity'[i] \in Seq(Kind)
      BY <2>5 DEF Put
    <3>6. DOMAIN work' \subseteq Worker /\ \A v \in DOMAIN work' : work'[v] \in Task
      BY <2>1, <2>5, <3>1, AfterUpsertTyped, PutWork
    <3> QED
      BY <2>2, <2>3, <3>3, <3>4, <3>5, <3>6
  <2>6. CASE work' = Drop(work, w) /\ UNCHANGED <<issues, activity>>
    BY <2>2, <2>3, <2>6, DropWork
  <2> QED
    BY <1>2, <2>4, <2>5, <2>6 DEF Upsert
<1>3. ASSUME Record(w) PROVE TypeOK'
  <2>1. work[w].event \in Event /\ work[w].id \in Nat /\ work[w].kind \in Kind
    BY <1>3 DEF Record, At, Task
  <2>2. [pc |-> "store", event |-> work[w].event, id |-> work[w].id] \in Task
    BY <2>1 DEF Task
  <2>3. DOMAIN work' \subseteq Worker /\ \A v \in DOMAIN work' : work'[v] \in Task
    BY <1>3, <2>2, PutWork DEF Record
  <2>4. DOMAIN activity' = DOMAIN activity /\ \A i \in DOMAIN activity' : activity'[i] \in Seq(Kind)
    BY <1>3, <2>1, RecordedTyped DEF Record, Ids
  <2>5. faults' \in Nat /\ changes' \in Nat /\ deletions' \in Nat
    BY <1>3, FaultTyped DEF Record
  <2> QED
    BY <1>3, <2>3, <2>4, <2>5 DEF Record, queueVars, historyVars
<1>4. ASSUME Store(w) PROVE TypeOK'
  <2>1. w \in DOMAIN work /\ work[w].pc = "store" /\ work[w].event \in Event /\ work[w].id \in Nat
    BY <1>4 DEF Store, At, Task
  <2>2. DOMAIN work' \subseteq Worker /\ \A v \in DOMAIN work' : work'[v] \in Task
    BY <1>4, <2>1, NextPc, DropWork DEF Store
  <2>3. DOMAIN events' \subseteq Event /\ \A e \in DOMAIN events' : events'[e] \in Nat
    BY <1>4, <2>1 DEF Store, Put
  <2>4. faults' \in Nat /\ changes' \in Nat /\ deletions' \in Nat
    BY <1>4, FaultTyped DEF Store
  <2> QED
    BY <1>4, <2>2, <2>3, <2>4 DEF Store, queueVars, historyVars
<1>5. ASSUME EnsureRelease(w) PROVE TypeOK'
  <2>1. w \in DOMAIN work /\ work[w].pc = "link" /\ VersionOf[work[w].event] \in Version \cup {NoRelease}
    BY <1>5, EventsHaveFingerprints DEF EnsureRelease, At, Task
  <2>2. DOMAIN work' \subseteq Worker /\ \A v \in DOMAIN work' : work'[v] \in Task
    BY <1>5, <2>1, NextPc DEF EnsureRelease
  <2>3. /\ DOMAIN issues' = DOMAIN issues
        /\ \A p \in DOMAIN issues : issues'[p] \in Row /\ issues'[p].id = issues[p].id
    BY <1>5, <2>1, ReleasedRows DEF EnsureRelease
  <2>4. faults' \in Nat /\ changes' \in Nat /\ deletions' \in Nat
    BY <1>5, FaultTyped DEF EnsureRelease
  <2> QED
    BY <1>5, <2>2, <2>3, <2>4, SameIds DEF EnsureRelease, queueVars, historyVars
<1>6. ASSUME Finish(w) PROVE TypeOK'
  <2>1. DOMAIN work' \subseteq Worker /\ \A v \in DOMAIN work' : work'[v] \in Task
    BY <1>6, DropWork DEF Finish
  <2>2. settled' \subseteq Event
    BY <1>6 DEF Finish, At, Task
  <2>3. faults' \in Nat /\ changes' \in Nat /\ deletions' \in Nat
    BY <1>6, FaultTyped DEF Finish
  <2> QED
    BY <1>6, <2>1, <2>2, <2>3 DEF Finish, tableVars, historyVars
<1> QED
  BY <1>1, <1>2, <1>3, <1>4, <1>5, <1>6 DEF WorkerStep

LEMMA AdminTyped ==
  ASSUME TypeOK, NEW a \in Admin, AdminStep(a)
  PROVE  TypeOK'
<1> USE DEF TypeOK
<1>1. ASSUME NEW ids \in SUBSET (1..MaxRowid) \ {{}}, NEW q \in Request, Update(a, ids, q)
      PROVE  TypeOK'
  <2>1. /\ DOMAIN issues' = DOMAIN issues
        /\ \A p \in DOMAIN issues : issues'[p] \in Row /\ issues'[p].id = issues[p].id
    BY <1>1, UpdatedRows
  <2>2. ignoredAt' \in [Fingerprint -> Nat]
    BY <1>1 DEF Update, Row
  <2>3. [ids |-> ids, kind |-> q.status] \in [ids: SUBSET Nat, kind: Status]
    BY IssueNumbersAreNatural DEF Request, Status
  <2>4. /\ DOMAIN updates' \subseteq Admin
        /\ \A b \in DOMAIN updates' : updates'[b] \in [ids: SUBSET Nat, kind: Status]
    BY <1>1, <2>3 DEF Update, Put
  <2>5. DOMAIN activity' = {issues'[p].id : p \in DOMAIN issues'}
    BY <1>1, <2>1, SameIds DEF Update
  <2> QED
    BY <1>1, <2>1, <2>2, <2>4, <2>5 DEF Update, queueVars
<1>2. ASSUME RecordUpdate(a) PROVE TypeOK'
  <2>1. updates[a].kind \in Kind
    BY <1>2 DEF RecordUpdate, Kind
  <2>2. DOMAIN activity' = DOMAIN activity /\ \A i \in DOMAIN activity' : activity'[i] \in Seq(Kind)
    BY <1>2, <2>1, RecordedTyped DEF RecordUpdate, Ids
  <2>3. faults' \in Nat /\ changes' \in Nat /\ deletions' \in Nat
    BY <1>2, FaultTyped DEF RecordUpdate
  <2>4. /\ DOMAIN updates' \subseteq Admin
        /\ \A b \in DOMAIN updates' : updates'[b] \in [ids: SUBSET Nat, kind: Status]
    BY <1>2 DEF RecordUpdate, Drop, Restrict
  <2> QED
    BY <1>2, <2>2, <2>3, <2>4 DEF RecordUpdate, queueVars, historyVars
<1> QED
  BY <1>1, <1>2 DEF AdminStep

LEMMA RemovalTyped ==
  ASSUME TypeOK, NEW ids \in SUBSET Ids, Removal(ids)
  PROVE  TypeOK'
<1> USE DEF TypeOK
<1>1. /\ DOMAIN issues' = {p \in DOMAIN issues : issues[p].id \notin ids}
      /\ \A p \in DOMAIN issues' : issues'[p] = issues[p]
  BY DEF Removal, Remove, Restrict
<1>2. DOMAIN activity' = Ids \ ids /\ \A i \in DOMAIN activity' : activity'[i] = activity[i]
  BY DEF Removal, Remove, Restrict
<1>3. DOMAIN activity' = {issues'[p].id : p \in DOMAIN issues'}
  BY <1>1, <1>2 DEF Ids
<1>4. DOMAIN events' \subseteq Event /\ \A e \in DOMAIN events' : events'[e] \in Nat
  BY DEF Removal, Remove, Null
<1>5. torn' \subseteq Nat
  <2>1. \A v \in DOMAIN work : work[v].pc \in {"record", "store"} => work[v].id \in Nat
    BY DEF Task
  <2> QED
    BY <2>1 DEF Removal, Remove
<1> QED
  BY <1>1, <1>2, <1>3, <1>4, <1>5 DEF Removal, Ids, queueVars

LEMMA TypeStep == TypeOK /\ [Next]_vars => TypeOK'
<1> SUFFICES ASSUME TypeOK, [Next]_vars PROVE TypeOK'
  OBVIOUS
<1> USE DEF TypeOK
<1>1. ASSUME Unmute PROVE TypeOK'
  <2>1. /\ DOMAIN issues' = DOMAIN issues
        /\ \A p \in DOMAIN issues : issues'[p] \in Row /\ issues'[p].id = issues[p].id
    BY <1>1, UnmutedRows
  <2>2. DOMAIN activity' = {issues'[p].id : p \in DOMAIN issues'}
    BY <1>1, <2>1, SameIds DEF Unmute
  <2>3. unmuted' \subseteq Nat
    <3>1. \A p \in DOMAIN issues : issues[p].id \in Nat
      BY DEF Row
    <3> QED
      BY <1>1, <3>1 DEF Unmute
  <2> QED
    BY <1>1, <2>1, <2>2, <2>3 DEF Unmute, queueVars, historyVars, boundVars
<1>2. ASSUME RecordUnmuted PROVE TypeOK'
  <2>1. DOMAIN activity' = DOMAIN activity /\ \A i \in DOMAIN activity' : activity'[i] \in Seq(Kind)
    BY <1>2, RecordedTyped DEF RecordUnmuted, Ids, Kind
  <2>2. faults' \in Nat /\ changes' \in Nat /\ deletions' \in Nat
    BY <1>2, FaultTyped DEF RecordUnmuted
  <2> QED
    BY <1>2, <2>1, <2>2 DEF RecordUnmuted, queueVars, historyVars
<1>3. ASSUME NEW v \in Version, AssociateProject(v) PROVE TypeOK'
  <2>1. /\ DOMAIN issues' = DOMAIN issues
        /\ \A p \in DOMAIN issues : issues'[p] \in Row /\ issues'[p].id = issues[p].id
    BY <1>3, ReleasedRows DEF AssociateProject
  <2>2. faults' \in Nat /\ changes' \in Nat /\ deletions' \in Nat
    BY <1>3, FaultTyped DEF AssociateProject
  <2> QED
    BY <1>3, <2>1, <2>2, SameIds DEF AssociateProject, queueVars, historyVars
<1>4. ASSUME NEW ids \in SUBSET Ids, Removal(ids) PROVE TypeOK'
  BY <1>4, RemovalTyped
<1>5. ASSUME NEW e \in Event, ExpireEvent(e) PROVE TypeOK'
  BY <1>5 DEF ExpireEvent, Drop, Restrict, queueVars, historyVars, boundVars
<1>6. ASSUME Tick PROVE TypeOK'
  BY <1>6 DEF Tick, tableVars, queueVars, historyVars, boundVars
<1>7. ASSUME Crash PROVE TypeOK'
  BY <1>7 DEF Crash, Fault, EmptyFunction, tableVars, queueVars, historyVars
<1>8. CASE UNCHANGED vars
  BY <1>8 DEF vars, tableVars, queueVars, historyVars, boundVars
<1> QED
  BY <1>1, <1>2, <1>3, <1>4, <1>5, <1>6, <1>7, <1>8, WorkerTyped, AdminTyped
     DEF Next, Delete, PurgeIssues

\* Every reachable state is well typed; in particular the activity table holds
\* records of the issues that exist and of no others.
THEOREM IssueTypeCorrect == Spec => []TypeOK
<1> QED
  BY InitTyped, TypeStep, PTL DEF Spec

-----------------------------------------------------------------------------
\* The columns of an issue.

RowAgrees(r, at) ==
  /\ r.until # Null \/ r.threshold # Null => r.status = "ignored"
  /\ r.release # NoRelease => r.status = "resolved"
  /\ r.status = "ignored" /\ r.threshold # Null => r.count < r.threshold \/ r.count = at

RowsAgree == \A p \in DOMAIN issues : RowAgrees(issues[p], ignoredAt[p])

LEMMA CountedAgrees ==
  ASSUME NEW r \in Row, NEW at, RowAgrees(r, at)
  PROVE  RowAgrees(CountEvent(r), at)
<1>1. CASE Reopened(r)
  <2>1. /\ CountEvent(r).until = Null /\ CountEvent(r).threshold = Null
        /\ CountEvent(r).status = "unresolved"
        /\ CountEvent(r).release = IF r.status = "resolved" THEN NoRelease ELSE r.release
    BY <1>1 DEF CountEvent, Row
  <2> QED
    BY <2>1 DEF RowAgrees
<1>2. CASE ~Reopened(r)
  <2>1. CountEvent(r) = [r EXCEPT !.count = r.count + 1]
    BY <1>2 DEF CountEvent
  <2>2. r.status = "ignored" /\ r.threshold # Null => r.count + 1 < r.threshold
    BY <1>2 DEF Reopened, ReachesThreshold, Row
  <2> QED
    BY <2>1, <2>2 DEF RowAgrees, Row
<1> QED
  BY <1>1, <1>2

LEMMA ReleasedAgree ==
  ASSUME TypeOK, RowsAgree, NEW v, issues' = ResolvedIn(v), ignoredAt' = ignoredAt
  PROVE  RowsAgree'
BY DEF TypeOK, RowsAgree, RowAgrees, ResolvedIn, Row

LEMMA RowsStep == TypeOK /\ RowsAgree /\ [Next]_vars => RowsAgree'
<1> SUFFICES ASSUME TypeOK, RowsAgree, [Next]_vars PROVE RowsAgree'
  OBVIOUS
<1>1. ASSUME issues' = issues, ignoredAt' = ignoredAt PROVE RowsAgree'
  BY <1>1 DEF RowsAgree
<1>2. ASSUME NEW w \in Worker, Upsert(w) PROVE RowsAgree'
  <2> DEFINE p == FingerprintOf[work[w].event]
  <2>1. ignoredAt' = ignoredAt
    BY <1>2 DEF Upsert, historyVars
  <2>2. CASE p \in DOMAIN issues /\ issues' = [issues EXCEPT ![p] = CountEvent(@)]
    BY <2>1, <2>2, CountedAgrees DEF RowsAgree, TypeOK
  <2>3. ASSUME NEW id, p \notin DOMAIN issues, issues' = Put(issues, p, NewIssue(id))
        PROVE  RowsAgree'
    <3>1. RowAgrees(NewIssue(id), ignoredAt[p])
      BY DEF RowAgrees, NewIssue
    <3> QED
      BY <2>1, <2>3, <3>1 DEF RowsAgree, Put
  <2> QED
    BY <1>1, <1>2, <2>1, <2>2, <2>3 DEF Upsert
<1>3. ASSUME NEW w \in Worker, EnsureRelease(w) PROVE RowsAgree'
  BY <1>1, <1>3, ReleasedAgree DEF EnsureRelease, historyVars
<1>4. ASSUME NEW w \in Worker, WorkerStep(w) PROVE RowsAgree'
  BY <1>1, <1>2, <1>3, <1>4
     DEF WorkerStep, Begin, Record, Store, Finish, tableVars, historyVars
<1>5. ASSUME NEW a, NEW ids, NEW q \in Request, Update(a, ids, q) PROVE RowsAgree'
  <2> SUFFICES ASSUME NEW p \in DOMAIN issues' PROVE RowAgrees(issues'[p], ignoredAt'[p])
    BY DEF RowsAgree
  <2>1. p \in DOMAIN issues /\ p \in Fingerprint /\ issues[p] \in Row
        /\ RowAgrees(issues[p], ignoredAt[p])
    BY <1>5 DEF Update, TypeOK, RowsAgree
  <2>2. CASE issues[p].id \in ids
    <3>1. /\ issues'[p] = Requested(issues[p], q)
          /\ q.status = "ignored" => ignoredAt'[p] = issues[p].count
      BY <1>5, <2>1, <2>2 DEF Update
    <3>2. /\ q.until # Null \/ q.threshold # Null => q.status = "ignored"
          /\ q.release # NoRelease => q.status = "resolved"
      BY DEF Request
    <3> QED
      BY <3>1, <3>2 DEF RowAgrees, Requested
  <2>3. CASE issues[p].id \notin ids
    BY <1>5, <2>1, <2>3 DEF Update
  <2> QED
    BY <2>2, <2>3
<1>6. ASSUME NEW a \in Admin, AdminStep(a) PROVE RowsAgree'
  BY <1>1, <1>5, <1>6 DEF AdminStep, RecordUpdate, historyVars
<1>7. ASSUME Unmute PROVE RowsAgree'
  <2> SUFFICES ASSUME NEW p \in DOMAIN issues' PROVE RowAgrees(issues'[p], ignoredAt'[p])
    BY DEF RowsAgree
  <2>1. /\ p \in DOMAIN issues /\ issues[p] \in Row /\ ignoredAt' = ignoredAt
        /\ RowAgrees(issues[p], ignoredAt[p])
    BY <1>7 DEF Unmute, TypeOK, RowsAgree, historyVars
  <2>2. CASE Due(issues[p])
    <3>1. /\ issues'[p].until = Null /\ issues'[p].threshold = Null
          /\ issues'[p].status = "unresolved" /\ issues'[p].release = issues[p].release
      BY <1>7, <2>1, <2>2 DEF Unmute, Row
    <3> QED
      BY <2>1, <2>2, <3>1 DEF RowAgrees, Due
  <2>3. CASE ~Due(issues[p])
    BY <1>7, <2>1, <2>3 DEF Unmute
  <2> QED
    BY <2>2, <2>3
<1>8. ASSUME NEW v, AssociateProject(v) PROVE RowsAgree'
  BY <1>1, <1>8, ReleasedAgree DEF AssociateProject, historyVars
<1>9. ASSUME NEW ids, Removal(ids) PROVE RowsAgree'
  BY <1>9 DEF Removal, Remove, Restrict, RowsAgree
<1>10. ASSUME RecordUnmuted \/ (\E e \in Event : ExpireEvent(e)) \/ Tick \/ Crash \/ UNCHANGED vars
       PROVE  RowsAgree'
  BY <1>1, <1>10 DEF RecordUnmuted, ExpireEvent, Tick, Crash, vars, tableVars, historyVars
<1> QED
  BY <1>4, <1>6, <1>7, <1>8, <1>9, <1>10 DEF Next, Delete, PurgeIssues

LEMMA RowsCorrect == Spec => [](TypeOK /\ RowsAgree)
<1>1. Init => RowsAgree
  BY DEF Init, RowsAgree, EmptyFunction
<1> QED
  BY InitTyped, TypeStep, RowsStep, <1>1, PTL DEF Spec

\* Snooze conditions belong to ignored issues and releases to resolved ones, in
\* every interleaving of the workers, the administrators and the snooze task.
THEOREM FieldsMatchStatusHolds == Spec => []FieldsMatchStatus
<1>1. RowsAgree => FieldsMatchStatus
  BY DEF RowsAgree, RowAgrees, FieldsMatchStatus
<1> QED
  BY RowsCorrect, <1>1, PTL

\* An issue that was sent events since it was ignored is below its threshold.
THEOREM ThresholdHonouredHolds == Spec => []ThresholdHonoured
<1>1. RowsAgree => ThresholdHonoured
  BY DEF RowsAgree, RowAgrees, ThresholdHonoured
<1> QED
  BY RowsCorrect, <1>1, PTL

-----------------------------------------------------------------------------
\* Events and their issues.  A row id that nobody tore away from its user is
\* the id of the issue with the user's fingerprint.

OnIssue(i, e) ==
  FingerprintOf[e] \in DOMAIN issues /\ issues[FingerprintOf[e]].id = i

IdsDistinct ==
  /\ \A p, q \in DOMAIN issues : issues[p].id = issues[q].id => p = q
  /\ \A p \in DOMAIN issues : issues[p].id # Null

Holding(w) == w \in DOMAIN work /\ work[w].pc \in {"record", "store"}

HeldOnIssue ==
  \A w \in DOMAIN work :
    Holding(w) => work[w].id \in torn \/ OnIssue(work[w].id, work[w].event)

PlaceInv == IdsDistinct /\ HeldOnIssue /\ EventsOnTheirIssue

\* A step that keeps the ids of the issues keeps events and holders in place.
LEMMA PlaceKept ==
  ASSUME PlaceInv, DOMAIN issues' = DOMAIN issues,
         \A p \in DOMAIN issues : issues'[p].id = issues[p].id,
         torn' = torn,
         \A e \in DOMAIN events' : \/ e \in DOMAIN events /\ events'[e] = events[e]
                                   \/ events'[e] \in torn \/ OnIssue(events'[e], e),
         \A w \in DOMAIN work' : Holding(w)' =>
           \/ Holding(w) /\ work'[w].id = work[w].id /\ work'[w].event = work[w].event
           \/ OnIssue(work'[w].id, work'[w].event)
  PROVE  PlaceInv'
<1>1. \A i, e : OnIssue(i, e) => OnIssue(i, e)'
  BY DEF OnIssue
<1>2. IdsDistinct'
  BY DEF PlaceInv, IdsDistinct
<1>3. HeldOnIssue'
  <2> SUFFICES ASSUME NEW w \in DOMAIN work', Holding(w)'
               PROVE  (work[w].id \in torn \/ OnIssue(work[w].id, work[w].event))'
    BY DEF HeldOnIssue
  <2>1. CASE Holding(w) /\ work'[w].id = work[w].id /\ work'[w].event = work[w].event
    <3>1. w \in DOMAIN work
      BY <2>1 DEF Holding
    <3>2. work[w].id \in torn \/ OnIssue(work[w].id, work[w].event)
      BY <2>1, <3>1 DEF PlaceInv, HeldOnIssue
    <3> QED
      BY <2>1, <3>2 DEF OnIssue
  <2>2. CASE OnIssue(work'[w].id, work'[w].event)
    BY <2>2 DEF OnIssue
  <2> QED
    BY <2>1, <2>2
<1>4. EventsOnTheirIssue'
  BY DEF PlaceInv, EventsOnTheirIssue, OnIssue
<1> QED
  BY <1>2, <1>3, <1>4 DEF PlaceInv

\* The step of a worker that inserts an issue: its id is larger than all others.
LEMMA PlaceInserted ==
  ASSUME TypeOK, PlaceInv, NEW w \in Worker, At(w, "upsert"),
         NEW id \in 1..MaxRowid, IsNextId(id), NEW news,
         FingerprintOf[work[w].event] \notin DOMAIN issues,
         issues' = Put(issues, FingerprintOf[work[w].event], NewIssue(id)),
         work' = Put(work, w, AfterUpsert(work[w].event, id, news)),
         events' = events, torn' = torn
  PROVE  PlaceInv'
<1> DEFINE p == FingerprintOf[work[w].event]
<1>1. id \in Nat /\ id # Null /\ \A q \in DOMAIN issues : issues[q].id \in Nat /\ issues[q].id < id
  BY IssueNumbersAreNatural DEF IsNextId, Ids, TypeOK, Row, Null
<1>2. /\ DOMAIN issues' = DOMAIN issues \cup {p} /\ issues'[p].id = id
      /\ \A q \in DOMAIN issues : issues'[q] = issues[q]
  BY DEF Put, NewIssue
<1>3. /\ DOMAIN work' = DOMAIN work
      /\ \A v \in DOMAIN work \ {w} : work'[v] = work[v]
      /\ work'[w].id = id /\ work'[w].event = work[w].event
  BY DEF Put, At, AfterUpsert
<1>4. \A i, e : OnIssue(i, e) => OnIssue(i, e)'
  BY <1>2 DEF OnIssue
<1>5. IdsDistinct'
  BY <1>1, <1>2 DEF PlaceInv, IdsDistinct
<1>6. HeldOnIssue'
  <2> SUFFICES ASSUME NEW v \in DOMAIN work', Holding(v)'
               PROVE  (work[v].id \in torn \/ OnIssue(work[v].id, work[v].event))'
    BY DEF HeldOnIssue
  <2>1. CASE v = w
    BY <1>2, <1>3, <2>1 DEF OnIssue
  <2>2. CASE v # w
    <3>1. work[v].id \in torn \/ OnIssue(work[v].id, work[v].event)
      BY <1>3, <2>2 DEF PlaceInv, HeldOnIssue, Holding
    <3> QED
      BY <1>2, <1>3, <2>2, <3>1 DEF OnIssue
  <2> QED
    BY <2>1, <2>2
<1>7. EventsOnTheirIssue'
  BY <1>2 DEF PlaceInv, EventsOnTheirIssue
<1> QED
  BY <1>5, <1>6, <1>7 DEF PlaceInv

\* A deletion clears the events of the deleted issues and tears their ids away
\* from the workers that hold them.
LEMMA PlaceRemoved ==
  ASSUME TypeOK, PlaceInv, NEW ids, Removal(ids)
  PROVE  PlaceInv'
<1>1. /\ DOMAIN issues' = {p \in DOMAIN issues : issues[p].id \notin ids}
      /\ \A p \in DOMAIN issues' : issues'[p] = issues[p]
      /\ work' = work /\ torn \subseteq torn'
  BY DEF Removal, Remove, Restrict
<1>2. IdsDistinct'
  BY <1>1 DEF PlaceInv, IdsDistinct
<1>3. \A i, e : i \notin ids /\ OnIssue(i, e) => OnIssue(i, e)'
  BY <1>1 DEF OnIssue
<1>4. HeldOnIssue'
  <2> SUFFICES ASSUME NEW w \in DOMAIN work, Holding(w)
               PROVE  work[w].id \in torn' \/ OnIssue(work[w].id, work[w].event)'
    BY <1>1 DEF HeldOnIssue, Holding, OnIssue
  <2>1. CASE work[w].id \in ids
    BY <2>1 DEF Removal, Remove, Holding
  <2>2. CASE work[w].id \notin ids
    BY <1>1, <1>3, <2>2 DEF PlaceInv, HeldOnIssue, OnIssue
  <2> QED
    BY <2>1, <2>2
<1>5. EventsOnTheirIssue'
  <2>1. /\ DOMAIN events' = DOMAIN events
        /\ \A e \in DOMAIN events : events'[e] = IF events[e] \in ids THEN Null ELSE events[e]
    BY DEF Removal, Remove
  <2> QED
    BY <1>1, <2>1 DEF PlaceInv, EventsOnTheirIssue
<1> QED
  BY <1>2, <1>4, <1>5 DEF PlaceInv

LEMMA PlaceWorker ==
  ASSUME TypeOK, PlaceInv, NEW w \in Worker, WorkerStep(w)
  PROVE  PlaceInv'
<1>1. ASSUME NEW e \in Event, Begin(w, e) PROVE PlaceInv'
  <2>1. /\ issues' = issues /\ events' = events /\ torn' = torn
    BY <1>1 DEF Begin, tableVars, historyVars
  <2>2. \A v \in DOMAIN work' : Holding(v)' => Holding(v) /\ work'[v] = work[v]
    BY <1>1 DEF Begin, Put, Holding
  <2> QED
    BY <2>1, <2>2, PlaceKept
<1>2. ASSUME Upsert(w) PROVE PlaceInv'
  <2> DEFINE e == work[w].event
             p == FingerprintOf[e]
  <2>1. At(w, "upsert") /\ events' = events /\ torn' = torn
    BY <1>2 DEF Upsert, historyVars
  <2>2. ASSUME p \in DOMAIN issues, issues' = [issues EXCEPT ![p] = CountEvent(@)],
               NEW news, work' = Put(work, w, AfterUpsert(e, issues[p].id, news))
        PROVE  PlaceInv'
    <3>1. CountEvent(issues[p]).id = issues[p].id
      BY <2>2, CountedRow DEF TypeOK
    <3>2. /\ DOMAIN issues' = DOMAIN issues
          /\ \A q \in DOMAIN issues : issues'[q].id = issues[q].id
      BY <2>2, <3>1
    <3>3. OnIssue(work'[w].id, work'[w].event)
      BY <2>2 DEF OnIssue, Put, AfterUpsert
    <3>4. \A v \in DOMAIN work' \ {w} : v \in DOMAIN work /\ work'[v] = work[v]
      BY <2>2 DEF Put
    <3> QED
      BY <2>1, <3>2, <3>3, <3>4, PlaceKept DEF Holding
  <2>3. ASSUME p \notin DOMAIN issues, NEW id \in 1..MaxRowid, IsNextId(id), NEW news,
               issues' = Put(issues, p, NewIssue(id)),
               work' = Put(work, w, AfterUpsert(e, id, news))
        PROVE  PlaceInv'
    BY <2>1, <2>3, PlaceInserted
  <2>4. CASE work' = Drop(work, w) /\ issues' = issues
    <3>1. \A v \in DOMAIN work' : v \in DOMAIN work /\ work'[v] = work[v]
      BY <2>4 DEF Drop, Restrict
    <3> QED
      BY <2>1, <2>4, <3>1, PlaceKept DEF Holding
  <2> QED
    BY <1>2, <2>2, <2>3, <2>4 DEF Upsert
<1>3. ASSUME Record(w) PROVE PlaceInv'
  <2>1. issues' = issues /\ events' = events /\ torn' = torn
    BY <1>3 DEF Record, historyVars
  <2>2. /\ Holding(w) /\ work'[w].id = work[w].id /\ work'[w].event = work[w].event
        /\ \A v \in DOMAIN work' \ {w} : v \in DOMAIN work /\ work'[v] = work[v]
    BY <1>3 DEF Record, At, Put, Holding
  <2> QED
    BY <2>1, <2>2, PlaceKept DEF Holding
<1>4. ASSUME Store(w) PROVE PlaceInv'
  <2>1. issues' = issues /\ torn' = torn
    BY <1>4 DEF Store, historyVars
  <2>2. \A v \in DOMAIN work' : Holding(v)' => Holding(v) /\ work'[v] = work[v]
    <3>1. CASE work' = Drop(work, w)
      BY <3>1 DEF Drop, Restrict, Holding
    <3>2. CASE \E pc \in {"finish", "link"} : work' = [work EXCEPT ![w].pc = pc]
      <4>1. /\ w \in DOMAIN work /\ DOMAIN work' = DOMAIN work
            /\ \A v \in DOMAIN work \ {w} : work'[v] = work[v]
        BY <1>4, <3>2 DEF Store, At
      <4>2. work[w] \in Task
        BY <4>1 DEF TypeOK
      <4>3. work'[w].pc \notin {"record", "store"}
        BY <3>2, <4>1, <4>2 DEF Task
      <4> QED
        BY <4>1, <4>3 DEF Holding
    <3> QED
      BY <1>4, <3>1, <3>2 DEF Store
  <2>3. work[w].id \in torn \/ OnIssue(work[w].id, work[w].event)
    BY <1>4 DEF Store, At, Holding, PlaceInv, HeldOnIssue
  <2>4. \A e \in DOMAIN events' : \/ e \in DOMAIN events /\ events'[e] = events[e]
                                  \/ e = work[w].event /\ events'[e] = work[w].id
    BY <1>4 DEF Store, Put
  <2> QED
    BY <2>1, <2>2, <2>3, <2>4, PlaceKept
<1>5. ASSUME EnsureRelease(w) PROVE PlaceInv'
  <2>1. VersionOf[work[w].event] \in Version \cup {NoRelease}
    BY <1>5, EventsHaveFingerprints DEF EnsureRelease, At, Task, TypeOK
  <2>2. DOMAIN issues' = DOMAIN issues /\ \A p \in DOMAIN issues : issues'[p].id = issues[p].id
    BY <1>5, <2>1, ReleasedRows DEF EnsureRelease
  <2>3. \A v \in DOMAIN work' : Holding(v)' => Holding(v) /\ work'[v] = work[v]
    BY <1>5 DEF EnsureRelease, At, Holding, TypeOK, Task
  <2>4. events' = events /\ torn' = torn
    BY <1>5 DEF EnsureRelease, historyVars
  <2> QED
    BY <2>2, <2>3, <2>4, PlaceKept
<1>6. ASSUME Finish(w) PROVE PlaceInv'
  <2>1. \A v \in DOMAIN work' : Holding(v)' => Holding(v) /\ work'[v] = work[v]
    BY <1>6 DEF Finish, Drop, Restrict, Holding
  <2> QED
    BY <1>6, <2>1, PlaceKept DEF Finish, tableVars, historyVars
<1> QED
  BY <1>1, <1>2, <1>3, <1>4, <1>5, <1>6 DEF WorkerStep

LEMMA PlaceStep == TypeOK /\ PlaceInv /\ [Next]_vars => PlaceInv'
<1> SUFFICES ASSUME TypeOK, PlaceInv, [Next]_vars PROVE PlaceInv'
  OBVIOUS
<1>1. ASSUME DOMAIN issues' = DOMAIN issues,
             \A p \in DOMAIN issues : issues'[p].id = issues[p].id,
             events' = events, torn' = torn, work' = work
      PROVE  PlaceInv'
  BY <1>1, PlaceKept DEF Holding
<1>2. ASSUME NEW a \in Admin, AdminStep(a) PROVE PlaceInv'
  <2>1. ASSUME NEW ids, NEW q \in Request, Update(a, ids, q) PROVE PlaceInv'
    BY <1>1, <2>1, UpdatedRows DEF Update
  <2>2. ASSUME RecordUpdate(a) PROVE PlaceInv'
    BY <1>1, <2>2 DEF RecordUpdate, historyVars
  <2> QED
    BY <1>2, <2>1, <2>2 DEF AdminStep
<1>3. ASSUME Unmute PROVE PlaceInv'
  BY <1>1, <1>3, UnmutedRows DEF Unmute, historyVars
<1>4. ASSUME RecordUnmuted PROVE PlaceInv'
  BY <1>1, <1>4 DEF RecordUnmuted, historyVars
<1>5. ASSUME NEW v \in Version, AssociateProject(v) PROVE PlaceInv'
  BY <1>1, <1>5, ReleasedRows DEF AssociateProject, historyVars
<1>6. ASSUME NEW e \in Event, ExpireEvent(e) PROVE PlaceInv'
  <2>1. \A d \in DOMAIN events' : d \in DOMAIN events /\ events'[d] = events[d]
    BY <1>6 DEF ExpireEvent, Drop, Restrict
  <2> QED
    BY <1>6, <2>1, PlaceKept DEF ExpireEvent, historyVars, Holding
<1>7. ASSUME Tick PROVE PlaceInv'
  BY <1>1, <1>7 DEF Tick, tableVars, historyVars
<1>8. ASSUME Crash PROVE PlaceInv'
  <2>1. DOMAIN work' = {}
    BY <1>8 DEF Crash, EmptyFunction
  <2> QED
    BY <1>8, <2>1, PlaceKept DEF Crash, tableVars, historyVars
<1>9. CASE UNCHANGED vars
  BY <1>1, <1>9 DEF vars, tableVars, historyVars
<1> QED
  BY <1>2, <1>3, <1>4, <1>5, <1>6, <1>7, <1>8, <1>9, PlaceWorker, PlaceRemoved
     DEF Next, Delete, PurgeIssues

\* Row ids come back and workers use them in later statements, but an event ends
\* on an issue that is not its own only over an id torn away from its worker.
THEOREM EventsOnTheirIssueHolds == Spec => []EventsOnTheirIssue
<1>1. Init => PlaceInv
  BY DEF Init, PlaceInv, IdsDistinct, HeldOnIssue, EventsOnTheirIssue, EmptyFunction
<1>2. PlaceInv => EventsOnTheirIssue
  BY DEF PlaceInv
<1> QED
  BY InitTyped, TypeStep, PlaceStep, <1>1, <1>2, PTL DEF Spec

-----------------------------------------------------------------------------
\* Counts.  The events of an issue and the events whose workers hold it are
\* charged to it; none of them is charged before it is counted.

HoldersOf(i) == {w \in DOMAIN work : Holding(w) /\ work[w].id = i}
Charged(i) == {e \in DOMAIN events : events[e] = i} \cup {work[w].event : w \in HoldersOf(i)}

WorkersApart == \A v, w \in DOMAIN work : work[v].event = work[w].event => v = w

Bounded(S, n) == IsFiniteSet(S) /\ Cardinality(S) <= n

ChargeInv ==
  /\ WorkersApart
  /\ \A p \in DOMAIN issues :
       issues[p].id \notin torn => Bounded(Charged(issues[p].id), issues[p].count)

LEMMA BoundedSubset ==
  ASSUME NEW S, NEW m \in Nat, NEW n \in Nat, m <= n, Bounded(S, m), NEW T \in SUBSET S
  PROVE  Bounded(T, n)
<1>1. IsFiniteSet(T) /\ Cardinality(T) <= Cardinality(S)
  BY FS_Subset DEF Bounded
<1>2. Cardinality(S) \in Nat /\ Cardinality(T) \in Nat
  BY <1>1, FS_CardinalityType DEF Bounded
<1> QED
  BY <1>1, <1>2 DEF Bounded

LEMMA BoundedAdd ==
  ASSUME NEW S, NEW n \in Nat, Bounded(S, n), NEW x, NEW T \in SUBSET (S \cup {x})
  PROVE  Bounded(T, n + 1)
<1>1. Cardinality(S) \in Nat
  BY FS_CardinalityType DEF Bounded
<1>2. Bounded(S \cup {x}, n + 1)
  BY <1>1, FS_AddElement DEF Bounded
<1> QED
  BY <1>2, BoundedSubset

\* Nothing is charged to an id that no issue has and nobody lost.
LEMMA NothingCharged ==
  ASSUME TypeOK, PlaceInv, NEW i, i \notin Ids \cup torn \cup {Null}
  PROVE  Charged(i) = {}
BY DEF Charged, HoldersOf, Ids, TypeOK, PlaceInv, HeldOnIssue, EventsOnTheirIssue, OnIssue

\* A step that keeps the ids of the issues, counts no event and charges none.
LEMMA ChargeKept ==
  ASSUME TypeOK, TypeOK', ChargeInv, torn \subseteq torn',
         DOMAIN issues' \subseteq DOMAIN issues,
         \A p \in DOMAIN issues' : issues'[p].id = issues[p].id /\ issues'[p].count = issues[p].count,
         \A p \in DOMAIN issues' : Charged(issues[p].id)' \subseteq Charged(issues[p].id),
         \A w \in DOMAIN work' : w \in DOMAIN work /\ work'[w].event = work[w].event
  PROVE  ChargeInv'
<1>1. WorkersApart'
  BY DEF ChargeInv, WorkersApart
<1>2. ASSUME NEW p \in DOMAIN issues', issues'[p].id \notin torn'
      PROVE  Bounded(Charged(issues[p].id), issues[p].count)'
  <2>1. /\ p \in DOMAIN issues /\ issues[p].id \notin torn
        /\ issues'[p].id = issues[p].id /\ issues'[p].count = issues[p].count
    BY <1>2
  <2>2. issues[p].count \in Nat /\ Bounded(Charged(issues[p].id), issues[p].count)
    BY <2>1 DEF ChargeInv, TypeOK, Row
  <2>3. Charged(issues[p].id)' \in SUBSET Charged(issues[p].id)
    BY <1>2
  <2>4. Bounded(Charged(issues[p].id)', issues[p].count)
    BY <2>2, <2>3, BoundedSubset
  <2> QED
    BY <2>1, <2>4 DEF Bounded
<1> QED
  BY <1>1, <1>2 DEF ChargeInv

\* An event is charged as it is counted, to the issue that counts it.
LEMMA ChargeCounted ==
  ASSUME TypeOK, PlaceInv, ChargeInv, NEW w \in Worker, Upsert(w), work' # Drop(work, w)
  PROVE  ChargeInv'
<1> DEFINE e == work[w].event
           p == FingerprintOf[e]
           i == issues'[p].id
<1>1. At(w, "upsert") /\ w \in DOMAIN work /\ events' = events /\ torn' = torn
  BY DEF Upsert, At, historyVars
<1>2. /\ p \in DOMAIN issues'
      /\ DOMAIN issues' = DOMAIN issues \cup {p}
      /\ \A q \in DOMAIN issues \ {p} : issues'[q] = issues[q]
      /\ p \in DOMAIN issues => i = issues[p].id /\ issues'[p].count = issues[p].count + 1
      /\ p \notin DOMAIN issues =>
           i \notin Ids /\ i # Null /\ issues'[p].count = 1
      /\ \A q \in DOMAIN issues' \ {p} : issues'[q].id # i
  <2>1. CASE p \in DOMAIN issues
    <3>1. issues' = [issues EXCEPT ![p] = CountEvent(@)]
      BY <2>1 DEF Upsert
    <3>2. CountEvent(issues[p]).id = issues[p].id /\ CountEvent(issues[p]).count = issues[p].count + 1
      BY <2>1, CountedRow DEF TypeOK
    <3> QED
      BY <2>1, <3>1, <3>2 DEF PlaceInv, IdsDistinct
  <2>2. CASE p \notin DOMAIN issues
    <3>1. PICK id \in 1..MaxRowid : IsNextId(id) /\ issues' = Put(issues, p, NewIssue(id))
      BY <2>2 DEF Upsert
    <3>2. id \in Nat /\ id # Null /\ id \notin Ids
      BY <3>1, IssueNumbersAreNatural DEF IsNextId, Null
    <3>3. \A q \in DOMAIN issues : issues[q].id \in Ids
      BY DEF Ids, TypeOK
    <3>4. /\ DOMAIN issues' = DOMAIN issues \cup {p} /\ issues'[p] = NewIssue(id)
          /\ \A q \in DOMAIN issues : issues'[q] = issues[q]
      BY <2>2, <3>1 DEF Put
    <3>5. i = id /\ issues'[p].count = 1
      BY <3>4 DEF NewIssue
    <3> HIDE DEF i, p
    <3> QED
      BY <2>2, <3>2, <3>3, <3>4, <3>5
  <2> QED
    BY <2>1, <2>2
<1>3. /\ DOMAIN work' = DOMAIN work
      /\ \A v \in DOMAIN work \ {w} : work'[v] = work[v]
      /\ work'[w].event = e /\ work'[w].id = i
  <2>1. \E news : work' = Put(work, w, AfterUpsert(e, i, news))
    <3>1. CASE p \in DOMAIN issues
      BY <1>2, <3>1 DEF Upsert
    <3>2. CASE p \notin DOMAIN issues
      <4>1. PICK id \in 1..MaxRowid :
              /\ issues' = Put(issues, p, NewIssue(id))
              /\ work' = Put(work, w, AfterUpsert(e, id, News(1, work[w].seen)))
        BY <3>2 DEF Upsert
      <4>2. i = id
        BY <4>1 DEF Put, NewIssue
      <4> QED
        BY <4>1, <4>2
    <3> QED
      BY <3>1, <3>2
  <2> QED
    BY <1>1, <2>1 DEF Put, AfterUpsert
<1>4. WorkersApart'
  BY <1>1, <1>3 DEF ChargeInv, WorkersApart
<1>5. \A j : Charged(j)' \subseteq Charged(j) \cup (IF j = i THEN {e} ELSE {})
  BY <1>1, <1>3 DEF Charged, HoldersOf, Holding
<1>6. ASSUME NEW q \in DOMAIN issues', issues'[q].id \notin torn'
      PROVE  Bounded(Charged(issues[q].id), issues[q].count)'
  <2>1. CASE q # p
    <3>1. q \in DOMAIN issues /\ issues'[q] = issues[q] /\ issues[q].id \notin torn
      BY <1>1, <1>2, <1>6, <2>1
    <3>2. issues[q].count \in Nat /\ Bounded(Charged(issues[q].id), issues[q].count)
      BY <3>1 DEF ChargeInv, TypeOK, Row
    <3>3. Charged(issues[q].id)' \in SUBSET Charged(issues[q].id)
      BY <1>2, <1>5, <2>1, <3>1
    <3>4. Bounded(Charged(issues[q].id)', issues[q].count)
      BY <3>2, <3>3, BoundedSubset
    <3> QED
      BY <3>1, <3>4 DEF Bounded
  <2>2. CASE q = p /\ p \in DOMAIN issues
    <3>1. issues'[q].count = issues[p].count + 1 /\ i = issues[p].id /\ i \notin torn
      BY <1>1, <1>2, <1>6, <2>2
    <3>2. issues[p].count \in Nat /\ Bounded(Charged(i), issues[p].count)
      BY <2>2, <3>1 DEF ChargeInv, TypeOK, Row
    <3>3. Charged(issues[q].id)' \in SUBSET (Charged(i) \cup {e})
      BY <1>5, <2>2
    <3>4. Bounded(Charged(issues[q].id)', issues[p].count + 1)
      <4> HIDE DEF i, e
      <4> QED
        BY <3>2, <3>3, BoundedAdd
    <3> QED
      BY <3>1, <3>4 DEF Bounded
  <2>3. CASE q = p /\ p \notin DOMAIN issues
    <3>1. i \notin Ids \cup torn \cup {Null} /\ issues'[q].count = 1
      BY <1>1, <1>2, <1>6, <2>3
    <3>2. Charged(i) = {}
      BY <3>1, NothingCharged
    <3>3. Charged(issues[q].id)' \in SUBSET (Charged(i) \cup {e})
      BY <1>5, <2>3
    <3>4. Bounded(Charged(i), 0)
      BY <3>2, FS_EmptySet DEF Bounded
    <3>5. Bounded(Charged(issues[q].id)', 0 + 1)
      <4> HIDE DEF i, e
      <4> QED
        BY <3>3, <3>4, BoundedAdd
    <3> QED
      BY <3>1, <3>5 DEF Bounded
  <2> QED
    BY <2>1, <2>2, <2>3
<1> QED
  BY <1>4, <1>6 DEF ChargeInv

LEMMA ChargeStep == TypeOK /\ PlaceInv /\ ChargeInv /\ [Next]_vars => ChargeInv'
<1> SUFFICES ASSUME TypeOK, PlaceInv, ChargeInv, [Next]_vars PROVE ChargeInv'
  OBVIOUS
<1>0. TypeOK'
  BY TypeStep
<1>1. ASSUME DOMAIN issues' = DOMAIN issues, torn' = torn, events' = events, work' = work,
             \A p \in DOMAIN issues : issues'[p].id = issues[p].id
                                      /\ issues'[p].count = issues[p].count
      PROVE  ChargeInv'
  <2>1. \A p \in DOMAIN issues' : Charged(issues[p].id)' \subseteq Charged(issues[p].id)
    BY <1>1 DEF Charged, HoldersOf, Holding
  <2> QED
    BY <1>0, <1>1, <2>1, ChargeKept
<1>2. ASSUME issues' = issues, torn' = torn, events' = events,
             \A v \in DOMAIN work' : v \in DOMAIN work /\ work'[v].event = work[v].event,
             \A v \in DOMAIN work' : Holding(v)' => Holding(v) /\ work'[v].id = work[v].id
      PROVE  ChargeInv'
  <2>1. \A i : Charged(i)' \subseteq Charged(i)
    BY <1>2 DEF Charged, HoldersOf
  <2> QED
    BY <1>0, <1>2, <2>1, ChargeKept
<1>3. ASSUME NEW w \in Worker, NEW e \in Event, Begin(w, e) PROVE ChargeInv'
  <2>1. issues' = issues /\ torn' = torn /\ events' = events
    BY <1>3 DEF Begin, tableVars, historyVars
  <2>2. CASE work' = work
    BY <1>1, <2>1, <2>2
  <2>3. ASSUME NEW seen, work' = Put(work, w, [pc |-> "upsert", event |-> e, seen |-> seen])
        PROVE  ChargeInv'
    <3>1. /\ DOMAIN work' = DOMAIN work \cup {w} /\ w \notin DOMAIN work
          /\ \A v \in DOMAIN work : work'[v] = work[v]
          /\ work'[w].pc = "upsert" /\ work'[w].event = e
          /\ \A v \in DOMAIN work : work[v].event # e
      BY <1>3, <2>3 DEF Begin, Put
    <3>2. WorkersApart'
      BY <3>1 DEF ChargeInv, WorkersApart
    <3>3. \A i : Charged(i)' = Charged(i)
      BY <2>1, <3>1 DEF Charged, HoldersOf, Holding
    <3> QED
      BY <2>1, <3>2, <3>3 DEF ChargeInv
  <2> QED
    BY <1>3, <2>2, <2>3 DEF Begin
<1>4. ASSUME NEW w \in Worker, Upsert(w) PROVE ChargeInv'
  <2>1. CASE work' = Drop(work, w)
    <3>1. \A v \in DOMAIN work' : v \in DOMAIN work /\ work'[v] = work[v] /\ v # w
      BY <2>1 DEF Drop, Restrict
    <3>2. w \in DOMAIN work
      BY <1>4 DEF Upsert, At
    <3>3. \/ UNCHANGED <<issues, activity>>
          \/ \E x : work' = Put(work, w, x)
      BY <1>4 DEF Upsert
    <3>4. UNCHANGED <<issues, activity, events, torn>>
      BY <1>4, <3>1, <3>3 DEF Upsert, historyVars, Put
    <3> QED
      BY <1>2, <3>1, <3>4 DEF Holding
  <2> QED
    BY <1>4, <2>1, ChargeCounted
<1>5. ASSUME NEW w \in Worker, Record(w) PROVE ChargeInv'
  <2>1. /\ w \in DOMAIN work /\ work[w].pc = "record" /\ DOMAIN work' = DOMAIN work
        /\ \A v \in DOMAIN work \ {w} : work'[v] = work[v]
        /\ work'[w].event = work[w].event /\ work'[w].id = work[w].id
    BY <1>5 DEF Record, At, Put
  <2> QED
    BY <1>2, <1>5, <2>1 DEF Record, historyVars, Holding
<1>6. ASSUME NEW w \in Worker, Store(w) PROVE ChargeInv'
  <2>1. /\ w \in DOMAIN work /\ Holding(w) /\ issues' = issues /\ torn' = torn
        /\ work[w] \in Task
    BY <1>6 DEF Store, At, Holding, historyVars, TypeOK
  <2>2. /\ \A v \in DOMAIN work' : v \in DOMAIN work /\ work'[v].event = work[v].event
        /\ \A v \in DOMAIN work' : Holding(v)' => Holding(v) /\ work'[v].id = work[v].id
    <3>1. CASE work' = Drop(work, w)
      BY <3>1 DEF Drop, Restrict, Holding
    <3>2. ASSUME NEW pc \in {"link", "finish"}, work' = [work EXCEPT ![w].pc = pc]
          PROVE  /\ \A v \in DOMAIN work' : v \in DOMAIN work /\ work'[v].event = work[v].event
                 /\ \A v \in DOMAIN work' : Holding(v)' => Holding(v) /\ work'[v].id = work[v].id
      <4>1. /\ DOMAIN work' = DOMAIN work /\ \A v \in DOMAIN work \ {w} : work'[v] = work[v]
            /\ work'[w] = [work[w] EXCEPT !.pc = pc]
        BY <2>1, <3>2
      <4>2. work'[w].pc = pc /\ work'[w].event = work[w].event
        BY <1>6, <2>1, <4>1 DEF Store, At, Task
      <4> QED
        BY <4>1, <4>2 DEF Holding
    <3> QED
      BY <1>6, <3>1, <3>2 DEF Store
  <2>3. CASE events' = events
    BY <1>2, <2>1, <2>2, <2>3
  <2>4. CASE events' = Put(events, work[w].event, work[w].id)
    <3>1. \A i : Charged(i)' \subseteq Charged(i)
      BY <2>1, <2>2, <2>4 DEF Charged, HoldersOf, Put
    <3> QED
      BY <1>0, <2>1, <2>2, <3>1, ChargeKept
  <2> QED
    BY <1>6, <2>3, <2>4 DEF Store
<1>7. ASSUME NEW w \in Worker, EnsureRelease(w) PROVE ChargeInv'
  <2>1. VersionOf[work[w].event] \in Version \cup {NoRelease}
    BY <1>7, EventsHaveFingerprints DEF EnsureRelease, At, Task, TypeOK
  <2>2. DOMAIN issues' = DOMAIN issues
        /\ \A p \in DOMAIN issues : issues'[p].id = issues[p].id /\ issues'[p].count = issues[p].count
    BY <1>7, <2>1, ReleasedRows DEF EnsureRelease
  <2>3. /\ w \in DOMAIN work /\ DOMAIN work' = DOMAIN work
        /\ \A v \in DOMAIN work \ {w} : work'[v] = work[v]
        /\ work'[w].pc = "finish" /\ work'[w].event = work[w].event
    BY <1>7 DEF EnsureRelease, At, TypeOK, Task
  <2>4. events' = events /\ torn' = torn
    BY <1>7 DEF EnsureRelease, historyVars
  <2>5. \A i : Charged(i)' \subseteq Charged(i)
    BY <2>3, <2>4 DEF Charged, HoldersOf, Holding
  <2> QED
    BY <1>0, <2>2, <2>3, <2>4, <2>5, ChargeKept
<1>8. ASSUME NEW w \in Worker, Finish(w) PROVE ChargeInv'
  <2>1. \A v \in DOMAIN work' : v \in DOMAIN work /\ work'[v] = work[v]
    BY <1>8 DEF Finish, Drop, Restrict
  <2> QED
    BY <1>2, <1>8, <2>1 DEF Finish, tableVars, historyVars, Holding
<1>9. ASSUME NEW a \in Admin, AdminStep(a) PROVE ChargeInv'
  <2>1. ASSUME NEW ids, NEW q \in Request, Update(a, ids, q) PROVE ChargeInv'
    BY <1>1, <2>1, UpdatedRows DEF Update
  <2>2. ASSUME RecordUpdate(a) PROVE ChargeInv'
    BY <1>1, <2>2 DEF RecordUpdate, historyVars
  <2> QED
    BY <1>9, <2>1, <2>2 DEF AdminStep
<1>10. ASSUME Unmute PROVE ChargeInv'
  <2>1. DOMAIN issues' = DOMAIN issues
        /\ \A p \in DOMAIN issues : issues'[p].id = issues[p].id /\ issues'[p].count = issues[p].count
    BY <1>10, UnmutedRows
  <2> QED
    BY <1>1, <1>10, <2>1 DEF Unmute, historyVars
<1>11. ASSUME NEW v \in Version, AssociateProject(v) PROVE ChargeInv'
  <2>1. DOMAIN issues' = DOMAIN issues
        /\ \A p \in DOMAIN issues : issues'[p].id = issues[p].id /\ issues'[p].count = issues[p].count
    BY <1>11, ReleasedRows DEF AssociateProject
  <2> QED
    BY <1>1, <1>11, <2>1 DEF AssociateProject, historyVars
<1>12. ASSUME NEW ids, Removal(ids) PROVE ChargeInv'
  <2>1. /\ DOMAIN issues' \subseteq DOMAIN issues /\ torn \subseteq torn' /\ work' = work
        /\ \A p \in DOMAIN issues' : issues'[p] = issues[p] /\ issues[p].id # Null
        /\ \A e \in DOMAIN events' : e \in DOMAIN events /\ events'[e] \in {Null, events[e]}
    BY <1>12 DEF Removal, Remove, Restrict, PlaceInv, IdsDistinct
  <2>2. \A p \in DOMAIN issues' : Charged(issues[p].id)' \subseteq Charged(issues[p].id)
    BY <2>1 DEF Charged, HoldersOf, Holding
  <2> QED
    BY <1>0, <2>1, <2>2, ChargeKept
<1>13. ASSUME NEW e \in Event, ExpireEvent(e) PROVE ChargeInv'
  <2>1. /\ issues' = issues /\ work' = work /\ torn' = torn
        /\ \A d \in DOMAIN events' : d \in DOMAIN events /\ events'[d] = events[d]
    BY <1>13 DEF ExpireEvent, Drop, Restrict, historyVars
  <2>2. \A i : Charged(i)' \subseteq Charged(i)
    BY <2>1 DEF Charged, HoldersOf, Holding
  <2> QED
    BY <1>0, <2>1, <2>2, ChargeKept
<1>14. ASSUME Crash PROVE ChargeInv'
  BY <1>2, <1>14 DEF Crash, EmptyFunction, tableVars, historyVars
<1>15. ASSUME RecordUnmuted \/ Tick \/ UNCHANGED vars PROVE ChargeInv'
  BY <1>1, <1>15 DEF RecordUnmuted, Tick, vars, tableVars, historyVars
<1> QED
  BY <1>3, <1>4, <1>5, <1>6, <1>7, <1>8, <1>9, <1>10, <1>11, <1>12, <1>13, <1>14, <1>15
     DEF Next, WorkerStep, Delete, PurgeIssues

LEMMA PlaceInit == Init => PlaceInv
BY DEF Init, PlaceInv, IdsDistinct, HeldOnIssue, EventsOnTheirIssue, EmptyFunction

\* CountCovers: the event_count of an issue whose id nobody lost (the UPSERT in
\* process_inner) is at least the number of its stored events and of the workers
\* between the UPSERT and the INSERT, through deletions, retries and reused ids.
THEOREM CountsCoverEvents == Spec => []CountCovers
<1>1. Init => ChargeInv
  BY DEF Init, ChargeInv, WorkersApart, EmptyFunction
<1>2. TypeOK /\ ChargeInv => CountCovers
  <2> SUFFICES ASSUME TypeOK, ChargeInv, NEW p \in DOMAIN issues, issues[p].id \notin torn
               PROVE  LET i == issues[p].id IN
                        Cardinality({e \in DOMAIN events : events[e] = i})
                          + Cardinality({w \in DOMAIN work :
                              work[w].pc \in {"record", "store"} /\ work[w].id = i
                                /\ work[w].event \notin DOMAIN events})
                        <= issues[p].count
    BY DEF CountCovers
  <2> DEFINE i == issues[p].id
             kept == {e \in DOMAIN events : events[e] = i}
             coming == {w \in DOMAIN work : work[w].pc \in {"record", "store"} /\ work[w].id = i
                                              /\ work[w].event \notin DOMAIN events}
             dues == {work[w].event : w \in coming}
             f == [w \in coming |-> work[w].event]
  <2>1. IsFiniteSet(Charged(i)) /\ Cardinality(Charged(i)) <= issues[p].count
        /\ issues[p].count \in Nat
    BY DEF ChargeInv, Bounded, TypeOK, Row
  <2>2. kept \cup dues \in SUBSET Charged(i) /\ kept \cap dues = {}
    BY DEF Charged, HoldersOf, Holding
  <2>3. IsFiniteSet(kept \cup dues) /\ Cardinality(kept \cup dues) <= Cardinality(Charged(i))
    BY <2>1, <2>2, FS_Subset
  <2>4. IsFiniteSet(kept) /\ IsFiniteSet(dues)
    BY <2>3, FS_Subset
  <2>5. f \in Injection(coming, dues)
    BY DEF ChargeInv, WorkersApart, Injection, IsInjective
  <2>6. IsFiniteSet(coming) /\ Cardinality(coming) <= Cardinality(dues)
    BY <2>4, <2>5, FS_Injection
  <2>7. Cardinality(kept \cup dues) = Cardinality(kept) + Cardinality(dues)
    <3>1. Cardinality(kept \cup dues) = Cardinality(kept) + Cardinality(dues) - Cardinality(kept \cap dues)
      BY <2>4, FS_Union
    <3>2. Cardinality(kept \cap dues) = 0
      BY <2>2, FS_EmptySet
    <3>3. Cardinality(kept) \in Nat /\ Cardinality(dues) \in Nat
      BY <2>4, FS_CardinalityType
    <3> QED
      BY <3>1, <3>2, <3>3
  <2>8. /\ Cardinality(kept) \in Nat /\ Cardinality(dues) \in Nat
        /\ Cardinality(coming) \in Nat /\ Cardinality(Charged(i)) \in Nat
    BY <2>1, <2>4, <2>6, FS_CardinalityType
  <2>9. Cardinality(kept) + Cardinality(coming) <= issues[p].count
    <3> HIDE DEF kept, dues, coming, i
    <3> QED
      BY <2>1, <2>3, <2>6, <2>7, <2>8
  <2> QED
    BY <2>9
<1> QED
  BY InitTyped, TypeStep, PlaceInit, PlaceStep, ChargeStep, <1>1, <1>2, PTL DEF Spec

-----------------------------------------------------------------------------
\* First sightings.  An issue has its first_seen activity, or one worker that is
\* to record it, or neither: only the UPSERT that inserts the issue returns 1.

FirstSeen(i) == {k \in DOMAIN activity[i] : activity[i][k] = "first_seen"}
Announcers(i) ==
  {w \in DOMAIN work : work[w].pc = "record" /\ work[w].id = i /\ work[w].kind = "first_seen"}

AtMostOne(S) == \A x, y \in S : x = y

SeenOnce(i) ==
  /\ AtMostOne(FirstSeen(i)) /\ AtMostOne(Announcers(i))
  /\ FirstSeen(i) = {} \/ Announcers(i) = {}

SeenInv ==
  /\ \A p \in DOMAIN issues : issues[p].count >= 1
  /\ \A i \in Ids \ torn : SeenOnce(i)

\* What appending a record of some kind does to the first sightings.
LEMMA AppendSeen ==
  ASSUME NEW s \in Seq(Kind), NEW kind \in Kind
  PROVE  {k \in DOMAIN Append(s, kind) : Append(s, kind)[k] = "first_seen"}
           = {k \in DOMAIN s : s[k] = "first_seen"}
               \cup (IF kind = "first_seen" THEN {Len(s) + 1} ELSE {})
<1>1. /\ DOMAIN s = 1..Len(s) /\ Len(s) \in Nat
      /\ DOMAIN Append(s, kind) = 1..(Len(s) + 1)
      /\ Append(s, kind)[Len(s) + 1] = kind
      /\ \A k \in 1..Len(s) : Append(s, kind)[k] = s[k]
  OBVIOUS
<1>2. 1..(Len(s) + 1) = 1..Len(s) \cup {Len(s) + 1}
  BY <1>1
<1> QED
  BY <1>1, <1>2

\* A step that records no first sighting.
LEMMA SeenKept ==
  ASSUME TypeOK, SeenInv, torn \subseteq torn', Ids' \subseteq Ids,
         \A i \in Ids' : FirstSeen(i)' = FirstSeen(i),
         \A i \in Ids' : Announcers(i)' \subseteq Announcers(i),
         \A p \in DOMAIN issues' : p \in DOMAIN issues /\ issues'[p].count >= issues[p].count,
         TypeOK'
  PROVE  SeenInv'
<1>1. \A p \in DOMAIN issues' : issues'[p].count >= 1
  BY DEF SeenInv, TypeOK, Row
<1>2. ASSUME NEW i \in Ids', i \notin torn' PROVE SeenOnce(i)'
  <2>1. i \in Ids \ torn /\ SeenOnce(i)
    BY <1>2 DEF SeenInv
  <2>2. FirstSeen(i)' = FirstSeen(i) /\ Announcers(i)' \subseteq Announcers(i)
    BY <1>2
  <2> QED
    BY <2>1, <2>2 DEF SeenOnce, AtMostOne
<1> QED
  BY <1>1, <1>2 DEF SeenInv

\* Records of other kinds.
LEMMA OtherKindsSeen ==
  ASSUME TypeOK, NEW ids, NEW kind \in Kind, kind # "first_seen",
         activity' = activity \/ activity' = Recorded(ids, kind)
  PROVE  Ids' = Ids /\ \A i \in Ids : FirstSeen(i)' = FirstSeen(i)
<1>1. CASE activity' = activity
  BY <1>1 DEF Ids, FirstSeen
<1>2. CASE activity' = Recorded(ids, kind)
  <2>1. DOMAIN activity' = Ids
        /\ \A i \in Ids : activity'[i] = activity[i] \/ activity'[i] = Append(activity[i], kind)
    BY <1>2 DEF Recorded, Ids
  <2>2. \A i \in Ids : activity[i] \in Seq(Kind)
    BY DEF TypeOK, Ids
  <2> QED
    BY <2>1, <2>2, AppendSeen DEF Ids, FirstSeen
<1> QED
  BY <1>1, <1>2

\* The worker whose UPSERT inserted the issue announces it; no other does.
LEMMA SeenUpsert ==
  ASSUME TypeOK, TypeOK', PlaceInv, SeenInv, NEW w \in Worker, Upsert(w)
  PROVE  SeenInv'
<1> DEFINE e == work[w].event
           p == FingerprintOf[e]
<1>1. w \in DOMAIN work /\ work[w].pc = "upsert" /\ torn' = torn
  BY DEF Upsert, At, historyVars
<1>2. ASSUME p \in DOMAIN issues, issues' = [issues EXCEPT ![p] = CountEvent(@)],
             activity' = activity,
             work' = Put(work, w, AfterUpsert(e, issues[p].id,
                                              News(issues'[p].count, work[w].seen)))
      PROVE  SeenInv'
  <2>1. issues[p] \in Row /\ issues[p].count >= 1 /\ issues[p].count \in Nat
    BY <1>2 DEF TypeOK, SeenInv, Row
  <2>2. issues'[p].count = issues[p].count + 1 /\ issues'[p].count # 1
    BY <1>2, <2>1, CountedRow
  <2>3. \A q \in DOMAIN issues' : q \in DOMAIN issues /\ issues'[q].count >= issues[q].count
    <3>1. \A q \in DOMAIN issues : issues[q].count \in Nat
      BY DEF TypeOK, Row
    <3>2. DOMAIN issues' = DOMAIN issues /\ \A q \in DOMAIN issues \ {p} : issues'[q] = issues[q]
      BY <1>2
    <3> HIDE DEF p
    <3> QED
      BY <2>1, <2>2, <3>1, <3>2
  <2>4. News(issues'[p].count, work[w].seen) # "first_seen"
    BY <2>2 DEF News
  <2>5. work'[w].pc = "record" => work'[w].kind # "first_seen"
    BY <1>1, <1>2, <2>4 DEF Put, AfterUpsert
  <2>6. DOMAIN work' = DOMAIN work /\ \A v \in DOMAIN work \ {w} : work'[v] = work[v]
    BY <1>1, <1>2 DEF Put
  <2>7. \A i : Announcers(i)' \subseteq Announcers(i)
    BY <2>5, <2>6 DEF Announcers
  <2>8. Ids' = Ids /\ \A i : FirstSeen(i)' = FirstSeen(i)
    BY <1>2 DEF Ids, FirstSeen
  <2> QED
    BY <1>1, <2>3, <2>7, <2>8, SeenKept
<1>3. ASSUME p \notin DOMAIN issues, NEW id \in 1..MaxRowid, IsNextId(id),
             issues' = Put(issues, p, NewIssue(id)), activity' = Put(activity, id, <<>>),
             work' = Put(work, w, AfterUpsert(e, id, News(1, work[w].seen)))
      PROVE  SeenInv'
  <2>1. id \in Nat /\ id \notin Ids
    BY <1>3, IssueNumbersAreNatural DEF IsNextId
  <2>2. \A q \in DOMAIN issues' : issues'[q].count >= 1
    BY <1>3 DEF Put, NewIssue, SeenInv
  <2>3. /\ DOMAIN work' = DOMAIN work /\ \A v \in DOMAIN work \ {w} : work'[v] = work[v]
        /\ work'[w].id = id
    BY <1>1, <1>3 DEF Put, AfterUpsert
  <2>4. Ids' = Ids \cup {id} /\ activity'[id] = <<>> /\ \A i \in Ids : activity'[i] = activity[i]
    BY <1>3, <2>1 DEF Ids, Put
  <2>5. ASSUME NEW i \in Ids', i \notin torn' PROVE SeenOnce(i)'
    <3>1. CASE i \in Ids
      <4>1. SeenOnce(i) /\ i # id
        BY <1>1, <2>1, <2>5, <3>1 DEF SeenInv
      <4>2. FirstSeen(i)' = FirstSeen(i) /\ Announcers(i)' \subseteq Announcers(i)
        BY <2>3, <2>4, <3>1, <4>1 DEF FirstSeen, Announcers
      <4> QED
        BY <4>1, <4>2 DEF SeenOnce, AtMostOne
    <3>2. CASE i = id
      <4>1. FirstSeen(i)' = {}
        BY <2>4, <3>2 DEF FirstSeen
      <4>2. \A v \in DOMAIN work : Holding(v) => work[v].id # id
        <5>1. id \notin torn /\ \A d : ~OnIssue(id, d)
          BY <1>1, <2>1, <2>5, <3>2 DEF OnIssue, TypeOK, Ids
        <5> QED
          BY <5>1 DEF PlaceInv, HeldOnIssue
      <4>3. Announcers(i)' \subseteq {w}
        BY <2>3, <3>2, <4>2 DEF Announcers, Holding
      <4> QED
        BY <4>1, <4>3 DEF SeenOnce, AtMostOne
    <3> QED
      BY <2>4, <2>5, <3>1, <3>2
  <2> QED
    BY <2>2, <2>5 DEF SeenInv
<1>4. CASE work' = Drop(work, w) /\ UNCHANGED <<issues, activity>>
  <2>1. \A i : Announcers(i)' \subseteq Announcers(i)
    BY <1>4 DEF Announcers, Drop, Restrict
  <2>2. Ids' = Ids /\ \A i : FirstSeen(i)' = FirstSeen(i)
    BY <1>4 DEF Ids, FirstSeen
  <2>3. \A q \in DOMAIN issues' : q \in DOMAIN issues /\ issues'[q].count >= issues[q].count
    BY <1>4 DEF TypeOK, Row
  <2> QED
    BY <1>1, <2>1, <2>2, <2>3, SeenKept
<1> QED
  BY <1>2, <1>3, <1>4 DEF Upsert

LEMMA SeenRecord ==
  ASSUME TypeOK, TypeOK', SeenInv, NEW w \in Worker, Record(w)
  PROVE  SeenInv'
<1>1. /\ w \in DOMAIN work /\ work[w].pc = "record" /\ work[w].kind \in Kind
      /\ torn' = torn /\ issues' = issues
  BY DEF Record, At, TypeOK, Task, historyVars
<1>2. /\ DOMAIN work' = DOMAIN work /\ \A v \in DOMAIN work \ {w} : work'[v] = work[v]
      /\ work'[w].pc = "store"
  BY <1>1 DEF Record, Put
<1>3. \A i : Announcers(i)' = Announcers(i) \ {w}
  BY <1>1, <1>2 DEF Announcers
<1>4. \A q \in DOMAIN issues' : q \in DOMAIN issues /\ issues'[q].count >= issues[q].count
  BY <1>1 DEF TypeOK, Row
<1>5. activity' = activity \/ activity' = Recorded({work[w].id}, work[w].kind)
  BY DEF Record
<1>6. CASE activity' = activity \/ work[w].kind # "first_seen"
  <2>1. Ids' = Ids /\ \A i \in Ids : FirstSeen(i)' = FirstSeen(i)
    <3>1. CASE activity' = activity
      BY <3>1 DEF Ids, FirstSeen
    <3>2. CASE work[w].kind # "first_seen"
      BY <1>1, <1>5, <3>2, OtherKindsSeen
    <3> QED
      BY <1>6, <3>1, <3>2
  <2> QED
    BY <1>1, <1>3, <1>4, <2>1, SeenKept
<1>7. CASE activity' = Recorded({work[w].id}, "first_seen") /\ work[w].kind = "first_seen"
  <2> DEFINE j == work[w].id
  <2>1. /\ Ids' = Ids
        /\ \A i \in Ids \ {j} : activity'[i] = activity[i]
        /\ j \in Ids => activity'[j] = Append(activity[j], "first_seen")
    BY <1>7 DEF Recorded, Ids
  <2>2. ASSUME NEW i \in Ids, i \notin torn PROVE SeenOnce(i)'
    <3>1. SeenOnce(i)
      BY <2>2 DEF SeenInv
    <3>2. CASE i # j
      BY <1>3, <2>1, <3>1, <3>2 DEF SeenOnce, AtMostOne, FirstSeen
    <3>3. CASE i = j
      <4>1. w \in Announcers(i)
        BY <1>1, <1>7, <3>3 DEF Announcers
      <4>2. FirstSeen(i) = {} /\ Announcers(i)' = {}
        BY <1>3, <3>1, <4>1 DEF SeenOnce, AtMostOne
      <4>3. activity[i] \in Seq(Kind) /\ "first_seen" \in Kind
        BY DEF TypeOK, Ids, Kind
      <4>4. FirstSeen(i)' = FirstSeen(i) \cup {Len(activity[i]) + 1}
        BY <2>1, <3>3, <4>3, AppendSeen DEF FirstSeen
      <4> QED
        BY <4>2, <4>4 DEF SeenOnce, AtMostOne
    <3> QED
      BY <3>2, <3>3
  <2> QED
    BY <1>1, <2>1, <2>2 DEF SeenInv
<1> QED
  BY <1>5, <1>6, <1>7

LEMMA SeenStep == TypeOK /\ PlaceInv /\ SeenInv /\ [Next]_vars => SeenInv'
<1> SUFFICES ASSUME TypeOK, PlaceInv, SeenInv, [Next]_vars PROVE SeenInv'
  OBVIOUS
<1>0. TypeOK'
  BY TypeStep
<1>1. ASSUME torn' = torn, DOMAIN issues' = DOMAIN issues,
             \A p \in DOMAIN issues : issues'[p].count = issues[p].count,
             NEW ids, NEW kind \in Kind, kind # "first_seen",
             activity' = activity \/ activity' = Recorded(ids, kind),
             \A v \in DOMAIN work' : work'[v].pc = "record" => v \in DOMAIN work /\ work'[v] = work[v]
      PROVE  SeenInv'
  <2>1. Ids' = Ids /\ \A i \in Ids : FirstSeen(i)' = FirstSeen(i)
    BY <1>1, OtherKindsSeen
  <2>2. \A i \in Ids' : Announcers(i)' \subseteq Announcers(i)
    BY <1>1 DEF Announcers
  <2>3. \A p \in DOMAIN issues' : p \in DOMAIN issues /\ issues'[p].count >= issues[p].count
    BY <1>1 DEF TypeOK, Row
  <2> QED
    BY <1>0, <1>1, <2>1, <2>2, <2>3, SeenKept
<1> DEFINE Others == \A v \in DOMAIN work' :
                       work'[v].pc = "record" => v \in DOMAIN work /\ work'[v] = work[v]
           Counts == DOMAIN issues' = DOMAIN issues
                     /\ \A p \in DOMAIN issues : issues'[p].count = issues[p].count
<1>2. ASSUME torn' = torn, activity' = activity, Counts, Others PROVE SeenInv'
  <2>1. "resolved" \in Kind /\ "resolved" # "first_seen"
    BY DEF Kind, Status
  <2> QED
    BY <1>1, <1>2, <2>1
<1>3. ASSUME NEW w \in Worker, (\E e \in Event : Begin(w, e)) \/ Store(w) \/ Finish(w)
      PROVE  SeenInv'
  <2>1. torn' = torn /\ activity' = activity /\ issues' = issues
    BY <1>3 DEF Begin, Store, Finish, tableVars, historyVars
  <2>2. Others
    <3>1. CASE \E e \in Event : Begin(w, e)
      BY <3>1 DEF Begin, Put
    <3>2. CASE work' = Drop(work, w)
      BY <3>2 DEF Drop, Restrict
    <3>3. ASSUME At(w, "store"), NEW pc \in {"finish", "link"}, work' = [work EXCEPT ![w].pc = pc]
          PROVE  Others
      <4>1. /\ w \in DOMAIN work /\ DOMAIN work' = DOMAIN work
            /\ \A v \in DOMAIN work \ {w} : work'[v] = work[v]
            /\ work'[w] = [work[w] EXCEPT !.pc = pc] /\ work[w] \in Task
        BY <3>3 DEF At, TypeOK
      <4>2. work'[w].pc = pc
        BY <3>3, <4>1 DEF Task
      <4> QED
        BY <4>1, <4>2
    <3> QED
      BY <1>3, <3>1, <3>2, <3>3 DEF Store, Finish
  <2> QED
    BY <1>2, <2>1, <2>2
<1>4. ASSUME NEW w \in Worker, EnsureRelease(w) PROVE SeenInv'
  <2>1. VersionOf[work[w].event] \in Version \cup {NoRelease}
    BY <1>4, EventsHaveFingerprints DEF EnsureRelease, At, Task, TypeOK
  <2>2. Counts
    BY <1>4, <2>1, ReleasedRows DEF EnsureRelease
  <2>3. Others
    BY <1>4 DEF EnsureRelease, At, TypeOK, Task
  <2> QED
    BY <1>2, <1>4, <2>2, <2>3 DEF EnsureRelease, historyVars
<1>5. ASSUME NEW a \in Admin, AdminStep(a) PROVE SeenInv'
  <2>1. ASSUME NEW ids, NEW q \in Request, Update(a, ids, q) PROVE SeenInv'
    BY <1>2, <2>1, UpdatedRows DEF Update
  <2>2. ASSUME RecordUpdate(a) PROVE SeenInv'
    <3>1. updates[a].kind \in Kind /\ updates[a].kind # "first_seen"
      BY <2>2 DEF RecordUpdate, TypeOK, Kind, Status
    <3>2. torn' = torn /\ work' = work /\ issues' = issues
          /\ (activity' = activity \/ activity' = Recorded(updates[a].ids, updates[a].kind))
      BY <2>2 DEF RecordUpdate, historyVars
    <3> QED
      BY <1>1, <3>1, <3>2
  <2> QED
    BY <1>5, <2>1, <2>2 DEF AdminStep
<1>6. ASSUME Unmute PROVE SeenInv'
  BY <1>2, <1>6, UnmutedRows DEF Unmute, historyVars
<1>7. ASSUME RecordUnmuted PROVE SeenInv'
  <2>1. "unignored" \in Kind /\ "unignored" # "first_seen"
    BY DEF Kind
  <2>2. PICK i \in unmuted : activity' = activity \/ activity' = Recorded({i}, "unignored")
    BY <1>7 DEF RecordUnmuted
  <2>3. torn' = torn /\ work' = work /\ issues' = issues
    BY <1>7 DEF RecordUnmuted, historyVars
  <2> QED
    BY <1>1, <2>1, <2>2, <2>3
<1>8. ASSUME NEW v \in Version, AssociateProject(v) PROVE SeenInv'
  BY <1>2, <1>8, ReleasedRows DEF AssociateProject, historyVars
<1>9. ASSUME NEW ids, Removal(ids) PROVE SeenInv'
  <2>1. /\ DOMAIN issues' \subseteq DOMAIN issues /\ torn \subseteq torn' /\ work' = work
        /\ \A p \in DOMAIN issues' : issues'[p] = issues[p]
        /\ Ids' \subseteq Ids /\ \A i \in Ids' : activity'[i] = activity[i]
    BY <1>9 DEF Removal, Remove, Restrict, Ids
  <2>2. \A i \in Ids' : FirstSeen(i)' = FirstSeen(i) /\ Announcers(i)' \subseteq Announcers(i)
    BY <2>1 DEF FirstSeen, Announcers
  <2>3. \A p \in DOMAIN issues' : p \in DOMAIN issues /\ issues'[p].count >= issues[p].count
    BY <2>1 DEF TypeOK, Row
  <2> QED
    BY <1>0, <2>1, <2>2, <2>3, SeenKept
<1>10. ASSUME (\E e \in Event : ExpireEvent(e)) \/ Tick \/ Crash \/ UNCHANGED vars PROVE SeenInv'
  BY <1>2, <1>10 DEF ExpireEvent, Tick, Crash, EmptyFunction, vars, tableVars, historyVars
<1> QED
  BY <1>0, <1>3, <1>4, <1>5, <1>6, <1>7, <1>8, <1>9, <1>10, SeenUpsert, SeenRecord
     DEF Next, WorkerStep, Delete, PurgeIssues

LEMMA AtMostOneElement == ASSUME NEW S, AtMostOne(S) PROVE Cardinality(S) <= 1
<1>1. CASE S = {}
  BY <1>1, FS_EmptySet
<1>2. ASSUME NEW k \in S PROVE Cardinality(S) <= 1
  <2>1. S = {k}
    BY <1>2 DEF AtMostOne
  <2> QED
    BY <2>1, FS_Singleton
<1> QED
  BY <1>1, <1>2

\* FirstSeenOnce (is_new_issue and the INSERT into issue_activity in
\* process_inner): an issue whose id nobody lost has at most one first_seen
\* record, however many workers saw no issue before their UPSERTs.
THEOREM FirstSeenIsRecordedOnce == Spec => []FirstSeenOnce
<1>1. Init => SeenInv
  BY DEF Init, SeenInv, Ids, EmptyFunction
<1>2. SeenInv => FirstSeenOnce
  <2> SUFFICES ASSUME SeenInv, NEW i \in Ids \ torn PROVE Cardinality(FirstSeen(i)) <= 1
    BY DEF FirstSeenOnce, FirstSeen
  <2>1. AtMostOne(FirstSeen(i))
    BY DEF SeenInv, SeenOnce
  <2> QED
    BY <2>1, AtMostOneElement
<1> QED
  BY InitTyped, TypeStep, PlaceInit, PlaceStep, SeenStep, <1>1, <1>2, PTL DEF Spec

=============================================================================
