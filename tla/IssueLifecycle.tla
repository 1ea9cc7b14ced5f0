---------------------------- MODULE IssueLifecycle ----------------------------
(***************************************************************************)
(* Issues of one project: what process_inner (src/worker/processor.rs),    *)
(* the administrators' requests (src/api/issues.rs), the snooze task       *)
(* (src/worker/mod.rs), new releases (src/worker/releases.rs,              *)
(* src/api/releases.rs) and retention (src/db/retention.rs) do to them.    *)
(*                                                                         *)
(* A worker reads the issue's status, counts the event on the issue,       *)
(* records an activity, inserts the event and ensures its release, each in *)
(* a statement of its own.  Row ids of deleted issues come back.           *)
(***************************************************************************)
EXTENDS Naturals, Sequences, FiniteSets, Functions

CONSTANTS
  Fingerprint,    \* UNIQUE(project_id, fingerprint)
  Event,          \* event ids: UNIQUE(project_id, event_id)
  FingerprintOf,  \* FingerprintOf[e]: what compute_fingerprint returns for e
  VersionOf,      \* VersionOf[e]: e's release, or NoRelease
  Version,        \* release versions
  Worker,         \* envelope worker tasks
  Admin,          \* requests that update issues
  Threshold,      \* values of snooze_event_count
  MaxAttempts     \* attempts the envelope queue makes for one event

CONSTANTS         \* bounds of the explored behaviours, not of the program
  MaxTime, MaxRowid, MaxFaults, MaxUpdates, MaxDeletions

NoRelease == "none"
NextRelease == "__next__"

ASSUME IssueNumbersAreNatural ==
  /\ Threshold \subseteq Nat \ {0} /\ MaxAttempts \in Nat
  /\ MaxTime \in Nat /\ MaxRowid \in Nat /\ MaxFaults \in Nat
  /\ MaxUpdates \in Nat /\ MaxDeletions \in Nat

ASSUME EventsHaveFingerprints ==
  /\ FingerprintOf \in [Event -> Fingerprint]
  /\ VersionOf \in [Event -> Version \cup {NoRelease}]

VARIABLES
  now,       \* the server's clock, from 1
  issues,    \* table issues: fingerprint -> row
  activity,  \* table issue_activity: issue id -> kinds, oldest first
  events,    \* table events: event -> issue id, Null once the issue is deleted
  attempts,  \* attempts begun per event
  settled,   \* events whose envelope is done
  work,      \* busy workers: worker -> progress
  updates,   \* administrators' requests: admin -> what is left to record
  unmuted,   \* issue ids the snooze task has yet to record
  ignoredAt, \* history: the event count at which a fingerprint's issue was last ignored
  torn,      \* history: issue ids deleted while someone was still to use them
  faults, changes, deletions

tableVars == <<issues, activity, events>>
queueVars == <<attempts, settled>>
historyVars == <<ignoredAt, torn>>
boundVars == <<faults, changes, deletions>>
vars == <<now, tableVars, queueVars, work, updates, unmuted, historyVars, boundVars>>

Null == 0

Status == {"unresolved", "resolved", "ignored"}
Kind == {"first_seen", "regression", "unignored"} \cup Status
Release == Version \cup {NoRelease, NextRelease}

Row == [id: Nat, status: Status, count: Nat, until: Nat, threshold: Nat, release: Release]
Task == [pc: {"upsert"}, event: Event, seen: Status \cup {"absent"}]
        \cup [pc: {"record"}, event: Event, id: Nat, kind: Kind]
        \cup [pc: {"store", "link", "finish"}, event: Event, id: Nat]

TypeOK ==
  /\ now \in Nat
  /\ DOMAIN issues \subseteq Fingerprint /\ \A p \in DOMAIN issues : issues[p] \in Row
  /\ DOMAIN activity = {issues[p].id : p \in DOMAIN issues}
  /\ \A i \in DOMAIN activity : activity[i] \in Seq(Kind)
  /\ DOMAIN events \subseteq Event /\ \A e \in DOMAIN events : events[e] \in Nat
  /\ attempts \in [Event -> Nat]
  /\ settled \subseteq Event
  /\ DOMAIN work \subseteq Worker /\ \A w \in DOMAIN work : work[w] \in Task
  /\ DOMAIN updates \subseteq Admin
  /\ \A a \in DOMAIN updates : updates[a] \in [ids: SUBSET Nat, kind: Status]
  /\ unmuted \subseteq Nat
  /\ ignoredAt \in [Fingerprint -> Nat]
  /\ torn \subseteq Nat
  /\ faults \in Nat /\ changes \in Nat /\ deletions \in Nat

EmptyFunction == [x \in {} |-> x]
Put(f, x, v) == [y \in DOMAIN f \cup {x} |-> IF y = x THEN v ELSE f[y]]
Drop(f, x) == Restrict(f, DOMAIN f \ {x})

Init ==
  /\ now = 1
  /\ issues = EmptyFunction
  /\ activity = EmptyFunction
  /\ events = EmptyFunction
  /\ attempts = [e \in Event |-> 0]
  /\ settled = {}
  /\ work = EmptyFunction
  /\ updates = EmptyFunction
  /\ unmuted = {}
  /\ ignoredAt = [p \in Fingerprint |-> 0]
  /\ torn = {}
  /\ faults = 0 /\ changes = 0 /\ deletions = 0

\* A statement that fails, or the death of the process.
Fault ==
  /\ faults < MaxFaults
  /\ faults' = faults + 1
  /\ UNCHANGED <<changes, deletions>>

Ids == DOMAIN activity
At(w, pc) == w \in DOMAIN work /\ work[w].pc = pc

\* INSERT INTO issue_activity: the foreign key refuses ids of deleted issues.
Recorded(ids, kind) ==
  IF ids \subseteq Ids
  THEN [i \in Ids |-> IF i \in ids THEN Append(activity[i], kind) ELSE activity[i]]
  ELSE activity

-----------------------------------------------------------------------------
\* The workers: one event's way through process_inner.

\* An envelope the queue hands to w: no other worker has it, and it has
\* attempts left (module EnvelopeQueue).  SELECT the issue's status.
Begin(w, e) ==
  /\ w \notin DOMAIN work
  /\ \A v \in DOMAIN work : work[v].event # e
  /\ e \notin settled /\ attempts[e] < MaxAttempts
  /\ attempts' = [attempts EXCEPT ![e] = @ + 1]
  /\ \/ /\ work' = Put(work, w,
             [pc |-> "upsert", event |-> e,
              seen |-> IF FingerprintOf[e] \in DOMAIN issues
                       THEN issues[FingerprintOf[e]].status ELSE "absent"])
        /\ UNCHANGED boundVars
     \/ Fault /\ UNCHANGED work
  /\ UNCHANGED <<now, tableVars, settled, updates, unmuted, historyVars>>

\* DO UPDATE: a resolved issue is reopened, and so is an ignored one whose
\* threshold this event reaches.
ReachesThresholdLate(r) == \* mutant: > for >=
  r.status = "ignored" /\ r.threshold # Null /\ r.count + 1 > r.threshold

ReachesThreshold(r) ==
  r.status = "ignored" /\ r.threshold # Null /\ r.count + 1 >= r.threshold

Reopened(r) == r.status = "resolved" \/ ReachesThreshold(r)

CountEventKeepingRelease(r) == \* mutant: resolved_in_release survives a reopening
  LET s == IF Reopened(r)
           THEN [r EXCEPT !.status = "unresolved", !.until = Null, !.threshold = Null]
           ELSE r
  IN [s EXCEPT !.count = @ + 1]

CountEventOfRow(r) == \* mutant: event_count = excluded.event_count
  IF Reopened(r)
  THEN [r EXCEPT !.count = 1, !.status = "unresolved", !.until = Null, !.threshold = Null,
                 !.release = IF r.status = "resolved" THEN NoRelease ELSE r.release]
  ELSE [r EXCEPT !.count = 1]

CountEvent(r) ==
  IF Reopened(r)
  THEN [r EXCEPT !.count = @ + 1, !.status = "unresolved", !.until = Null, !.threshold = Null,
                 !.release = IF r.status = "resolved" THEN NoRelease ELSE r.release]
  ELSE [r EXCEPT !.count = @ + 1]

NewIssue(id) ==
  [id |-> id, status |-> "unresolved", count |-> 1, until |-> Null, threshold |-> Null,
   release |-> NoRelease]

\* An INTEGER PRIMARY KEY without AUTOINCREMENT: one more than the largest id.
IsNextId(id) == (\A i \in Ids : i < id) /\ (id = 1 \/ id - 1 \in Ids)

\* What is left to record: is_new_issue comes from the count the UPSERT
\* returned, is_regression from the status read before it.
NewsFromRead(count, seen) == \* mutant: is_new_issue from the status read before
  IF seen = "absent" THEN "first_seen" ELSE IF seen = "resolved" THEN "regression" ELSE "none"

News(count, seen) ==
  IF count = 1 THEN "first_seen" ELSE IF seen = "resolved" THEN "regression" ELSE "none"

AfterUpsert(e, id, news) ==
  IF news = "none" THEN [pc |-> "store", event |-> e, id |-> id]
  ELSE [pc |-> "record", event |-> e, id |-> id, kind |-> news]

Upsert(w) ==
  /\ At(w, "upsert")
  /\ LET e == work[w].event
         p == FingerprintOf[e]
     IN \/ /\ p \in DOMAIN issues
           /\ issues' = [issues EXCEPT ![p] = CountEvent(@)]
           /\ work' = Put(work, w, AfterUpsert(e, issues[p].id,
                                               News(issues'[p].count, work[w].seen)))
           /\ UNCHANGED <<activity, boundVars>>
        \/ /\ p \notin DOMAIN issues
           /\ \E id \in 1..MaxRowid :
                /\ IsNextId(id)
                /\ issues' = Put(issues, p, NewIssue(id))
                /\ activity' = Put(activity, id, <<>>)
                /\ work' = Put(work, w, AfterUpsert(e, id, News(1, work[w].seen)))
           /\ UNCHANGED boundVars
        \/ Fault /\ work' = Drop(work, w) /\ UNCHANGED <<issues, activity>>
  /\ UNCHANGED <<now, events, queueVars, updates, unmuted, historyVars>>

\* The activity of a new issue or a regression; a failure is ignored.
Record(w) ==
  /\ At(w, "record")
  /\ \/ activity' = Recorded({work[w].id}, work[w].kind) /\ UNCHANGED boundVars
     \/ Fault /\ UNCHANGED activity
  /\ work' = Put(work, w, [pc |-> "store", event |-> work[w].event, id |-> work[w].id])
  /\ UNCHANGED <<now, issues, events, queueVars, updates, unmuted, historyVars>>

\* INSERT INTO events, refused for an event that is there and for an issue that
\* is gone; a refusal ends the attempt, and so does an attachment that cannot be
\* inserted after it.
Store(w) ==
  /\ At(w, "store")
  /\ LET e == work[w].event
         accepted == e \notin DOMAIN events /\ work[w].id \in Ids
     IN \/ /\ accepted
           /\ events' = Put(events, e, work[w].id)
           /\ \/ /\ work' = [work EXCEPT ![w].pc =
                             IF VersionOf[e] = NoRelease THEN "finish" ELSE "link"]
                 /\ UNCHANGED boundVars
              \/ Fault /\ work' = Drop(work, w)
        \/ /\ (~accepted /\ UNCHANGED boundVars) \/ Fault
           /\ work' = Drop(work, w)
           /\ UNCHANGED events
  /\ UNCHANGED <<now, issues, activity, queueVars, updates, unmuted, historyVars>>

\* The last statement of ensure_release and associate_project.
ResolvedIn(v) ==
  [p \in DOMAIN issues |->
     IF issues[p].status = "resolved" /\ issues[p].release = NextRelease
     THEN [issues[p] EXCEPT !.release = v] ELSE issues[p]]

\* ensure_release: the release's row and its link to the project, which nothing
\* here reads, then the issues resolved "in next release".  An error is not fatal.
EnsureRelease(w) ==
  /\ At(w, "link")
  /\ LET v == VersionOf[work[w].event] IN
       \/ issues' = ResolvedIn(v) /\ UNCHANGED boundVars
       \/ Fault /\ UNCHANGED issues
  /\ work' = [work EXCEPT ![w].pc = "finish"]
  /\ UNCHANGED <<now, activity, events, queueVars, updates, unmuted, historyVars>>

\* The tags and the statistics, which reference the issue, and the envelope's outcome.
Finish(w) ==
  /\ At(w, "finish")
  /\ \/ work[w].id \in Ids /\ settled' = settled \cup {work[w].event} /\ UNCHANGED boundVars
     \/ ((work[w].id \notin Ids /\ UNCHANGED boundVars) \/ Fault) /\ UNCHANGED settled
  /\ work' = Drop(work, w)
  /\ UNCHANGED <<now, tableVars, attempts, updates, unmuted, historyVars>>

-----------------------------------------------------------------------------
\* Administrators, the snooze task, releases and retention.

\* What update_issue and bulk_update_issues write for each status; NoRelease is a
\* NULL resolved_in_release.
Request ==
  [status: {"ignored"}, until: 0..MaxTime, threshold: Threshold \cup {Null}, release: {NoRelease}]
  \cup [status: {"resolved"}, until: {Null}, threshold: {Null}, release: Release]
  \cup [status: {"unresolved"}, until: {Null}, threshold: {Null}, release: {NoRelease}]

Requested(r, q) ==
  [id |-> r.id, count |-> r.count, status |-> q.status, until |-> q.until,
   threshold |-> q.threshold, release |-> q.release]

\* The UPDATE, for one id or several.
Update(a, ids, q) ==
  /\ a \notin DOMAIN updates
  /\ changes < MaxUpdates /\ changes' = changes + 1
  /\ issues' = [p \in DOMAIN issues |->
                  IF issues[p].id \in ids THEN Requested(issues[p], q) ELSE issues[p]]
  /\ ignoredAt' = [p \in Fingerprint |->
                     IF p \in DOMAIN issues /\ issues[p].id \in ids /\ q.status = "ignored"
                     THEN issues[p].count ELSE ignoredAt[p]]
  /\ updates' = Put(updates, a, [ids |-> ids, kind |-> q.status])
  /\ UNCHANGED <<now, activity, events, queueVars, work, unmuted, torn, faults, deletions>>

\* The INSERT after it, all rows or none.  An error, or a client that hangs up
\* between the two, leaves nothing behind.
RecordUpdate(a) ==
  /\ a \in DOMAIN updates
  /\ \/ activity' = Recorded(updates[a].ids, updates[a].kind) /\ UNCHANGED boundVars
     \/ Fault /\ UNCHANGED activity
  /\ updates' = Drop(updates, a)
  /\ UNCHANGED <<now, issues, events, queueVars, work, unmuted, historyVars>>

\* unmute_expired_issues: UPDATE ... RETURNING id, then one INSERT per id.  The
\* next poll waits for the last of them.
DueOnTimeAlone(r) == \* mutant: skips the issues that also wait for a count
  r.status = "ignored" /\ r.until # Null /\ r.threshold = Null /\ r.until <= now

Due(r) == r.status = "ignored" /\ r.until # Null /\ r.until <= now

Unmute ==
  /\ unmuted = {}
  /\ \E p \in DOMAIN issues : Due(issues[p])
  /\ unmuted' = {issues[p].id : p \in {x \in DOMAIN issues : Due(issues[x])}}
  /\ issues' = [p \in DOMAIN issues |->
                  IF Due(issues[p])
                  THEN [issues[p] EXCEPT !.status = "unresolved", !.until = Null, !.threshold = Null]
                  ELSE issues[p]]
  /\ UNCHANGED <<now, activity, events, queueVars, work, updates, historyVars, boundVars>>

RecordUnmuted ==
  \E i \in unmuted :
    /\ unmuted' = unmuted \ {i}
    /\ \/ activity' = Recorded({i}, "unignored") /\ UNCHANGED boundVars
       \/ Fault /\ UNCHANGED activity
    /\ UNCHANGED <<now, issues, events, queueVars, work, updates, historyVars>>

\* associate_project, the API's ensure_release; an error in the UPDATE is ignored.
AssociateProject(v) ==
  /\ \/ issues' = ResolvedIn(v) /\ UNCHANGED boundVars
     \/ Fault /\ UNCHANGED issues
  /\ UNCHANGED <<now, activity, events, queueVars, work, updates, unmuted, historyVars>>

\* DELETE FROM issues: issue_activity cascades, events.issue_id is set to NULL.
RemoveKeepingEvents(ids) == \* mutant: events keep the id of the deleted issue
  /\ issues' = Restrict(issues, {p \in DOMAIN issues : issues[p].id \notin ids})
  /\ activity' = Restrict(activity, Ids \ ids)
  /\ torn' = torn \cup {work[w].id : w \in {v \in DOMAIN work :
                          work[v].pc \in {"record", "store"} /\ work[v].id \in ids}}
  /\ UNCHANGED events

RemoveKeepingActivity(ids) == \* mutant: the activity of a deleted issue remains
  /\ issues' = Restrict(issues, {p \in DOMAIN issues : issues[p].id \notin ids})
  /\ UNCHANGED activity
  /\ events' = [e \in DOMAIN events |-> IF events[e] \in ids THEN Null ELSE events[e]]
  /\ torn' = torn \cup {work[w].id : w \in {v \in DOMAIN work :
                          work[v].pc \in {"record", "store"} /\ work[v].id \in ids}}

Remove(ids) ==
  /\ issues' = Restrict(issues, {p \in DOMAIN issues : issues[p].id \notin ids})
  /\ activity' = Restrict(activity, Ids \ ids)
  /\ events' = [e \in DOMAIN events |-> IF events[e] \in ids THEN Null ELSE events[e]]
  /\ torn' = torn \cup {work[w].id : w \in {v \in DOMAIN work :
                          work[v].pc \in {"record", "store"} /\ work[v].id \in ids}}

Removal(ids) ==
  /\ ids # {} /\ deletions < MaxDeletions /\ deletions' = deletions + 1
  /\ Remove(ids)
  /\ UNCHANGED <<now, queueVars, work, updates, unmuted, ignoredAt, faults, changes>>

\* delete_issue and bulk_delete_issues.
Delete(ids) == Removal(ids)

\* Retention: issues without events, one whose first event is on its way included.
PurgeIssues == Removal({i \in Ids : \A e \in DOMAIN events : events[e] # i})

\* Retention: events older than retention_days.  Every attempt at an event ends
\* long before.
ExpireEvent(e) ==
  /\ e \in DOMAIN events
  /\ e \in settled \/ attempts[e] = MaxAttempts
  /\ \A w \in DOMAIN work : work[w].event # e
  /\ events' = Drop(events, e)
  /\ UNCHANGED <<now, issues, activity, queueVars, work, updates, unmuted, historyVars, boundVars>>

Tick ==
  /\ now < MaxTime
  /\ now' = now + 1
  /\ UNCHANGED <<tableVars, queueVars, work, updates, unmuted, historyVars, boundVars>>

\* The process dies between any two statements.
Crash ==
  /\ Fault
  /\ work' = EmptyFunction /\ updates' = EmptyFunction /\ unmuted' = {}
  /\ UNCHANGED <<now, tableVars, queueVars, historyVars>>

WorkerStep(w) ==
  \/ \E e \in Event : Begin(w, e)
  \/ Upsert(w) \/ Record(w) \/ Store(w) \/ EnsureRelease(w) \/ Finish(w)

AdminStep(a) ==
  \/ \E ids \in SUBSET (1..MaxRowid) \ {{}}, q \in Request : Update(a, ids, q)
  \/ RecordUpdate(a)

Next ==
  \/ \E w \in Worker : WorkerStep(w)
  \/ \E a \in Admin : AdminStep(a)
  \/ Unmute \/ RecordUnmuted
  \/ \E v \in Version : AssociateProject(v)
  \/ \E ids \in SUBSET Ids : Delete(ids)
  \/ PurgeIssues
  \/ \E e \in Event : ExpireEvent(e)
  \/ Tick \/ Crash

Spec == Init /\ [][Next]_vars

\* The poller awakes every five seconds for as long as the process lives.
LiveSpec == Spec /\ WF_vars(Unmute) /\ WF_vars(RecordUnmuted)

-----------------------------------------------------------------------------
\* Properties.

\* The conditions that end a snooze belong to ignored issues, and a release to
\* resolved ones, whatever order the UPSERT, the administrators, the snooze task
\* and the releases write their columns in.
FieldsMatchStatus ==
  \A p \in DOMAIN issues :
    /\ issues[p].until # Null \/ issues[p].threshold # Null => issues[p].status = "ignored"
    /\ issues[p].release # NoRelease => issues[p].status = "resolved"

\* "auto-unmute ignored issues when snooze_event_count threshold is reached"
\* (comment on the UPSERT): an issue is not left ignored at or past its threshold
\* once an event has come since it was ignored.
ThresholdHonoured ==
  \A p \in DOMAIN issues :
    issues[p].status = "ignored" /\ issues[p].threshold # Null
      => issues[p].count < issues[p].threshold \/ issues[p].count = ignoredAt[p]

\* An event belongs to the issue with its fingerprint although row ids come
\* back, except on ids deleted between an event's UPSERT and its INSERT.
EventsOnTheirIssue ==
  \A e \in DOMAIN events :
    events[e] \notin torn \cup {Null} =>
      /\ FingerprintOf[e] \in DOMAIN issues
      /\ issues[FingerprintOf[e]].id = events[e]

\* An issue counts at least the events it has and those about to be inserted.
CountCovers ==
  \A p \in DOMAIN issues : issues[p].id \notin torn =>
    LET i == issues[p].id IN
      Cardinality({e \in DOMAIN events : events[e] = i})
        + Cardinality({w \in DOMAIN work : work[w].pc \in {"record", "store"} /\ work[w].id = i
                                             /\ work[w].event \notin DOMAIN events})
        <= issues[p].count

\* Two workers with the first two events of a fingerprint record one first_seen.
FirstSeenOnce ==
  \A i \in Ids \ torn :
    Cardinality({k \in DOMAIN activity[i] : activity[i][k] = "first_seen"}) <= 1

\* unmute_expired_issues: an issue whose snooze_until has passed does not stay
\* ignored, whatever else its snooze waits for.
Overdue(p) ==
  p \in DOMAIN issues /\ issues[p].status = "ignored" /\ issues[p].until \in 1..now

SnoozesEnd == \A p \in Fingerprint : Overdue(p) ~> ~Overdue(p)

\* "repeated calls for the same (version, project) are no-ops" (comment on
\* ensure_release): while no statement fails, an event of a release that an
\* earlier event already ensured resolves nothing.
RepeatedReleaseIsNoOp ==
  [][\A w \in Worker :
       EnsureRelease(w) /\ (\E e \in settled : VersionOf[e] = VersionOf[work[w].event])
         => UNCHANGED issues]_vars

\* Ids with an activity somebody is about to record.
Reported ==
  unmuted \cup UNION {updates[a].ids : a \in DOMAIN updates}
    \cup {work[w].id : w \in {v \in DOMAIN work : work[v].pc = "record"}}

\* "tracks state transitions" (migration 007): an issue that is reopened leaves
\* somebody with an activity to record.
ReopeningsRecorded ==
  [][\A p \in DOMAIN issues \cap DOMAIN issues' :
       issues[p].status = "resolved" /\ issues'[p].status # "resolved"
         => issues[p].id \in Reported']_vars
=============================================================================
