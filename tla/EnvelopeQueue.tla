---------------------------- MODULE EnvelopeQueue ----------------------------
(***************************************************************************)
(* The durable queue of ingested envelopes: persist_envelope               *)
(* (src/api/ingest.rs), the channel, the workers and the poller            *)
(* (src/worker/mod.rs), process_envelope (src/worker/processor.rs) and the *)
(* purge of settled envelopes (src/db/retention.rs).                       *)
(*                                                                         *)
(* The table is the queue; the channel only carries row ids and may lose,  *)
(* repeat or delay them.  An envelope carries one event.  Processing it is *)
(* a sequence of separate statements; the ones that matter to the queue    *)
(* are the UPSERT that counts the event on its issue and the INSERT of the *)
(* event, which a UNIQUE key refuses the second time.                      *)
(***************************************************************************)
EXTENDS Naturals, Sequences, FiniteSets, Functions

CONSTANTS
  Event,             \* event ids submitted by clients: UNIQUE(project_id, event_id)
  Malformed,         \* events whose envelope cannot be parsed
  Client,            \* ingest requests that can be in flight at once
  Worker,            \* envelope worker tasks
  Capacity,          \* slots of the worker channel
  PollLimit,         \* LIMIT of the poller's SELECT
  Stale,             \* seconds after which a processing envelope may be stolen
  MaxAttempts,       \* failures after which an envelope is dead
  BaseDelay,         \* seconds before the first retry
  MaxDelay,          \* longest delay before a retry
  EnvelopeRetention, \* age from which a settled envelope is purged
  WorkBound,         \* longest time from a claim's clock reading to its outcome
  PickupBound,       \* longest time a due envelope waits for its claim
  Lag                \* longest wait for SQLite's writer after reading the clock

CONSTANTS            \* bounds of the explored behaviours, not of the program
  MaxTime, MaxRowid, MaxFaults, LastFault, LastInsert, MaxDeletions

ASSUME NumbersAreNatural ==
  /\ Capacity \in Nat /\ PollLimit \in Nat /\ Stale \in Nat /\ BaseDelay \in Nat
  /\ MaxDelay \in Nat /\ EnvelopeRetention \in Nat /\ WorkBound \in Nat
  /\ PickupBound \in Nat /\ Lag \in Nat /\ MaxAttempts \in Nat \ {0}
  /\ MaxTime \in Nat /\ MaxRowid \in Nat /\ MaxFaults \in Nat /\ LastFault \in Nat
  /\ LastInsert \in Nat /\ MaxDeletions \in Nat

ASSUME EventsAreFinite == IsFiniteSet(Event) /\ Malformed \subseteq Event

VARIABLES
  now,       \* seconds on the server's clock
  rows,      \* table event_envelopes: rowid -> row
  channel,   \* row ids on their way to the workers
  senders,   \* requests that have inserted a row but not queued it: client -> event
  polled,    \* row ids the poller has read but not queued yet
  work,      \* busy workers: worker -> progress
  panicked,  \* workers whose task died of a panic; nothing restarts them
  projects,  \* events whose project exists
  stored,    \* event ids in table events
  counted,   \* event_count contributions: event -> number of UPSERTs made for it
  faults     \* crashes, panics and database errors so far

vars == <<now, rows, channel, senders, polled, work, panicked, projects, stored,
          counted, faults>>

Open == {"pending", "processing", "failed"}
Settled == {"done", "dead"}

\* next_attempt_at and processing_started_at are NULL until they are set.
Null == 0

Row == [event: Event, state: Open \cup Settled, attempts: Nat, next: Nat,
        started: Nat, received: Nat]
Task == [pc: {"claim"}, id: Nat]
        \cup [pc: {"load"}, id: Nat, since: Nat]
        \cup [pc: {"count", "store", "index"}, id: Nat, since: Nat, event: Event]
        \cup [pc: {"done", "failed"}, id: Nat, since: Nat]

TypeOK ==
  /\ now \in Nat
  /\ DOMAIN rows \subseteq Nat /\ \A i \in DOMAIN rows : rows[i] \in Row
  /\ channel \in Seq(Nat) /\ Len(channel) <= Capacity
  /\ DOMAIN senders \subseteq Client /\ \A c \in DOMAIN senders : senders[c] \in Event
  /\ polled \subseteq Nat
  /\ DOMAIN work \subseteq Worker /\ \A w \in DOMAIN work : work[w] \in Task
  /\ panicked \subseteq Worker
  /\ projects \subseteq Event
  /\ stored \subseteq Event
  /\ counted \in [Event -> Nat]
  /\ faults \in Nat

EmptyFunction == [x \in {} |-> x]
Put(f, x, v) == [y \in DOMAIN f \cup {x} |-> IF y = x THEN v ELSE f[y]]
Drop(f, x) == Restrict(f, DOMAIN f \ {x})

Init ==
  /\ now = 0
  /\ rows = EmptyFunction
  /\ channel = <<>>
  /\ senders = EmptyFunction
  /\ polled = {}
  /\ work = EmptyFunction
  /\ panicked = {}
  /\ projects = Event
  /\ stored = {}
  /\ counted = [e \in Event |-> 0]
  /\ faults = 0

\* A database error, a panic or the death of the process, at a time of its choosing.
Fault ==
  /\ faults < MaxFaults /\ now <= LastFault
  /\ faults' = faults + 1

\* Statements that bind a clock reading run up to Lag seconds after it.
ClockReadings == {t \in 0..now : now <= t + Lag}

\* try_send: a message that finds the channel full is dropped.
OfferUnbounded(q, id) == Append(q, id) \* mutant: a channel without a limit
Offer(q, id) == IF Len(q) < Capacity THEN Append(q, id) ELSE q

-----------------------------------------------------------------------------
\* Ingest: persist_envelope.

\* The rowid SQLite gives to an INTEGER PRIMARY KEY without AUTOINCREMENT: one
\* more than the largest in the table, so the ids of purged rows come back.
IsNextRowid(id) ==
  /\ \A i \in DOMAIN rows : i < id
  /\ id = 1 \/ id - 1 \in DOMAIN rows

\* INSERT OR IGNORE: a submission whose row exists changes nothing.
Insert(c, e) ==
  /\ c \notin DOMAIN senders /\ e \in projects /\ now <= LastInsert
  /\ \A i \in DOMAIN rows : rows[i].event # e
  /\ \E id \in 1..MaxRowid :
       /\ IsNextRowid(id)
       /\ rows' = Put(rows, id,
            [event |-> e, state |-> "pending", attempts |-> 0, next |-> Null,
             started |-> Null, received |-> now])
  /\ senders' = Put(senders, c, e)
  /\ UNCHANGED <<now, channel, polled, work, panicked, projects, stored, counted, faults>>

\* SELECT id and try_send; a failed SELECT queues nothing.
Queue(c) ==
  /\ c \in DOMAIN senders
  /\ \/ \E i \in DOMAIN rows :
          rows[i].event = senders[c] /\ channel' = Offer(channel, i) /\ UNCHANGED faults
     \/ /\ (\A i \in DOMAIN rows : rows[i].event # senders[c]) /\ UNCHANGED <<channel, faults>>
     \/ Fault /\ UNCHANGED channel
  /\ senders' = Drop(senders, c)
  /\ UNCHANGED <<now, rows, polled, work, panicked, projects, stored, counted>>

-----------------------------------------------------------------------------
\* The poller.

IsStaleEarly(i) == \* mutant: the staleness window is one second short
  rows[i].state = "processing" /\ rows[i].started + Stale <= now

IsStale(i) == rows[i].state = "processing" /\ rows[i].started + Stale < now

DueUnclaimed(i) == \* mutant: work in flight is never looked at again
  rows[i].state = "pending" \/ (rows[i].state = "failed" /\ rows[i].next <= now)

Due(i) ==
  \/ rows[i].state = "pending"
  \/ rows[i].state = "failed" /\ rows[i].next <= now
  \/ IsStale(i)

Poll ==
  /\ polled = {}
  /\ \E batch \in SUBSET {i \in DOMAIN rows : Due(i)} :
       /\ batch # {}
       /\ Cardinality(batch) <= PollLimit
       /\ Cardinality(batch) = PollLimit \/ \A i \in DOMAIN rows : Due(i) => i \in batch
       /\ polled' = batch
  /\ UNCHANGED <<now, rows, channel, senders, work, panicked, projects, stored, counted, faults>>

Repost ==
  \E i \in polled :
    /\ channel' = Offer(channel, i)
    /\ polled' = polled \ {i}
    /\ UNCHANGED <<now, rows, senders, work, panicked, projects, stored, counted, faults>>

-----------------------------------------------------------------------------
\* The workers: process_envelope and process_inner.

Receive(w) ==
  /\ w \notin DOMAIN work \cup panicked /\ channel # <<>>
  /\ work' = Put(work, w, [pc |-> "claim", id |-> Head(channel)])
  /\ channel' = Tail(channel)
  /\ UNCHANGED <<now, rows, senders, polled, panicked, projects, stored, counted, faults>>

ClaimableOpen(i) == \* mutant: no staleness guard
  i \in DOMAIN rows /\ rows[i].state \in Open

ClaimableAny(i) == i \in DOMAIN rows \* mutant: no state guard

\* The claiming UPDATE matches any pending or failed row, and a processing row
\* whose claim is older than Stale.
Claimable(i) == i \in DOMAIN rows /\ (rows[i].state \in {"pending", "failed"} \/ IsStale(i))

Claim(w) ==
  /\ w \in DOMAIN work /\ work[w].pc = "claim"
  /\ LET i == work[w].id IN
       \/ \E t \in ClockReadings :
            /\ Claimable(i)
            /\ rows' = [rows EXCEPT ![i].state = "processing", ![i].started = t]
            /\ work' = Put(work, w, [pc |-> "load", id |-> i, since |-> t])
            /\ UNCHANGED faults
       \/ /\ (~Claimable(i) /\ UNCHANGED faults) \/ Fault
          /\ work' = Drop(work, w)
          /\ UNCHANGED rows
  /\ UNCHANGED <<now, channel, senders, polled, panicked, projects, stored, counted>>

Settle(w, pc) == work' = Put(work, w, [pc |-> pc, id |-> work[w].id, since |-> work[w].since])

Advance(w, pc) == work' = [work EXCEPT ![w].pc = pc]

At(w, pc) == w \in DOMAIN work /\ work[w].pc = pc

LoadLenient(w) == \* mutant: an envelope that cannot be parsed counts as done
  /\ At(w, "load")
  /\ LET t == work[w] IN
       IF t.id \in DOMAIN rows /\ rows[t.id].event \notin Malformed
       THEN work' = Put(work, w, [pc |-> "count", id |-> t.id, since |-> t.since,
                                  event |-> rows[t.id].event])
       ELSE Settle(w, "done")
  /\ UNCHANGED <<now, rows, channel, senders, polled, panicked, projects, stored, counted, faults>>

\* Loads and parses the body of the row that has the claimed id now.
Load(w) ==
  /\ At(w, "load")
  /\ LET t == work[w] IN
       \/ /\ t.id \in DOMAIN rows /\ rows[t.id].event \notin Malformed
          /\ work' = Put(work, w, [pc |-> "count", id |-> t.id, since |-> t.since,
                                   event |-> rows[t.id].event])
          /\ UNCHANGED faults
       \/ /\ \/ t.id \notin DOMAIN rows /\ UNCHANGED faults
             \/ t.id \in DOMAIN rows /\ rows[t.id].event \in Malformed /\ UNCHANGED faults
             \/ Fault
          /\ Settle(w, "failed")
  /\ UNCHANGED <<now, rows, channel, senders, polled, panicked, projects, stored, counted>>

\* The issue UPSERT, event_count = event_count + 1; it and the INSERT after it
\* are refused once the project is gone.
Count(w) ==
  /\ At(w, "count")
  /\ \/ /\ work[w].event \in projects
        /\ counted' = [counted EXCEPT ![work[w].event] = @ + 1]
        /\ Advance(w, "store")
        /\ UNCHANGED faults
     \/ /\ (work[w].event \notin projects /\ UNCHANGED faults) \/ Fault
        /\ Settle(w, "failed")
        /\ UNCHANGED counted
  /\ UNCHANGED <<now, rows, channel, senders, polled, panicked, projects, stored>>

\* INSERT INTO events, refused when the event id is already there or the issue
\* is gone.
Storable(e) == e \in projects \ stored /\ counted[e] > 0

Store(w) ==
  /\ At(w, "store")
  /\ \/ /\ Storable(work[w].event)
        /\ stored' = stored \cup {work[w].event}
        /\ Advance(w, "index")
        /\ UNCHANGED faults
     \/ /\ (~Storable(work[w].event) /\ UNCHANGED faults) \/ Fault
        /\ Settle(w, "failed")
        /\ UNCHANGED stored
  /\ UNCHANGED <<now, rows, channel, senders, polled, panicked, projects, counted>>

\* Attachments, tags, statistics and alerts; an error still fails the envelope.
Index(w) ==
  /\ At(w, "index")
  /\ (Settle(w, "done") /\ UNCHANGED faults) \/ (Settle(w, "failed") /\ Fault)
  /\ UNCHANGED <<now, rows, channel, senders, polled, panicked, projects, stored, counted>>

\* UPDATE ... SET state = 'done' WHERE id = ?; an error is ignored.
MarkDone(w) ==
  /\ At(w, "done")
  /\ \/ /\ rows' = [i \in DOMAIN rows |-> IF i = work[w].id
                                          THEN [rows[i] EXCEPT !.state = "done"] ELSE rows[i]]
        /\ UNCHANGED faults
     \/ Fault /\ UNCHANGED rows
  /\ work' = Drop(work, w)
  /\ UNCHANGED <<now, channel, senders, polled, panicked, projects, stored, counted>>

\* A panic while the envelope is processed ends the worker's task for good.
Panic(w) ==
  /\ w \in DOMAIN work /\ work[w].pc \in {"load", "count", "store", "index"}
  /\ Fault
  /\ panicked' = panicked \cup {w}
  /\ work' = Drop(work, w)
  /\ UNCHANGED <<now, rows, channel, senders, polled, projects, stored, counted>>

\* MIN(300, 5 * (1 << MIN(attempts, 8))).
Shifted == <<1, 2, 4, 8, 16, 32, 64, 128, 256>>
Backoff(n) ==
  LET delay == BaseDelay * Shifted[IF n < 8 THEN n + 1 ELSE 9]
  IN IF delay < MaxDelay THEN delay ELSE MaxDelay

Failed(row) ==
  LET dead == row.attempts + 1 >= MaxAttempts
  IN [row EXCEPT !.attempts = @ + 1,
                 !.state = IF dead THEN "dead" ELSE "failed",
                 !.next = IF dead THEN Null ELSE now + Backoff(row.attempts)]

\* mark_failed: one UPDATE ... WHERE id = ?; an error is ignored.
MarkFailed(w) ==
  /\ At(w, "failed")
  /\ \/ /\ rows' = [i \in DOMAIN rows |-> IF i = work[w].id THEN Failed(rows[i]) ELSE rows[i]]
        /\ UNCHANGED faults
     \/ Fault /\ UNCHANGED rows
  /\ work' = Drop(work, w)
  /\ UNCHANGED <<now, channel, senders, polled, panicked, projects, stored, counted>>

-----------------------------------------------------------------------------
\* Retention, time and the death of the process.

Purgeable(i) == rows[i].state \in Settled /\ rows[i].received + EnvelopeRetention < now

Purge ==
  /\ \E i \in DOMAIN rows : Purgeable(i)
  /\ rows' = Restrict(rows, {i \in DOMAIN rows : ~Purgeable(i)})
  /\ UNCHANGED <<now, channel, senders, polled, work, panicked, projects, stored, counted, faults>>

\* DELETE of the issues without events, among them one whose first event is
\* counted and not stored yet.
PurgeIssues ==
  /\ \E e \in Event \ stored : counted[e] > 0
  /\ counted' = [e \in Event |-> IF e \in stored THEN counted[e] ELSE 0]
  /\ UNCHANGED <<now, rows, channel, senders, polled, work, panicked, projects, stored, faults>>

\* ON DELETE CASCADE takes the project's envelopes, issues and events along,
\* whatever their state; SQLite may give their ids to the next envelopes.
DeleteProject(e) ==
  /\ e \in projects /\ Cardinality(Event \ projects) < MaxDeletions
  /\ projects' = projects \ {e}
  /\ rows' = Restrict(rows, {i \in DOMAIN rows : rows[i].event # e})
  /\ stored' = stored \ {e}
  /\ counted' = [counted EXCEPT ![e] = 0]
  /\ UNCHANGED <<now, channel, senders, polled, work, panicked, faults>>

Busy(w) == w \in DOMAIN work /\ work[w].pc # "claim"

WorkersAreTimely == \A w \in Worker : Busy(w) => now < work[w].since + WorkBound

DueSince(i) ==
  CASE rows[i].state = "pending" -> rows[i].received
    [] rows[i].state = "failed" -> rows[i].next
    [] OTHER -> rows[i].started + Stale + 1

PickupsAreTimely == \A i \in DOMAIN rows : Due(i) => now < DueSince(i) + PickupBound

Tick ==
  /\ now < MaxTime
  /\ WorkersAreTimely /\ PickupsAreTimely
  /\ now' = now + 1
  /\ UNCHANGED <<rows, channel, senders, polled, work, panicked, projects, stored, counted, faults>>

\* Only the database survives the process.
Crash ==
  /\ Fault
  /\ channel' = <<>>
  /\ senders' = EmptyFunction
  /\ polled' = {}
  /\ work' = EmptyFunction
  /\ panicked' = {}
  /\ UNCHANGED <<now, rows, projects, stored, counted>>

WorkerStep(w) ==
  \/ Receive(w) \/ Claim(w) \/ Load(w) \/ Count(w) \/ Store(w) \/ Index(w)
  \/ MarkDone(w) \/ MarkFailed(w)

Next ==
  \/ \E c \in Client : (\E e \in Event : Insert(c, e)) \/ Queue(c)
  \/ Poll \/ Repost
  \/ \E w \in Worker : WorkerStep(w) \/ Panic(w)
  \/ Purge \/ PurgeIssues
  \/ \E e \in Event : DeleteProject(e)
  \/ Tick
  \/ Crash

Spec == Init /\ [][Next]_vars

\* The poller and the workers are loops the runtime keeps scheduling.
Fairness == WF_vars(Tick) /\ WF_vars(Poll) /\ WF_vars(Repost)
            /\ \A w \in Worker : WF_vars(WorkerStep(w))

LiveSpec == Spec /\ Fairness

-----------------------------------------------------------------------------
\* Properties.

\* While outcomes are written within the staleness window, repeated, late and
\* lost channel messages, steals of envelopes whose worker died and reused row
\* ids never put two workers on one envelope.
WorkersExclude ==
  \A v, w \in Worker : Busy(v) /\ Busy(w) /\ work[v].id = work[w].id => v = w

\* An envelope leaves the queue as done only after its event was stored, even
\* when workers outlive their claims and row ids are reused after a purge.
DoneMeansStored ==
  \A i \in DOMAIN rows : rows[i].state = "done" => rows[i].event \in stored

\* The outcome UPDATEs name only the row id.  Within the staleness window no
\* late worker rewrites a settled envelope: it is only ever purged.
SettledIsFinal ==
  [][\A i \in DOMAIN rows :
       rows[i].state \in Settled => i \notin DOMAIN rows' \/ rows'[i] = rows[i]]_vars

\* Until a crash, an error or the deletion of a project, an event is counted on
\* its issue once, however often its envelope is submitted, queued and polled.
CountedOnce ==
  faults = 0 /\ projects = Event => \A e \in Event : counted[e] <= 1

\* "the existing envelope is already queued or being processed, and the poller
\* handles recovery" (comment on persist_envelope): every stored envelope is
\* settled, after crashes, lost messages and failed attempts too.
EnvelopesSettle ==
  \A e \in Event :
    (\E i \in DOMAIN rows : rows[i].event = e /\ rows[i].state \in Open)
      ~> (\A i \in DOMAIN rows : rows[i].event = e => rows[i].state \in Settled)

\* Comment on the claim: "we only steal an in-flight envelope if the original
\* worker appears to be dead (started more than 60s ago). Without the staleness
\* guard two workers would race on a freshly-claimed envelope".  Two workers
\* hold one envelope only when one claim is more than Stale older.
FreshClaimsExclude ==
  \A v, w \in Worker :
    Busy(v) /\ Busy(w) /\ work[v].id = work[w].id /\ v # w
      => \/ work[v].since + Stale < work[w].since
         \/ work[w].since + Stale < work[v].since

\* Comment in mark_failed: "retry with exponential backoff".  A failed envelope
\* is claimed again only once its next_attempt_at has come.
BackoffHonoured ==
  [][\A i \in DOMAIN rows \cap DOMAIN rows' :
       rows[i].state = "failed" /\ rows'[i].state = "processing" => rows[i].next <= now]_vars

=============================================================================
