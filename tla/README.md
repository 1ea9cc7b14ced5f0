# A TLA+ verification of bugs

bugs is an error tracker that speaks Sentry's protocol: one Rust process, one
SQLite database with a single writer connection, one directory of artifacts.
This directory holds specifications of its parts, the TLC configurations that
check them on small instances, and TLAPS proofs about them. Source paths below
are relative to the repository's root.

## The system

| Component | State | Operations | Hard behaviour |
|---|---|---|---|
| DIF assembly queue (`src/worker/dif_assembly.rs`) | `dif_assemblies` rows, staging directories | request, claim, heartbeat, publish, cleanup | leases, crash loops, files against rows |
| Envelope queue (`src/api/ingest.rs`, `src/worker/mod.rs`, `src/worker/processor.rs`) | `event_envelopes` rows, in-memory channel | persist, poll, claim, process, settle | at-least-once delivery, unfenced outcomes, reused row ids |
| Retention (`src/db/retention.rs`) | the rows and files of the others | hourly and manual cleanup | deletes under the feet of running work |
| Issue lifecycle (`src/worker/processor.rs`, `src/api/issues.rs`) | `issues`, `issue_activity` | UPSERT, resolve, ignore with snooze, bulk updates | status read before the UPSERT, snoozes that end in two ways |
| Chunk store (`src/util/chunk_store.rs`) | files with modification times | upload, touch, expire | touch against collection |
| Artifact store (`src/util/artifact_store.rs`, `src/api/dsyms.rs`, `src/api/chunked_upload.rs`) | immutable files, `artifact_debug_ids` | convert, store and select the best | concurrent uploads of one identity, rows of older versions, lost files |
| Symbolication (`src/worker/symbolication.rs`, `src/worker/native_symbolication.rs`, `src/util/byte_capped_lru.rs`) | process-wide LRU caches | get, put, invalidate, look up frames | invalidation against a fill in flight, byte accounting, return addresses |
| Alerts (`src/worker/alerts.rs`, `src/api/alerts.rs`) | `alert_rules` | edit, evaluate, fire | cooldown checked before it is written |
| Ingest admission (`src/api/ingest.rs`, `src/ingest/abuse.rs`, `src/ingest/auth.rs`) | LRU of windows, cache of origin lists | authenticate, limit, decompress | window edges, eviction, stale lists |
| Releases (`src/api/releases.rs`) | `releases`, `release_files`, files | upsert, upload, delete | read-merge-write, two uploads to one path |
| Database (`src/db/pool.rs`, `src/db/checkpoint.rs`) | schema version, one writer connection, WAL | migrate, wait for the writer, checkpoint | migrations that fail half way, two processes at start, tasks that wait for each other |
| Grouping (`src/worker/normalizer.rs`, `src/worker/fingerprint.rs`, `src/worker/dart_symbol_map.rs`) | none | names, frames, fingerprint, title | one cause under many stacks |
| Minidumps (`src/api/minidump.rs`, `src/ingest/minidump.rs`, `src/ingest/cfi.rs`) | cache of unwind tables | read the parts, walk, build the envelope | parts in any order, a client that dies in a write, budgets |
| Index (`src/worker/indexer.rs`, the tail of `src/worker/processor.rs`) | tags, their values and counters, hourly statistics, transaction groups | one statement after another, retried as a whole | two workers on one key, an envelope that fails half way |
| Everything else | none or external | queries, MCP, comments, frontend | see "Not modelled" |

The parts interact through the database and the file system only, except for
the channel from the ingest handlers and the poller to the envelope workers.
An HTTP request of a client may be dropped at any `await`; workers, poller and
retention are tokio tasks of one process, which may die at any point; SQLite and
the files survive it.

What makes each part correct is stated as the properties of its module, below;
`PROJECT.json` lists the hazards, at their lines, that the properties are for.

## Plan

In this order; 1 to 9 are done.

1. `DifAssembly` with the abstract queue `AssemblyJobs`.
2. `EnvelopeQueue`.
3. `IssueLifecycle`: UPSERT and status changes by several workers, administrators
   and the snooze task.
4. `ArtifactStore` with `DebugFiles`: selection of the best upload, whatever the order.
5. `ReleaseFiles`, `ByteCappedLru`: invalidation against fills; byte accounting.
6. `IngestAdmission` with `RateLimiter`; `AlertRules`; `ChunkCollector`.
7. `Migrations` and `LeaseHeartbeat`: the two uses of the single writer connection
   that can go wrong as a protocol.
8. `EnvelopeItems`: what an envelope leaves behind besides its issues.
9. Algorithms against reference definitions: `NativeFrames`, `MinidumpUpload`,
   `EventGrouping`.
10. Left: keyset pagination and the search route, the framing of envelopes,
    attachments, commits and deploys of releases.

Abstract specifications: `AssemblyJobs` for the assembly queue. For the artifact
store the promise is a state property, `BestSelected`; for the algorithms it is the
reference definition inside the property (what ran, for `FramesAreTheCalls`; what the
client wrote, for `NewestBreadcrumbs`; what caused the event, for `OneIssuePerCause`).
Theorems: type correctness and the safety invariants of the queues, the refinement,
the selection of artifacts, the schema, the heartbeat, what envelopes leave behind, the
counters of issues, the caches, the limiter, alerts, the answers to uploads, crashes,
native traces and what keeps a cause in one issue (done). Left: the ranges of
`ServerTypeOK` where no theorem needs them.

## Modules

| Module | Contents |
|---|---|
| `AssemblyJobs` | what the assembly queue promises: one job per key, finished once, discarded only when finished |
| `DifAssembly` | the assembly queue in detail, with the refinement mapping to `AssemblyJobs` |
| `MCDifAssembly` | its instances for TLC |
| `DifAssembly_proofs` | type correctness, the safety theorems and the refinement |
| `EnvelopeQueue` | the durable envelope queue |
| `MCEnvelopeQueue` | its instances for TLC |
| `EnvelopeQueue_proofs` | type correctness and the safety theorems |
| `IssueLifecycle` | issues: events, updates, snoozes, releases, deletion |
| `MCIssueLifecycle` | its instances for TLC |
| `IssueLifecycle_proofs` | type correctness and the safety theorems |
| `Subsequences` | the elements of a sequence that a filter keeps |
| `DebugFiles` | what an uploaded debug file becomes: objects, bundles, unwind tables, symbol maps |
| `ArtifactStore` | uploads that compete for the row of an identity |
| `ReleaseFiles` | a release's record, its files and the caches of its source maps |
| `ByteCappedLru` | the cache with a cap of entries and a budget of bytes |
| `RateLimiter` | the windows of public keys |
| `IngestAdmission` | requests from header to queue: keys, origins, limits, bodies; composed with `RateLimiter` |
| `AlertRules` | rules that are edited, judged and fired |
| `ChunkCollector` | uploads that refresh chunks against the collector |
| `Migrations` | start-up of one or two processes on one database |
| `LeaseHeartbeat` | the tasks inside one claimed assembly job and the writer connection they share |
| `EnvelopeItems` | events, transactions and reports of an envelope, statement by statement |
| `NativeFrames` | native stack traces to source lines |
| `MinidumpUpload` | a native crash from the client's files to the envelope |
| `EventGrouping` | names, fingerprints and titles of events |
| `Subsequences_proofs` | lemmas on subsequences, least numbers, sums and concatenations |
| `Storage_proofs` | theorems about `ArtifactStore`, `ChunkCollector`, `Migrations` and `LeaseHeartbeat` |
| `EventWork_proofs` | theorems about `EnvelopeItems`, `AlertRules` and `EventGrouping` |
| `Crash_proofs` | theorems about `MinidumpUpload` and `NativeFrames` |
| `Caches_proofs` | theorems about `ReleaseFiles`, `RateLimiter`, `IngestAdmission` and `ByteCappedLru` |
| `MCServer` | the instances of all of these for TLC, one component per behaviour |

### DifAssembly

One database statement or one file operation is one action. A request goes
through `Lookup`, `CheckArtifacts`, `ExpireReceipt`, `BeginPin`, one `LinkChunk`
per chunk, `EndPin` and `Enqueue` (`request` and `pin_chunks`); `Leave` is every
early end of it, a client that hangs up included. A link in progress is not
abandoned with the request, because it runs in `spawn_blocking`. A worker goes
through `Claim`, `ReadPins`, `StoreArtifacts`, `Publish` and `UnpinJob`, while
`Heartbeat` renews its lease; `CleanStat`, `CleanCheck` and `CleanRemove` are the
staging collector, several of which may run at a time. `Crash` empties the state
of all tasks and may start a newer build (`version` is `PROCESSING_VERSION`).

The table's rows are a function from job ids; the UNIQUE key is the `key` field.
A job id also names the staging directory. Hash contents, the conversion itself
and the response are abstracted: a conversion ends well or in an error.
`artifacts` holds the keys whose canonical artifact is present. `attempts` is a
history variable: the number of conversions started for a job.

### EnvelopeQueue

`Insert` and `Queue` are the two database calls of `persist_envelope`; `Poll`
reads a batch and `Repost` posts one id of it; a worker goes through `Receive`,
`Claim`, `Load`, `Count` (the issue's UPSERT), `Store` (the event's INSERT),
`Index` (what follows) and `MarkDone` or `MarkFailed`. `Purge` and `PurgeIssues`
are the retention task; `DeleteProject` is the cascade. An envelope carries one
event, in a project of its own. Events are abstract ids, some of them in
envelopes that cannot be parsed. Row ids are chosen as SQLite does for a table
without AUTOINCREMENT, so ids of deleted rows come back.

Deletion of old events is left to `IssueLifecycle`: their retention is counted in
days and that of settled envelopes in hours.

### IssueLifecycle

The issues of one project, as a function from fingerprints to rows: the UNIQUE key
is the function's domain. A worker goes through `Begin` (the SELECT of the status),
`Upsert`, `Record`, `Store`, `EnsureRelease` and `Finish`, statements 9 to 11 of
`process_inner` and what follows. What `EnvelopeQueue` promises is the guard of
`Begin`: one worker per event, a limited number of attempts. `Update` is the UPDATE of
`update_issue` and `bulk_update_issues` (a single update is a bulk update of one id)
and `RecordUpdate` the INSERT after it; `Unmute` and `RecordUnmuted` are
`unmute_expired_issues`; `AssociateProject` is the API's twin of `EnsureRelease`;
`Delete` and `PurgeIssues` delete issues with the cascades of the schema, and
`ExpireEvent` deletes old events. Every statement is a step, so the status a worker
read may be stale when its UPSERT runs, and an id may be deleted, and be given to
another issue, between two statements that use it.

Two history variables: `ignoredAt`, the count an issue had when it was last ignored
(a threshold may be set that is already passed; the next event ends such a snooze),
and `torn`, the ids deleted while a worker was between its UPSERT and its event's
INSERT. On a torn id the code can and does put the event, or its `first_seen` record, on
the issue that got the id; the properties say what holds on every other id.

### ArtifactStore and DebugFiles

`ConvertFile` and `AssembledItems` are `convert_upload` and `process_assembled`: a
file is what its parser sees (objects with identifier, architecture, quality and
digest). `BeginStore` is the BEGIN IMMEDIATE of `store_artifact` with the SELECT and,
for a row without a quality, the reading of its file; `KeepStored` the branch in which
the stored row wins; `PublishFile` and `CommitRow` the other. Only one transaction can
be open, so `storeTx` is one variable, but the file and the row are two steps.
Digests are numbers, in the order in which the code compares them. `CanonicalVanishes`
loses a file between transactions, which the next upload repairs. `upload_dsym`'s row
in `releases` and the staging of multipart bodies are left out.

### ReleaseFiles and ByteCappedLru

`ReadRelease` and `WriteRelease` are the two statements of `create_release`
and the upload, the whole record written back; `TruncateFile` and `WriteFile` write a
file in place, `UpsertFileRow`, `DropList` and `DropMap` follow, and a deletion goes
`FindFileRow`, `DeleteFileRow`, `UnlinkFile`; `HangUp` ends a request in between. The
symbolicator goes through the two caches, list (`LookUpList` to `PutList`), then map
(`MatchFrame` to `PutMap`); `EvictList` and `EvictMap` are entries that age out. `ByteCappedLru` has the cache alone, with costs
of values: entries, recency and the counter kept by hand.

### IngestAdmission and RateLimiter

`CheckRate` is `RateLimiter::check` under its mutex. A request goes through `ResolveKey`,
`LimitRate`, `LookUpOrigins`, `SelectOrigins`, `PutOrigins`, `JudgeOrigin`, `DecodeBody`
and `Persist`; `EditOrigins` and `RevokeKey` run against it. The time a list was fetched at is read before the SELECT, as in the code.

### AlertRules

`CountEvent` is the UPSERT of `issue_stats_hourly`, in the hour of the event's own
timestamp: the client's, which may be old or ahead of the server's clock, or, when the
client sent none, the time at which `normalize` ran. `PruneBuckets` is the DELETE of old
hours in `run_cleanup`. `LoadRules` is the SELECT of the rules and the reading of the
clock, some time after the event was counted; `SkipRule`, `StartFiring`, `FireAction` and
`RecordFired` judge and fire from that reading. `LoseEvaluation` is a failing SELECT or
the end of the process, after which no retry comes back to the rules (the event is
stored); `SkipUnread` is a sum that cannot be read, which the code takes for a threshold
not reached. `ReadRule` and `WriteRule` are the two statements of `update_alert`.
`overlapped` names the rules that a worker fired from a reading older than another's
firing, which the code allows.

`AlertsNotMissed` relates the rules to the events, not to the buckets: when the events up
to one of them have reached a threshold, counted by their own times in the window, the
rule has been fired since or is cooling down, whichever worker counted or judged last,
wherever the hours fall and whatever has been pruned. It exempts rules a request has
touched, events whose evaluation a fault lost, and windows so long that the retention
cuts into their first hour. The module follows one issue, which is not deleted, and one
rule in the run.

### ChunkCollector

A part refreshes an existing file or writes a new one; the collector's stat and
removal are two steps, so a refresh between them is lost and the property says what
the code then promises.

### Migrations and LeaseHeartbeat

`ReadVersion`, `BeginMigration`, `ExecuteStatement` for each statement, and
`CommitMigration` with the marker; failures and crashes anywhere, two processes at a time. `split_sql_statements`
is external in effect: a migration is its number of statements. In `LeaseHeartbeat` the
writer connection is a FIFO queue; the conversion, the heartbeat and other requests
wait in it, and `select!` is the choice between `ReturnResult` and `Beat`.

### EnvelopeItems

One action per statement of the tail of `process_inner` and of `index_event`, in their
order; `FailEnvelope` is `mark_failed`, and the retry starts at the first item.
`EnvelopeQueue` provides the guard of `TakeEnvelope`: one worker per envelope.
`lapsedKeys` is a history variable: keys whose recount a failure took away.

### NativeFrames, MinidumpUpload and EventGrouping

Functions of one input, checked over every case of the instance. `NativeFrames` starts
from a program and its calls, lets the client report their addresses in each way the
protocol has, and compares what the lookup returns with the calls; `FrameReported` says
what such a report is, in terms of images, modes and instruction sizes. `MinidumpUpload`
has two actors: the client that writes breadcrumbs into two files by turns and dies,
and the handler that reads the parts in the order they come. `EventGrouping` starts
from causes; events of one cause must have one fingerprint, and of two causes two.

## Runs

| Run | Shows | Bounds |
|---|---|---|
| `assembly_safety` | types, pins of active jobs, refinement of `AssemblyJobs` | 1 key, 2 jobs, 2 clients, 2 workers, 1 fault, times to 3 |
| `assembly_owners` | no two workers own one job; a job is converted at most `MaxClaims` times | 1 job, 2 workers, lease 2, `Lag` 1, MaxClaims 2, 2 faults, one upgrade, times to 6 |
| `assembly_live` | every job finishes, every directory goes | 2 workers, 2 faults |
| `envelope_safety` | types, exclusive workers, done means stored, final outcomes | 2 events, one malformed, 2 workers, 1 fault, times to 3 |
| `envelope_live` | every envelope is settled, also while projects are deleted; an event is counted once if nothing fails | 1 event, 2 workers, 1 fault, 1 deletion, channel of 1 |
| `issue_updates` | columns agree with the status and the threshold; snoozes end | 1 fingerprint, 2 events, 2 workers, 2 updates, 1 fault |
| `issue_deletion` | events, counts and records stay with their issue | 2 fingerprints, 3 events of 2 attempts, 2 workers, 2 deletions, 1 fault |
| `server_components` | each of the thirteen components around the queues keeps its promises (below) | see below |
| `issue_release` | *violated*: an old release resolves "next release" issues | 2 events of one release, 1 worker |
| `issue_reopen` | *violated*: a stale status hides a regression | 2 events, 1 worker, 1 update |
| `envelope_race` | *violated*: a late worker lets a third one in | 3 workers, outcomes later than the window |
| `envelope_backoff` | *violated*: a duplicate message defeats the backoff | 1 malformed event |

Two actors of a kind are enough for the races of interest: each of them is
between a holder and a usurper, a writer and a collector, or a first and a second
request for a key. `envelope_race` needs three because it takes a late holder, a
thief and the one that profits. Two jobs for one key are enough for a job that
replaces another. Every run lets the clock pass each timeout at least once
(lease, retention, staleness window, backoff), which is why the time bounds
exceed their sums. `MaxFaults` bounds crashes, errors, panics and deletions
together; `LastFault` and `LastInsert` stop them early enough in the liveness
runs that the remaining time is long enough for every retry. Symmetry is used in
the safety runs only.

In `issue_updates` the second event meets the threshold 2 that an administrator set
after the first, and one fingerprint suffices because no id changes hands. For ids that
come back the two fingerprints of `issue_deletion` are needed: the owner of the id and
its heir.

`server_components` is a sum, not a product: the components of `MCServer` share no
variable, so each behaviour runs one of them (`part`) and the state spaces add up. Its
parts, with the properties besides types (in parentheses the conjuncts of one):

| Part | Instance | Properties |
|---|---|---|
| artifacts | a zip, a pair and a single object of two identities, an older row, 1 fault or lost file | `BestSelected`, `RowsSound` (`RowsHaveFiles`, `OneRowPerIdentity`), `AnswersAreTrue` |
| release | an update of one field, an upload and a deletion under two names of one path, 1 worker | `CachesFollowFiles`, `OtherFieldsKept` |
| cache | 3 keys, costs 1, 2 and 4, caps of 2 entries or 3 bytes | `LruSound` (`LruAccounting`, `BudgetHonoured`) |
| limiter | 3 limited keys, room for 2, limits 1 and 2, window 2 | `RateHonoured` |
| ingest | 3 clients, one of them a browser that is not allowed, 1 edit | `OriginsFresh` |
| alerts | 1 rule (2 events in 2 ticks, and an attribute) that is edited, deleted and created, 2 workers, events without a timestamp or 1 or 3 ticks before the start, hours of 2 ticks, kept for 4, 1 fault | `FiringsSound` (`CooldownSpacesFirings`, `FiredInFull`), `AlertsNotMissed` |
| migrations | 3 migrations of 2, 1 and 2 statements, 2 processes, 2 faults | `SchemaSound` (`SchemaMatchesMarkers`, `ServesCurrentSchema`) |
| heartbeat | 2 transactions, 2 heartbeats | `NoOrphanConversion`, `LeaseTaskReturns` |
| chunks | two parts of one chunk and one with a wrong hash, 2 sweeps | `UploadedChunksKept` |
| native | 8 ways of reporting, 3 modes of address, 2 architectures; images without symbols | `FramesAreTheCalls` |
| minidump | 3 requests, 2 CPUs, with and without a crashed thread, up to 5 breadcrumbs | `CrashReported` (`NewestBreadcrumbs`, `TablesFitTheDump`, `EnvelopeFits`) |
| grouping | 4 hangs under 3 waits, errors, obfuscated builds, messages, own fingerprints | `GroupsSound` (`OneIssuePerCause`, `HangsNameTheirGroup`) |
| items | 3 envelopes, 2 workers, cap of 2 values, chunks of 2 tags, 1 fault | `TagsSound` (`TagValuesCapped`, `KeysCountTheirValues`), `ItemsAccounted` (`DoneIsComplete`, `RetriesCountOnce`, `GroupsCoverTransactions`) |

The caps are small so that they are reached: the third key evicts, the third value is
over the cap, the second request is refused, the third tag needs a second INSERT, an
attachment does not fit. The alerts' clock has two values only, but their events' times
have four: within the window and before it, in the window's first hour, and in an hour
that is pruned when the clock moves. Two writers of a kind are the race each part is about.

All runs have `CHECK_DEADLOCK FALSE`: the bounded clock stops, and a server
without clients is idle.

### Timing assumptions

The code has no upper bounds of its own on how long a task is delayed, so the
models have a `Tick` that waits for the tasks named here, and the properties that
depend on it say so.

* `BeatGap`: an owner writes its lease again within it (the heartbeat runs every
  10 s against a lease of 60 s). `OwnersExclude` needs `Lag <= BeatGap <= Lease`;
  `ActivePinsPresent`, `AttemptsBounded` and the refinement do not.
* `Lag`: how old the clock reading bound to a statement may be when SQLite's
  writer runs it.
* `AdmitBound < Retention`: a request enqueues its job long before the hours
  that chunk retention takes. `ActivePinsPresent` needs it.
* `WorkBound <= Stale`: an envelope's outcome is written within 60 s of its
  claim. `WorkersExclude`, `SettledIsFinal` and the proof of `DoneMeansStored`
  need it. `envelope_race` shows what happens without it. Alert webhooks have a
  timeout of 10 s each and are fired in turn, so the code does not guarantee it.
* `PickupBound`: a due envelope is claimed within it. Only the liveness runs of
  the envelope queue set it (to 0), to fit all retries under `MaxTime`; in the
  others it exceeds the run's time and constrains nothing.

### Fairness

Weak fairness of the clock and of each task's next step: tokio keeps scheduling
tasks that can run. Requests must run on or leave, nothing makes a client ask, a
chunk arrive or an administrator act. The heartbeat needs no fairness: its
absence only loses the lease. `LeaseTaskReturns` needs that the runtime polls the
conversion, the lease task and the requests in front of them in the writer's queue;
nothing makes a request come. `SnoozesEnd` needs the poller's two steps only, which
repeat for as long as the process lives.

## Proofs

TLAPS proves, for every value of the constants:

* `DifAssembly_proofs`: `TypeCorrect`; `PinsPresent`; `AttemptsAreBounded`;
  `OwnersAreExclusive` (assuming `Lag <= BeatGap` and `BeatGap <= Lease`);
  `JobsRefined`, every step of `DifAssembly` is a step of `AssemblyJobs` or a stutter.
* `EnvelopeQueue_proofs`: `TypeCorrect`; `WorkersAreExclusive`, `DoneIsStored`
  and `SettledStays` (assuming `WorkBound <= Stale`, `Lag <= WorkBound` and no
  deletion of projects); `CountsOnce` (for behaviours in which no client submits
  an envelope again after its settled row was purged: such a client is counted
  again, as the code means it).
* `IssueLifecycle_proofs`: `IssueTypeCorrect`; `FieldsMatchStatusHolds`;
  `ThresholdHonouredHolds`; `EventsOnTheirIssueHolds`; `CountsCoverEvents`;
  `FirstSeenIsRecordedOnce`.
* `Storage_proofs`: `RowsKeepFiles` and `IdentitiesAreUnique`, together
  `RowsStaySound`; `BestStaysSelected`; `AnswersStayTrue`; `ChunksTypeCorrect` and
  `ChunksAreKept`; `MigrationsTypeCorrect`; `SchemaIsMarked` and `CurrentSchemaServed`,
  together `SchemaStaysSound`; `HeartbeatTypeCorrect`; `NoConversionLeft`.
* `EventWork_proofs`: `TagsStayCapped` and `CountersCatchUp`, together
  `TagsStaySound`; `ItemsAreAccounted`; `FiringsAreSound`; `AlertsAreNotMissed`;
  `CausesStayTogether`.
* `Caches_proofs`: `ReleaseTypeCorrect`, `CachesFollow`, `OtherFieldsAreKept`;
  `RateTypeCorrect`, `RateLimitHonoured`; `OriginsAreFresh`; `IngestUsesLimiter`, that the ingest routes
  implement `RateSpec`, and from it `IngestRateHonoured`; `LruIsSound`.
* `Crash_proofs`: `MinidumpTypeCorrect` and `CrashIsReported`; `NativeTypeCorrect` and
  `TracesAreTheCalls`.

`ActivePinsPresent` is not inductive. `PinInv` strengthens it: every id in use was
drawn (`IdsDrawn`); a request that holds an id is the only task that does, and no
row has it (`HoldersAlone`); the directory of a request on its way to the INSERT
exists, is at most `AdmitBound` old, and holds every chunk but those still to be
linked (`HoldersPinned`); a worker about to unpin has a job that is not active
(`UnpinnersDone`); the collector looks only at directories older than `Retention`,
and removes only those whose job is not active (`CleanerSound`). The last but one
and `AdmitBound < Retention` keep the collector away from a directory between its
check and the INSERT of its row.

`AttemptsInv`: a row's `claims` is at least the number of conversions started for
it, and an id no row has used has none. `LeaseInv`: owner ids are distinct, and an
owner that has not given up has the row, with `lease_until` exactly `Lease` after
its last beat, which is at most `BeatGap` ago. A claim needs `lease_until < t`
for a clock reading `t <= now`, so it finds no such owner.

`QueueInv` states that a busy worker's row exists, is `processing` and has the time
stamp of that worker's claim (`ClaimHeld`), that the event it carries is the row's
and that a worker past the INSERT has its event stored. A claim needs a free row
or one that is stale; a stale row has no busy worker within `WorkBound`.
`SettledIsFinal` follows because outcomes are only written on rows that are
`processing`.

`RowsAgree` states both properties of an issue's columns row by row, and each statement
that writes a row keeps it; a count that the UPSERT adds keeps the issue below its
threshold because `ReachesThreshold` failed.

`EventsOnTheirIssue` is not inductive, because `Store` uses an id that an earlier
statement returned. `PlaceInv` adds that the ids of issues are distinct and not NULL
(`IdsDistinct`: a new id is above all others) and that a worker between its UPSERT and
its INSERT has the id of the issue with its event's fingerprint, or one that is torn
(`HeldOnIssue`).

`StoreInv` carries `BestSelected` through a transaction. Between BEGIN and COMMIT it
says that what was read is still so (`ReadRow`): the row exists and has the payload's
identity, or has no architecture and no row with one does; its quality is that of its
file, which exists; or its file was gone, and then everything stored so far is kept by
another row. `RowTrue` (a row says what its file is) makes two rows on one file agree,
so that a lost file takes with it only what was forgotten with it. `RowReplaced` is the
common end of both branches: a row replaced by one that keeps what it kept. From the
assumptions: digests identify payloads, architectures have names, an object that was
converted has a payload. The last is true of `DebugFiles` for every file but would need
induction over its entries; TLC evaluates it on the instance.

`ReportInv` carries `AnswersAreTrue` through a request: the items before the current one
are reported, each once, and the current one too while its unwind tables are on their way
(`Reporting`); the transaction stores the part its request is at (`TxOwned`), so the row
it writes is the one the request then lists; and a listed identity keeps a row
(`ArtifactsHaveRows`), because only a row of the same identity or one without an
architecture is ever replaced. From the assumptions: what a file converts to is a
sequence, and `NoHint`, the request that names no identifier, is no object's.

`MigrationInv`: markers are the versions up to some `k` and the schema is the statements
of these, in order (`MigratedTo`); a process that migrates has passed only committed
migrations (`StartsBehind`), which lets a second process skip what the first has done;
the owner of the transaction is the only one between BEGIN and COMMIT and its statements
are a prefix of its migration (`OwnerExecutes`). Without the second a process could
mark a version it never ran.

`HeartbeatInv`: a task is in the queue exactly while its state says that it waits or
holds, and a conversion in a transaction is the head (`QueueIsTheWaiting`).

`TagInv`: a worker owes recounts only between its first value and its bucket
(`WorkShape`), so an envelope that ends well leaves none; with that both properties of
tags are inductive, because the cap is judged by the statement that inserts and a
recount reads the table in the statement that writes.

`CountInv`: no two rows have one event (`OneRowPerEvent`); and while nothing has gone
wrong, an event that is counted and not stored has a worker at its INSERT
(`CountedIsStored`), and a stored one has a row that is done or whose worker is past the
INSERT, or no row any more (`StoredIsSettling`). An event is therefore counted again only
when its row was purged and a client submits it again, which the hypothesis excludes.

`ChargeInv`: an issue's count bounds the number of events charged to it, those stored and
those whose workers are between the UPSERT and the INSERT, where no two workers have one
event (`WorkersApart`). `SeenInv`: an issue has its first_seen record, or one worker that
is to write it, or neither, because only the UPSERT that inserts an issue returns 1.

`ChunkInv`: the file's time, all that the collector sees, is at least that of the last
answer (`RefreshedWhenUploaded`), and a pass removes only what was at least as old as its
cutoff when it looked (`SweepsTheStale`).

`ReleaseInv`: a cached list or map is the stored one, or is marked stale, or a request that
changed it is still on its way to the invalidation or was dropped there (`ListFollows`,
`MapsFollow`); and what a request has merged differs from the stored record in its own
fields only, unless it was overtaken (`MergedOverStored`).

`RateInv`: the place of a key in the map is the number of others used since
(`PlaceIsRecency`), so that a key is pushed out only after `TrackedKeys` others
(`ForgottenInTurn`). A window has counted all admissions since it began, and the span of
one window before it holds at most the limit (`WindowsCount`); any span meets at most these
two. `OriginInv` dates the lists: what a request or the cache holds is in force or was so
until some time after it was read (`HeldFrom`).

`LruInv`: no two entries have one key and the counter is their bytes and what was lost.
The bytes of an entry are then at most the counter, so `SatSub` never saturates and the
counter is never too low.

`BucketInv`: from any hour that is not pruned yet on, the buckets hold as many events as
were counted in these hours (`BucketsSum`), so a sum is at least the number of events in
its window (`SumCoversWindow`). `FiringInv`: a worker in a
firing has attempted all but what it has left (`IsCurrent`); on a rule without overlap the
row carries the time of the last recorded firing (`RowsRemember`), and so does a reading
that knows every firing (`KnowsAll`), which is what `Cooling` judges by. `AnswerInv`: the
row of a rule no request has touched differs from its first state in `last_fired` only,
which is the time of a recorded firing (`RowsAsFirst`), and a worker reads the rules after
its event was counted (`Reading`). A rule that is passed over had then a condition that
did not hold, and does not hold later as the window slides on, or a cooldown that a
firing explains (`Answers`).

`ItemInv`: the event a worker is in has a row, and of its tags those up to the worker's
place; everything of the earlier items is stored (`Progress`), so an envelope that ends
well is complete (`DoneStored`). The INSERT of an event is the first statement of its item
and its id is unique, so no two workers are in one event (`Apart`) and only the attempt
that inserted it ever counts it (`CountsInv`). Transactions have no such key: the
statistics of a group cover its rows and what workers are about to insert (`GroupCovered`).

`CrashInv`: the file the client does not write to is empty or full, and the other one
continues it up to the last breadcrumb written (`CrumbsRotate`); a file's part, wherever
it comes, gives what the client had left in the file, and all parts are read before the
walk (`PartsRead`); tables are only those of selected rows (`SelectedTables`); and the
event and the envelope are made from the whole upload (`MadeFromUpload`). Merging the two
files then gives the newest breadcrumbs whichever file a part names first.

`NativeInv`: the event is one that was sent, its traces before `nativeTrace` are
symbolicated and the others untouched, and the rows read are those of the event's images,
which is all that any frame is looked up in (`ResolveSame`). `TraceIsCalls` is then a
statement about one trace. A frame names the first image that its mode means
(`LocateFinds`); what the client says of all frames decides each one's adjustment
(`CallerSays`), also where it speaks of one frame only; an address behind a call is, one
aligned instruction back, the call (`LookupIsCall`, from `MultipleAfter`); and the frames
of the calls, flattened, are the lines of the call stack (`FlattenedLines`).

`GroupInv`: of an event whose build's map was read, what is stored is the key, the title
and the culprit of its contents in the words of the source. `CausesStayTogether` is the
half of `OneIssuePerCause` that holds for every instance: a cause does not fall apart.
`WaitsChangeNothing` is its core: waits on top of a stack may be of the app and may even
become its entry point, and still the same frame is found.

Sums are stated as the number of pairs (a bucket and one of its events, an entry and one
of its bytes, a row and one unit of its duration), because the library has theorems about
cardinalities. For the same reason `EnvelopeItems` and `DebugFiles` select from a sequence
with `Picked` (a function of its positions) instead of the recursive `SelectSeq`;
`Subsequences_proofs` shows what it returns. Where the code adds up or concatenates as it
goes (the size of an envelope, the frames of a trace), recursive functions of the place
are used: `AllNumbers`, induction over a set of numbers instead of an operator, shows that
they exist (`SumsExist`, `FlattensExist`) and what they preserve (`FlattenAlike`).

Assumptions on the constants, which TLC evaluates on the instances: numbers are natural
and limits are positive where the code has constants; a claim of a chunk's hash, a name
and a content of a release file are among the declared ones; a rule's row has its fields
(its frequency may be any integer, negative ones included, since nothing checks it); the
items of an envelope are a sequence and a tag is a pair; the parts of a minidump request
are a sequence of known kinds and sizes are natural; symbol maps are sequences of pairs.
A client reports a native trace in one way (`TraceReported`): exact addresses, return
addresses with or without the innermost frame, or with nothing said and the registers of a
crash; a return address is one instruction behind a call, at a multiple of the
instruction's size; in an image without a load address only calls are reported; of a trace
without calls nothing is on file. TLC checks this of every event of the instance.

Model-checked only: liveness (`ImplementsLiveJobs`, `PinsAreCollected`,
`EnvelopesSettle`, `SnoozesEnd`, `LeaseTaskReturns`), which the prover does not
handle; `GroupsSound`, whose other half, that two causes have two keys and two titles, is
false of arbitrary words (parts that read the same when joined, causes that differ in
nothing the fingerprint has) and is checked on causes that differ as real ones do; and
`ServerTypeOK`, the ranges of all components of `MCServer` at once.

## Findings

* `envelope_race`: the outcome UPDATEs of the envelope worker name only the row id.
  A worker slower than 60 s therefore rewrites the row of the worker that stole
  the envelope, and opens it for a third.
* `envelope_backoff`: the claim does not look at `next_attempt_at`, so a second
  message for the same envelope starts its retry at once.
* `issue_release`: `ensure_release` resolves the issues marked for the next release in
  the release of any event, however old.
* `issue_reopen`: an issue resolved between a worker's SELECT and its UPSERT is reopened
  without a regression record.

Three more consequences the models show and no comment of the code denies: a
failed INSERT of an event makes its retry count the event again on the issue, a
snooze that its event count ends leaves no activity, unlike one that its time
ends; and a project deleted while its envelope is processed can have the late
outcome land on the envelope that got the row id. For these reasons
`CountedOnce` is stated as long as no fault and no deletion has happened; a purged or
cascaded row counts as settled for `EnvelopesSettle`.

What the code does in the other components, and the models therefore do too:

* A failing SELECT of the allowed origins is cached as an empty list, which allows every
  origin until the entry is old.
* `src/ingest/abuse.rs:18` speaks of a sliding window; windows are fixed, so twice the
  limit fits into one span of a window (`RateHonoured` says twice).
* An entry that the inner LRU pushes out is never subtracted from the byte counter
  (`src/util/byte_capped_lru.rs:60`); the counter stays ahead, which `LruAccounting`
  states exactly. A value of `max_bytes` or more is not put and evicts nothing, although the
  comment at line 49 says that it frees room.
* `src/worker/indexer.rs:98` says that the first occurrence of each key is kept; the code
  keeps the first of each text `key:value`, so a key may have several values and two
  different tags that read the same become one.
* An envelope that fails after the INSERT of its event never succeeds: each retry meets the
  UNIQUE key, so it ends dead and its later transactions and reports are not stored.
  The retry of one with transactions only stores and counts them again, so
  `GroupsCoverTransactions` compares with "at least".
* Transactions whose timestamps are texts get a duration of 0.
* The `sentry` field of a minidump request is not checked to be an object, although the
  `expect` at `src/ingest/minidump.rs:243` says so; the request ends in an error.
* Two files of breadcrumbs whose last times are equal or missing keep the order in which
  they came; the model's times increase.
* A rule may fire twice when two workers read it before either has written `last_fired`.

## Not modelled

* The read-only API and the MCP server: queries, which change nothing; keyset pagination
  is part of them. The search route and the full-text index, which triggers keep in step
  inside the statements that are modelled.
* Comments and user reports: one INSERT or DELETE each, which nothing else reads;
  `EnvelopeItems` has the worker's INSERT of a report, whose error is ignored.
* Administrator sessions, configuration, the frontend, the framing of envelopes, the
  JSON store and security routes, normalisation of fields as text.
* Attachments, commits, deploys, WAL checkpoints (no state a program can read).
* What libraries do: reading of debug files, DWARF and PDB, stack walking, source maps
  inside a file, decompression beyond its limit.
* `EnvelopeItems` gives every event an id; the code draws a new one for an event without
  one, at each attempt. One alert rule is on instance in `AlertRules`, one project and one
  release everywhere; statements are scoped by these ids.

Within the modelled parts: SQLite's transactions are taken as atomic and durable,
the clock as monotone, hard links as surviving the unlinking of their source, and
an I/O error as leaving a file or directory as it was.
