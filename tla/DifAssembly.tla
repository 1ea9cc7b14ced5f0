----------------------------- MODULE DifAssembly -----------------------------
(***************************************************************************)
(* The debug-file assembly queue (src/worker/dif_assembly.rs).             *)
(*                                                                         *)
(* An assemble request looks a receipt up, pins its chunks with hard links *)
(* in a staging directory of its own and enqueues a job row.  Workers      *)
(* claim rows under a lease, convert the pinned chunks while a heartbeat   *)
(* renews the lease, store the artifact and publish the outcome.  The      *)
(* retention task removes staging directories no active job refers to.     *)
(* Every database statement and every file operation is one step, so the   *)
(* process may die, the clock may advance and any other task may run       *)
(* between two of them.                                                    *)
(***************************************************************************)
EXTENDS Naturals, FiniteSets, Functions

CONSTANTS
  Key,            \* (project, checksum, debug_id) triples: the row's UNIQUE key
  Chunk,          \* chunk hashes
  ChunksOf,       \* ChunksOf[k]: the chunks an assemble request for k names
  Job,            \* job ids: a fresh UUID names both the row and its directory
  Client,         \* assemble requests that can be in flight at once
  Worker,         \* assembly worker tasks
  Lease,          \* LEASE_SECONDS
  ErrorRetention, \* ERROR_RETENTION_SECONDS
  MaxClaims,      \* MAX_CLAIMS
  Retention,      \* age from which a staging directory may be collected
  AdmitBound,     \* longest time from creating a directory to enqueueing it
  BeatGap,        \* longest time from the clock reading of one lease write
                  \* of an owner to the execution of its next write
  Lag             \* longest wait for SQLite's writer after reading the clock

CONSTANTS         \* bounds of the explored behaviours, not of the program
  MaxTime, MaxFaults, LastFault, MaxVersion

ASSUME TimesAreNaturals ==
  /\ Lease \in Nat /\ ErrorRetention \in Nat /\ MaxClaims \in Nat
  /\ Retention \in Nat /\ AdmitBound \in Nat /\ BeatGap \in Nat /\ Lag \in Nat
  /\ MaxTime \in Nat /\ MaxFaults \in Nat /\ LastFault \in Nat /\ MaxVersion \in Nat

\* A directory outlives its admission: hours of retention against a request
\* that waits at most the pool's acquire timeout for the writer.
ASSUME AdmissionBeatsRetention == AdmitBound < Retention

ASSUME RequestsNameChunks == ChunksOf \in [Key -> SUBSET Chunk]

VARIABLES
  now,       \* seconds on the server's clock
  uploads,   \* chunks in the upload store, which retention empties
  dirs,      \* staging directories: job id -> pinned chunks and birth time
  rows,      \* table dif_assemblies: job id -> row
  projects,  \* keys whose project exists
  artifacts, \* keys whose canonical artifact (row and file) exists
  used,      \* job ids drawn so far
  owners,    \* number of owner ids drawn so far
  requests,  \* in-flight assemble requests: client -> progress
  work,      \* busy workers: worker -> progress
  cleaner,   \* the staging collector's current directory, if any
  version,   \* PROCESSING_VERSION of the running binary
  faults,    \* rare events so far: errors, crashes, deleted projects
  attempts   \* history: conversions started per job

vars == <<now, uploads, dirs, rows, projects, artifacts, used, owners, requests, work,
          cleaner, version, faults, attempts>>

dbVars == <<rows, projects, artifacts>>
fileVars == <<uploads, dirs>>

-----------------------------------------------------------------------------
\* Records.

Active == {"pending", "processing"}
Finished == {"ok", "error"}

Row == [key: Key, state: Active \cup Finished, owner: Nat, lease: Nat,
        claims: Nat, updated: Nat, version: Nat]
Dir == [chunks: SUBSET Chunk, born: Nat]
Request == [pc: {"check", "expire", "insert", "unpin"}, key: Key, job: Job]
           \cup [pc: {"pin"}, key: Key]
           \cup [pc: {"link"}, key: Key, job: Job, todo: SUBSET Chunk, missing: BOOLEAN]
Task == [pc: {"read", "store", "publish", "unpin"}, key: Key, job: Job, owner: Nat,
         result: Finished, lost: BOOLEAN, beat: Nat]

EmptyFunction == [x \in {} |-> x]
Put(f, x, v) == [y \in DOMAIN f \cup {x} |-> IF y = x THEN v ELSE f[y]]
Drop(f, x) == Restrict(f, DOMAIN f \ {x})

\* lease_owner and lease_until are NULL outside 'processing'.
Null == 0

TypeOK ==
  /\ now \in Nat
  /\ uploads \subseteq Chunk
  /\ DOMAIN dirs \subseteq Job /\ \A j \in DOMAIN dirs : dirs[j] \in Dir
  /\ DOMAIN rows \subseteq Job /\ \A j \in DOMAIN rows : rows[j] \in Row
  /\ projects \subseteq Key
  /\ artifacts \subseteq Key
  /\ used \subseteq Job
  /\ owners \in Nat
  /\ DOMAIN requests \subseteq Client /\ \A c \in DOMAIN requests : requests[c] \in Request
  /\ DOMAIN work \subseteq Worker /\ \A w \in DOMAIN work : work[w] \in Task
  /\ DOMAIN cleaner \subseteq Job /\ \A j \in DOMAIN cleaner : cleaner[j] \in {"check", "remove"}
  /\ version \in Nat
  /\ faults \in Nat
  /\ attempts \in [Job -> Nat]

Init ==
  /\ now = 0
  /\ uploads = {}
  /\ dirs = EmptyFunction
  /\ rows = EmptyFunction
  /\ projects = Key
  /\ artifacts = {}
  /\ used = {}
  /\ owners = 0
  /\ requests = EmptyFunction
  /\ work = EmptyFunction
  /\ cleaner = EmptyFunction
  /\ version = 0
  /\ faults = 0
  /\ attempts = [j \in Job |-> 0]

-----------------------------------------------------------------------------
\* request(): one in-flight assemble request per client.

\* Statements that read the clock and then queue for SQLite's only writer run
\* with a reading up to Lag seconds old.
ClockReadings == {t \in 0..now : now <= t + Lag}

\* A rare event, at a time of its choosing: a database or I/O error, a client
\* that hangs up, the death of the process, the deletion of a project.
Fault ==
  /\ faults < MaxFaults /\ now <= LastFault
  /\ faults' = faults + 1

IsActive(j) == j \in DOMAIN rows /\ rows[j].state \in Active

\* The SELECT of the receipt.  Requests answered at once (the job is queued or
\* running, or it failed less than ErrorRetention ago) change nothing.
Lookup(c, k) ==
  /\ c \notin DOMAIN requests /\ k \in projects
  /\ \/ /\ \A j \in DOMAIN rows : rows[j].key # k
        /\ requests' = Put(requests, c, [pc |-> "pin", key |-> k])
     \/ \E j \in DOMAIN rows :
          /\ rows[j].key = k
          /\ \/ rows[j].state = "ok"
             \/ rows[j].state = "error" /\ rows[j].updated + ErrorRetention <= now
          /\ requests' = Put(requests, c,
               [pc |-> IF rows[j].state = "ok" /\ rows[j].version = version
                       THEN "check" ELSE "expire",
                key |-> k, job |-> j])
  /\ UNCHANGED <<now, fileVars, dbVars, used, owners, work, cleaner, version, faults, attempts>>

\* A success is answered only while its canonical artifact is there.
CheckArtifacts(c) ==
  /\ c \in DOMAIN requests /\ requests[c].pc = "check"
  /\ requests' = IF requests[c].key \in artifacts
                 THEN Drop(requests, c)
                 ELSE [requests EXCEPT ![c].pc = "expire"]
  /\ UNCHANGED <<now, fileVars, dbVars, used, owners, work, cleaner, version, faults, attempts>>

\* DELETE ... WHERE id = ? AND state IN ('ok', 'error').
ExpireReceipt(c) ==
  /\ c \in DOMAIN requests /\ requests[c].pc = "expire"
  /\ LET j == requests[c].job IN
       rows' = IF j \in DOMAIN rows /\ rows[j].state \in Finished
               THEN Drop(rows, j) ELSE rows
  /\ requests' = Put(requests, c, [pc |-> "pin", key |-> requests[c].key])
  /\ UNCHANGED <<now, fileVars, projects, artifacts, used, owners, work, cleaner, version, faults, attempts>>

\* The request ends early: it names no chunk or a malformed hash, a statement
\* fails, or the client hangs up, which drops the handler at its next await.
Leave(c) ==
  /\ c \in DOMAIN requests /\ requests[c].pc # "link"
  /\ IF requests[c].pc \in {"insert", "unpin"} THEN Fault ELSE UNCHANGED faults
  /\ requests' = Drop(requests, c)
  /\ UNCHANGED <<now, fileVars, dbVars, used, owners, work, cleaner, version, attempts>>

\* Draws the job's UUID and creates its staging directory.
BeginPin(c) ==
  /\ c \in DOMAIN requests /\ requests[c].pc = "pin"
  /\ \E j \in Job \ used :
       /\ used' = used \cup {j}
       /\ dirs' = Put(dirs, j, [chunks |-> {}, born |-> now])
       /\ requests' = Put(requests, c,
            [pc |-> "link", key |-> requests[c].key, job |-> j,
             todo |-> ChunksOf[requests[c].key], missing |-> FALSE])
  /\ UNCHANGED <<now, uploads, dbVars, owners, work, cleaner, version, faults, attempts>>

\* One hard_link of pin_chunks: the shard directory is created first, and an
\* upload chunk that retention has removed is reported missing.
LinkChunk(c, ch) ==
  /\ c \in DOMAIN requests /\ requests[c].pc = "link" /\ ch \in requests[c].todo
  /\ LET j == requests[c].job
         before == IF j \in DOMAIN dirs THEN dirs[j] ELSE [chunks |-> {}, born |-> now]
     IN dirs' = Put(dirs, j, [before EXCEPT !.chunks = @ \cup ({ch} \cap uploads)])
  /\ requests' = [requests EXCEPT ![c].todo = @ \ {ch},
                                  ![c].missing = @ \/ ch \notin uploads]
  /\ UNCHANGED <<now, uploads, dbVars, used, owners, work, cleaner, version, faults, attempts>>

\* Incomplete pins are removed and the client told which chunks to upload; an
\* I/O error removes them too.
EndPin(c) ==
  /\ c \in DOMAIN requests /\ requests[c].pc = "link"
  /\ LET r == requests[c] IN
       \/ /\ (r.todo = {} /\ r.missing /\ UNCHANGED faults) \/ Fault
          /\ dirs' = Drop(dirs, r.job)
          /\ requests' = Drop(requests, c)
       \/ /\ r.todo = {} /\ ~r.missing
          /\ requests' = Put(requests, c, [pc |-> "insert", key |-> r.key, job |-> r.job])
          /\ UNCHANGED <<dirs, faults>>
  /\ UNCHANGED <<now, uploads, dbVars, used, owners, work, cleaner, version, attempts>>

\* INSERT ... ON CONFLICT(project_id, checksum, debug_id) DO NOTHING.
Enqueue(c) ==
  /\ c \in DOMAIN requests /\ requests[c].pc = "insert"
  /\ LET r == requests[c] IN
       \/ /\ r.key \in projects
          /\ \A j \in DOMAIN rows : rows[j].key # r.key
          /\ rows' = Put(rows, r.job,
               [key |-> r.key, state |-> "pending", owner |-> Null, lease |-> Null,
                claims |-> 0, updated |-> now, version |-> 0])
          /\ requests' = Drop(requests, c)
          /\ UNCHANGED faults
       \/ /\ \/ r.key \notin projects /\ UNCHANGED faults
             \/ \E j \in DOMAIN rows : rows[j].key = r.key /\ UNCHANGED faults
             \/ Fault
          /\ requests' = [requests EXCEPT ![c].pc = "unpin"]
          /\ UNCHANGED rows
  /\ UNCHANGED <<now, fileVars, projects, artifacts, used, owners, work, cleaner, version, attempts>>

\* remove_staging: a directory it cannot remove stays.
RemoveStaging(j) == (dirs' = Drop(dirs, j) /\ UNCHANGED faults) \/ (Fault /\ UNCHANGED dirs)

\* The pins of an INSERT that stored nothing.
UnpinRequest(c) ==
  /\ c \in DOMAIN requests /\ requests[c].pc = "unpin"
  /\ RemoveStaging(requests[c].job)
  /\ requests' = Drop(requests, c)
  /\ UNCHANGED <<now, uploads, dbVars, used, owners, work, cleaner, version, attempts>>

-----------------------------------------------------------------------------
\* The workers: claim, run_job, process_with_lease, assemble_one.

ClaimableEarly(t) == \* mutant: a lease is over the moment it is read
  {j \in DOMAIN rows : \/ rows[j].state = "pending"
                       \/ rows[j].state = "processing" /\ rows[j].lease <= t}

ClaimablePending(t) == {j \in DOMAIN rows : rows[j].state = "pending"} \* mutant: no reclaim

Claimable(t) == {j \in DOMAIN rows : \/ rows[j].state = "pending"
                                     \/ rows[j].state = "processing" /\ rows[j].lease < t}

GivesUpLate(claims) == claims > MaxClaims + 1 \* mutant: one conversion too many

\* A row claimed more than MaxClaims times is not converted: its outcome is an
\* error at once.
GivesUp(claims) == claims > MaxClaims

Claim(w) ==
  /\ w \notin DOMAIN work
  /\ \E t \in ClockReadings, j \in DOMAIN rows :
       LET claims == rows[j].claims + 1
           giveUp == GivesUp(claims)
       IN /\ j \in Claimable(t)
          /\ \A i \in Claimable(t) : rows[j].updated <= rows[i].updated
          /\ rows' = [rows EXCEPT ![j].state = "processing", ![j].owner = owners + 1,
                                  ![j].lease = t + Lease, ![j].updated = t,
                                  ![j].claims = claims]
          /\ work' = Put(work, w,
               [pc |-> IF giveUp THEN "publish" ELSE "read", key |-> rows[j].key,
                job |-> j, owner |-> owners + 1, result |-> "error", lost |-> FALSE,
                beat |-> t])
          /\ attempts' = IF giveUp THEN attempts ELSE [attempts EXCEPT ![j] = @ + 1]
  /\ owners' = owners + 1
  /\ UNCHANGED <<now, fileVars, projects, artifacts, used, requests, cleaner, version, faults>>

OwnsAnyState(w) == \* mutant: no state in the WHERE clause
  work[w].job \in DOMAIN rows

Owns(w) ==
  LET j == work[w].job IN
    j \in DOMAIN rows /\ rows[j].state = "processing" /\ rows[j].owner = work[w].owner

EndConversionMisspelt(w, result) == \* mutant: an outcome the table does not know
  work' = [work EXCEPT ![w].pc = "publish", ![w].result = "failed"]

\* process_with_lease returns None once the lease is lost, so nothing is
\* published: the row is left to its next owner.
EndConversion(w, result) ==
  work' = IF work[w].lost
          THEN Drop(work, w)
          ELSE [work EXCEPT ![w].pc = "publish", ![w].result = result]

\* assemble_one up to the conversion: reads the job's own pins.  A missing pin
\* is an error, and so may be the content.
ReadPins(w) ==
  /\ w \in DOMAIN work /\ work[w].pc = "read"
  /\ LET t == work[w] IN
       \/ /\ t.job \in DOMAIN dirs /\ ChunksOf[t.key] \subseteq dirs[t.job].chunks
          /\ work' = [work EXCEPT ![w].pc = "store"]
       \/ EndConversion(w, "error")
  /\ UNCHANGED <<now, fileVars, dbVars, used, owners, requests, cleaner, version, faults, attempts>>

\* store_artifact for each object; a later object may fail after an earlier
\* one was stored, and nothing is stored for a project that is gone.
StoreArtifacts(w) ==
  /\ w \in DOMAIN work /\ work[w].pc = "store"
  /\ artifacts' = artifacts \cup ({work[w].key} \cap projects)
  /\ \E result \in Finished :
       /\ result = "ok" => work[w].key \in projects
       /\ EndConversion(w, result)
  /\ UNCHANGED <<now, fileVars, rows, projects, used, owners, requests, cleaner, version, faults, attempts>>

\* The heartbeat: an UPDATE that touches no row, or fails, gives the lease up.
Heartbeat(w) ==
  /\ w \in DOMAIN work /\ work[w].pc \in {"read", "store"} /\ ~work[w].lost
  /\ \/ \E t \in ClockReadings :
          /\ Owns(w)
          /\ rows' = [rows EXCEPT ![work[w].job].lease = t + Lease]
          /\ work' = [work EXCEPT ![w].beat = t]
          /\ UNCHANGED faults
     \/ /\ (~Owns(w) /\ UNCHANGED faults) \/ Fault
        /\ work' = [work EXCEPT ![w].lost = TRUE]
        /\ UNCHANGED rows
  /\ UNCHANGED <<now, fileVars, projects, artifacts, used, owners, requests, cleaner, version, attempts>>

\* UPDATE ... WHERE id = ? AND lease_owner = ? AND state = 'processing'.
Publish(w) ==
  /\ w \in DOMAIN work /\ work[w].pc = "publish"
  /\ \/ /\ Owns(w)
        /\ rows' = [rows EXCEPT ![work[w].job].state = work[w].result,
                                ![work[w].job].owner = Null, ![work[w].job].lease = Null,
                                ![work[w].job].updated = now,
                                ![work[w].job].version = version]
        /\ work' = [work EXCEPT ![w].pc = "unpin"]
        /\ UNCHANGED faults
     \/ /\ (~Owns(w) /\ UNCHANGED faults) \/ Fault
        /\ work' = Drop(work, w)
        /\ UNCHANGED rows
  /\ UNCHANGED <<now, fileVars, projects, artifacts, used, owners, requests, cleaner, version, attempts>>

\* The pins of a job whose outcome was published.
UnpinJob(w) ==
  /\ w \in DOMAIN work /\ work[w].pc = "unpin"
  /\ RemoveStaging(work[w].job)
  /\ work' = Drop(work, w)
  /\ UNCHANGED <<now, uploads, dbVars, used, owners, requests, cleaner, version, attempts>>

-----------------------------------------------------------------------------
\* cleanup_staging, run by the retention task and by manual_cleanup, at the same
\* time if it happens so.  The age is the directory's mtime against a cutoff read
\* when the run began, so it collects no directory younger than this one does.

CleanStat(j) ==
  /\ j \notin DOMAIN cleaner
  /\ j \in DOMAIN dirs /\ dirs[j].born + Retention <= now
  /\ cleaner' = Put(cleaner, j, "check")
  /\ UNCHANGED <<now, fileVars, dbVars, used, owners, requests, work, version, faults, attempts>>

CleanUnchecked(j) == \* mutant: age alone decides
  /\ j \in DOMAIN cleaner /\ cleaner[j] = "check"
  /\ cleaner' = Put(cleaner, j, "remove")
  /\ UNCHANGED <<now, fileVars, dbVars, used, owners, requests, work, version, faults, attempts>>

CleanNothing(j) == \* mutant: directories without a row are taken for active
  /\ j \in DOMAIN cleaner /\ cleaner[j] = "check"
  /\ cleaner' = IF j \notin DOMAIN rows \/ IsActive(j)
                THEN Drop(cleaner, j) ELSE Put(cleaner, j, "remove")
  /\ UNCHANGED <<now, fileVars, dbVars, used, owners, requests, work, version, faults, attempts>>

\* SELECT EXISTS(... staging_root = ? AND state IN ('pending', 'processing')).
CleanCheck(j) ==
  /\ j \in DOMAIN cleaner /\ cleaner[j] = "check"
  /\ cleaner' = IF IsActive(j) THEN Drop(cleaner, j) ELSE Put(cleaner, j, "remove")
  /\ UNCHANGED <<now, fileVars, dbVars, used, owners, requests, work, version, faults, attempts>>

CleanRemove(j) ==
  /\ j \in DOMAIN cleaner /\ cleaner[j] = "remove"
  /\ RemoveStaging(j)
  /\ cleaner' = Drop(cleaner, j)
  /\ UNCHANGED <<now, uploads, dbVars, used, owners, requests, work, version, attempts>>

-----------------------------------------------------------------------------
\* The surroundings: chunk uploads and their retention, an administrator
\* deleting artifacts and projects, the clock, and the death of the process.

UploadChunk(ch) ==
  /\ uploads' = uploads \cup {ch}
  /\ UNCHANGED <<now, dirs, dbVars, used, owners, requests, work, cleaner, version, faults, attempts>>

ExpireChunk(ch) ==
  /\ uploads' = uploads \ {ch}
  /\ UNCHANGED <<now, dirs, dbVars, used, owners, requests, work, cleaner, version, faults, attempts>>

DeleteArtifact(k) ==
  /\ artifacts' = artifacts \ {k}
  /\ UNCHANGED <<now, fileVars, rows, projects, used, owners, requests, work, cleaner, version, faults, attempts>>

\* ON DELETE CASCADE takes the project's receipts, jobs and artifacts along.
DeleteProject(k) ==
  /\ k \in projects
  /\ Fault
  /\ projects' = projects \ {k}
  /\ rows' = Restrict(rows, {j \in DOMAIN rows : rows[j].key # k})
  /\ artifacts' = artifacts \ {k}
  /\ UNCHANGED <<now, fileVars, used, owners, requests, work, cleaner, version, attempts>>

\* SQLite gives the id of the last project, once deleted, to the next one.
CreateProject(k) ==
  /\ k \notin projects
  /\ projects' = projects \cup {k}
  /\ UNCHANGED <<now, fileVars, rows, artifacts, used, owners, requests, work, cleaner, version, faults, attempts>>

\* The timing the code arranges: an owner writes again before BeatGap is over,
\* and an admitted request reaches its INSERT within AdmitBound.
OwnersAreTimely ==
  \A w \in DOMAIN work :
    work[w].pc \in {"read", "store", "publish"} /\ ~work[w].lost => now < work[w].beat + BeatGap

AdmissionsAreTimely ==
  \A c \in DOMAIN requests :
    requests[c].pc \in {"link", "insert"} /\ requests[c].job \in DOMAIN dirs
      => now < dirs[requests[c].job].born + AdmitBound

Tick ==
  /\ now < MaxTime
  /\ OwnersAreTimely /\ AdmissionsAreTimely
  /\ now' = now + 1
  /\ UNCHANGED <<fileVars, dbVars, used, owners, requests, work, cleaner, version, faults, attempts>>

\* Every task of the process dies; the files and the database stay.  The new
\* process may be a newer build.
Crash ==
  /\ Fault
  /\ requests' = EmptyFunction
  /\ work' = EmptyFunction
  /\ cleaner' = EmptyFunction
  /\ version' \in {v \in {version, version + 1} : v <= MaxVersion}
  /\ UNCHANGED <<now, fileVars, dbVars, used, owners, attempts>>

RequestStep(c) ==
  \/ \E k \in Key : Lookup(c, k)
  \/ CheckArtifacts(c) \/ ExpireReceipt(c) \/ Leave(c) \/ BeginPin(c)
  \/ \E ch \in Chunk : LinkChunk(c, ch)
  \/ EndPin(c) \/ Enqueue(c) \/ UnpinRequest(c)

WorkerStep(w) ==
  \/ Claim(w) \/ ReadPins(w) \/ StoreArtifacts(w) \/ Heartbeat(w)
  \/ Publish(w) \/ UnpinJob(w)

CleanerStep(j) == CleanStat(j) \/ CleanCheck(j) \/ CleanRemove(j)

Next ==
  \/ \E c \in Client : RequestStep(c)
  \/ \E w \in Worker : WorkerStep(w)
  \/ \E j \in Job : CleanerStep(j)
  \/ \E ch \in Chunk : UploadChunk(ch) \/ ExpireChunk(ch)
  \/ \E k \in Key : DeleteArtifact(k) \/ DeleteProject(k) \/ CreateProject(k)
  \/ Tick
  \/ Crash

Spec == Init /\ [][Next]_vars

-----------------------------------------------------------------------------
\* Safety.

\* README: "Admitted jobs pin their chunks with hard links under the artifacts
\* directory, so chunk retention cannot remove active inputs."  A queued or
\* running job's staging directory holds every chunk of its request, whatever
\* chunk retention, the staging collector, competing requests for the same
\* key and workers that lost the job do.
ActivePinsPresent ==
  \A j \in DOMAIN rows :
    rows[j].state \in Active =>
      j \in DOMAIN dirs /\ ChunksOf[rows[j].key] \subseteq dirs[j].chunks

\* README: "A job claimed a fourth time fails with an error instead of being
\* converted again, so a file that kills the process cannot crash-loop it."
\* However often workers die or lose their lease, one job is converted at most
\* MaxClaims times.
AttemptsBounded == \A j \in Job : attempts[j] <= MaxClaims

Converting(w) == w \in DOMAIN work /\ work[w].pc \in {"read", "store", "publish"}

\* While owners renew in time, two workers that both believe they own a job
\* never work on it together: the claim's comparison with lease_until, the
\* heartbeat and the lease's length fit.
OwnersExclude ==
  \A v, w \in Worker :
    /\ Converting(v) /\ ~work[v].lost
    /\ Converting(w) /\ ~work[w].lost
    /\ work[v].job = work[w].job
    => v = w

-----------------------------------------------------------------------------
\* Liveness.  Requests, workers and the retention loop are tasks the runtime
\* keeps scheduling; nothing makes clients ask or chunks arrive.

Fairness ==
  /\ WF_vars(Tick)
  /\ \A c \in Client :
       /\ WF_vars(CheckArtifacts(c)) /\ WF_vars(ExpireReceipt(c))
       /\ WF_vars(BeginPin(c) \/ Leave(c))
       /\ WF_vars(\E ch \in Chunk : LinkChunk(c, ch))
       /\ WF_vars(EndPin(c)) /\ WF_vars(Enqueue(c)) /\ WF_vars(UnpinRequest(c))
  /\ \A w \in Worker :
       /\ WF_vars(Claim(w)) /\ WF_vars(ReadPins(w)) /\ WF_vars(StoreArtifacts(w))
       /\ WF_vars(Publish(w)) /\ WF_vars(UnpinJob(w))
  /\ \A j \in Job :
       /\ WF_vars(CleanStat(j)) /\ WF_vars(CleanCheck(j)) /\ WF_vars(CleanRemove(j))

LiveSpec == Spec /\ Fairness

\* "Clean admission attempts interrupted before enqueue and completed-job pins
\* left behind by a crash" (comment on cleanup_staging): no staging directory
\* stays for ever.
PinsAreCollected == \A j \in Job : j \in DOMAIN dirs ~> j \notin DOMAIN dirs

-----------------------------------------------------------------------------
\* The queue as its clients see it.  An id is fresh until its request reaches
\* the INSERT; a row's outcome is none while it is queued or running.
AdmissibleIds ==
  (Job \ used) \cup {requests[c].job : c \in {d \in DOMAIN requests :
                                                requests[d].pc \in {"link", "insert"}}}

JobsSeen ==
  [j \in DOMAIN rows |->
     [key |-> rows[j].key,
      outcome |-> IF rows[j].state \in Active THEN "none" ELSE rows[j].state]]

JobQueue == INSTANCE AssemblyJobs WITH fresh <- AdmissibleIds, jobs <- JobsSeen

\* Leases, claims, crashes and stale workers together behave as AssemblyJobs:
\* one job per key, each finished once, and a job that is not finished lost with
\* its project only.
ImplementsJobs == JobQueue!Spec

\* README: "unfinished jobs are reclaimed after a crashed worker's lease
\* expires".  Under the tasks' fairness every admitted job is finished too.
ImplementsLiveJobs == JobQueue!LiveSpec

=============================================================================
