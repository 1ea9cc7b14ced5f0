--------------------------- MODULE ChunkCollector ---------------------------
(***************************************************************************)
(* The files of the global chunk directory, in one shard: upload_chunks    *)
(* (api/chunked_upload.rs) refreshes or writes them, cleanup_stale_chunks  *)
(* (util/chunk_store.rs) removes the ones nobody refreshed.  The collector *)
(* looks at a file and removes it in two steps; nothing keeps an upload    *)
(* from refreshing it in between.                                          *)
(***************************************************************************)
EXTENDS Integers, FiniteSets, Sequences

CONSTANTS
  ChunkHash,
  ChunkUpload,    \* ChunkUpload[u]: the hash a part claims; its bytes' hash
  ChunkRetention, \* ticks a chunk is kept
  MaxChunkTime,   \* bound on the clock
  MaxSweeps,      \* bound: passes of the collector
  MaxTouchFaults  \* bound: times that cannot be set

Gone == -1
Part == DOMAIN ChunkUpload
ASSUME ChunkAssumption ==
  /\ Gone \notin ChunkHash
  /\ ChunkRetention \in Nat /\ MaxChunkTime \in Nat
  /\ \A u \in Part : ChunkUpload[u].claims \in ChunkHash

VARIABLES
  chunkTime,
  chunkFile,    \* chunkFile[h]: modification time, or Gone
  shardDir,     \* the shard's directory exists
  chunkPart,    \* chunkPart[u]: progress of a part
  sweep,        \* the collector: [step, cutoff, left, chunk, seen]
  sweeps,
  uploadedAt,   \* history: when a part of the hash was last answered
  unprotected,  \* history: hashes whose refresh failed or came too late
  touchFaults

chunkVars == <<chunkTime, chunkFile, shardDir, chunkPart, sweep, sweeps, uploadedAt,
               unprotected, touchFaults>>

NoSweep == [step |-> "idle", cutoff |-> 0, left |-> {}, chunk |-> Gone, seen |-> Gone]

ChunkTypeOK ==
  /\ chunkFile \in [ChunkHash -> Gone..MaxChunkTime]
  /\ \A h \in ChunkHash : chunkFile[h] # Gone => shardDir /\ chunkFile[h] <= chunkTime
  /\ \A u \in Part : chunkPart[u] \in {"sent", "touch", "mkdir", "write", "stored",
                                       "rejected", "failed"}
  /\ sweep.step \in {"idle", "files", "remove"}
  /\ sweep.left \subseteq ChunkHash
  /\ unprotected \subseteq ChunkHash

ChunkInit ==
  /\ chunkTime = 0
  /\ chunkFile \in [ChunkHash -> {Gone, 0}]
  /\ shardDir = (\E h \in ChunkHash : chunkFile[h] # Gone)
  /\ chunkPart = [u \in Part |-> "sent"]
  /\ sweep = NoSweep
  /\ sweeps = 0
  /\ uploadedAt = [h \in ChunkHash |-> Gone]
  /\ unprotected = {}
  /\ touchFaults = 0

------------------------------------------------------------------------------
(* upload_chunks, for one part.                                            *)

ClaimedHash(u) == ChunkUpload[u].claims
PartGoto(u, step) == chunkPart' = [chunkPart EXCEPT ![u] = step]

\* A part whose bytes have another hash is refused; one that is stored already
\* is only refreshed.
FindChunk(u) ==
  /\ chunkPart[u] = "sent"
  /\ PartGoto(u, CASE ChunkUpload[u].has # ClaimedHash(u) -> "rejected"
                   [] chunkFile[ClaimedHash(u)] # Gone -> "touch"
                   [] OTHER -> "mkdir")
  /\ UNCHANGED <<chunkTime, chunkFile, shardDir, sweep, sweeps, uploadedAt, unprotected,
                 touchFaults>>

\* The part is answered: from now on the chunk is kept for its retention.
AnswerPart(u) ==
  /\ PartGoto(u, "stored")
  /\ uploadedAt' = [uploadedAt EXCEPT ![ClaimedHash(u)] = chunkTime]
  /\ unprotected' = unprotected \ {ClaimedHash(u)}

\* A chunk that was removed since is written again.
TouchChunk(u) ==
  /\ chunkPart[u] = "touch"
  /\ IF chunkFile[ClaimedHash(u)] = Gone
     THEN PartGoto(u, "mkdir") /\ UNCHANGED <<chunkFile, uploadedAt, unprotected>>
     ELSE /\ chunkFile' = [chunkFile EXCEPT ![ClaimedHash(u)] = chunkTime]
          /\ AnswerPart(u)
  /\ UNCHANGED <<chunkTime, shardDir, sweep, sweeps, touchFaults>>

\* Another error is logged, and the part is answered all the same.
TouchFails(u) ==
  /\ chunkPart[u] = "touch"
  /\ touchFaults < MaxTouchFaults
  /\ touchFaults' = touchFaults + 1
  /\ PartGoto(u, "stored")
  /\ uploadedAt' = [uploadedAt EXCEPT ![ClaimedHash(u)] = chunkTime]
  /\ unprotected' = unprotected \cup {ClaimedHash(u)}
  /\ UNCHANGED <<chunkTime, chunkFile, shardDir, sweep, sweeps>>

\* write_atomic creates the directory and a temporary file in it ...
MakeShard(u) ==
  /\ chunkPart[u] = "mkdir"
  /\ shardDir' = TRUE
  /\ PartGoto(u, "write")
  /\ UNCHANGED <<chunkTime, chunkFile, sweep, sweeps, uploadedAt, unprotected, touchFaults>>

\* ... which is renamed; it fails when the directory went away before the file.
WriteChunk(u) ==
  /\ chunkPart[u] = "write"
  /\ IF shardDir
     THEN /\ chunkFile' = [chunkFile EXCEPT ![ClaimedHash(u)] = chunkTime]
          /\ AnswerPart(u)
     ELSE PartGoto(u, "failed") /\ UNCHANGED <<chunkFile, uploadedAt, unprotected>>
  /\ UNCHANGED <<chunkTime, shardDir, sweep, sweeps, touchFaults>>

------------------------------------------------------------------------------
(* cleanup_stale_chunks.                                                   *)

StartSweep ==
  /\ sweep.step = "idle"
  /\ sweeps < MaxSweeps
  /\ shardDir
  /\ sweeps' = sweeps + 1
  /\ sweep' = [step |-> "files", cutoff |-> chunkTime - ChunkRetention, chunk |-> Gone,
               seen |-> Gone, left |-> {h \in ChunkHash : chunkFile[h] # Gone}]
  /\ UNCHANGED <<chunkTime, chunkFile, shardDir, chunkPart, uploadedAt, unprotected,
                 touchFaults>>

IsListedChunk(h) == chunkFile[h] <= sweep.cutoff + 1 \* mutant: a tick too early

IsStaleChunk(h) == chunkFile[h] <= sweep.cutoff

\* The next file is looked at; a fresh one is passed over, one that went away
\* since the directory was listed ends the pass with an error.
StatChunk(h) ==
  /\ sweep.step = "files"
  /\ h \in sweep.left
  /\ sweep' = CASE chunkFile[h] = Gone -> NoSweep
                [] chunkFile[h] # Gone /\ IsStaleChunk(h) ->
                     [sweep EXCEPT !.step = "remove", !.left = @ \ {h}, !.chunk = h,
                                   !.seen = chunkFile[h]]
                [] OTHER -> [sweep EXCEPT !.left = @ \ {h}]
  /\ UNCHANGED <<chunkTime, chunkFile, shardDir, chunkPart, sweeps, uploadedAt, unprotected,
                 touchFaults>>

\* The file is removed by its name, refreshed or not.
RemoveChunk ==
  LET h == sweep.chunk IN
  /\ sweep.step = "remove"
  /\ chunkFile' = [chunkFile EXCEPT ![h] = Gone]
  /\ unprotected' = IF chunkFile[h] # sweep.seen THEN unprotected \cup {h} ELSE unprotected
  /\ sweep' = [sweep EXCEPT !.step = "files", !.chunk = Gone, !.seen = Gone]
  /\ UNCHANGED <<chunkTime, shardDir, chunkPart, sweeps, uploadedAt, touchFaults>>

\* The directory goes when it is empty.
EndSweep ==
  /\ sweep.step = "files"
  /\ sweep.left = {}
  /\ shardDir' = (\E h \in ChunkHash : chunkFile[h] # Gone)
  /\ sweep' = NoSweep
  /\ UNCHANGED <<chunkTime, chunkFile, chunkPart, sweeps, uploadedAt, unprotected, touchFaults>>

ChunkTick ==
  /\ chunkTime < MaxChunkTime
  /\ chunkTime' = chunkTime + 1
  /\ UNCHANGED <<chunkFile, shardDir, chunkPart, sweep, sweeps, uploadedAt, unprotected,
                 touchFaults>>

ChunkNext ==
  \/ \E u \in Part : \/ FindChunk(u) \/ TouchChunk(u) \/ TouchFails(u)
                     \/ MakeShard(u) \/ WriteChunk(u)
  \/ StartSweep \/ RemoveChunk \/ EndSweep
  \/ \E h \in ChunkHash : StatChunk(h)
  \/ ChunkTick

ChunkSpec == ChunkInit /\ [][ChunkNext]_chunkVars

------------------------------------------------------------------------------
(* Properties.                                                             *)

\* A chunk whose upload was answered is there for the retention that follows,
\* also when it was stored long before - unless the collector had looked at it
\* before it was refreshed, or its time could not be set.
UploadedChunksKept ==
  \A h \in ChunkHash \ unprotected :
    uploadedAt[h] # Gone /\ chunkTime - uploadedAt[h] < ChunkRetention => chunkFile[h] # Gone
=============================================================================
