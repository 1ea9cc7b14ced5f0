--------------------------- MODULE ArtifactStore ---------------------------
(***************************************************************************)
(* The store of debug artifacts: util/artifact_store.rs, and the requests  *)
(* that fill it, upload_dsym (api/dsyms.rs) and assemble_one               *)
(* (api/chunked_upload.rs).                                                *)
(*                                                                         *)
(* Uploads of one identity - project, debug id, architecture and kind -    *)
(* compete: the row names the file of the best of them.  Selection holds   *)
(* SQLite's only write transaction (tx), the file is published before the  *)
(* row, and a crash or a failing statement rolls the transaction back but  *)
(* leaves a published file behind.  One project is modelled: every         *)
(* statement is scoped by the same project id.                             *)
(***************************************************************************)
EXTENDS DebugFiles

CONSTANTS
  Upload,        \* requests that store payloads
  UploadFile,    \* UploadFile[u]: the file as its parser sees it
  Hint,          \* Hint[u]: the identifier an assembly names, or NoHint
  Route,         \* Route[u]: "dsym" or "assemble"
  Legacy,        \* payloads of rows written before qualities were stored
  MaxStoreFaults \* bound: failed stores, crashes and vanished files

NoRow == [path |-> <<"none">>]
NoTx == [upload |-> "none"]
Unknown == -1
NoArch == "" \* architectures have names, "unknown" among them

\* upload_dsym reports what could not be converted; an assembly drops it.
Converted ==
  [u \in Upload |-> IF Route[u] = "dsym" THEN ConvertFile(UploadFile[u])
                    ELSE AssembledItems(UploadFile[u], Hint[u])]

\* The payloads there are: [debug, kind, arch, quality, hash].
Artifact ==
  (Legacy \cup UNION {UNION {{Converted[u][i].object, Converted[u][i].cfi} :
                               i \in DOMAIN Converted[u]} : u \in Upload}) \ {NoArtifact}

ArtifactAssumption ==
  /\ \A u \in Upload : Route[u] \in {"dsym", "assemble"}
  /\ \A a, b \in Artifact : a.hash = b.hash => a = b
  /\ \A a \in Artifact : /\ a.arch # NoArch
                         /\ a.quality \in Nat /\ a.hash \in Nat
                         /\ a.kind # "native" => a.quality = 0
                         /\ a.debug[1] # NoHint[1]
  /\ NoArtifact \notin Legacy
  /\ \A a, b \in Legacy : <<a.debug, a.kind>> = <<b.debug, b.kind>> => a = b
  /\ \A u \in Upload :
       /\ Converted[u] \in Seq(ToSet(Converted[u]))
       /\ UploadFile[u].is = "objects" =>
            UploadFile[u].objects \in Seq(ToSet(UploadFile[u].objects))
       /\ \A i \in DOMAIN Converted[u] :
            Converted[u][i].outcome = "ok" => Converted[u][i].object # NoArtifact
ASSUME ArtifactAssumption

VARIABLES
  artifactRows,  \* the rows of artifact_debug_ids
  artifactFiles, \* paths that exist
  storeTx,       \* the write transaction: NoTx or what its owner read
  request,       \* request[u]: progress and answer of an upload
  storedOk,      \* history: payloads whose store returned Ok
  vanishedFiles, \* history: canonical files lost from the disk
  storeFaults

artifactVars == <<artifactRows, artifactFiles, storeTx, request, storedOk,
                  vanishedFiles, storeFaults>>

------------------------------------------------------------------------------
(* Rows and files.                                                         *)

\* Published files are content-addressed; older ones keep their old place.
ObjectPath(a) == <<"objects", a>>
LegacyPath(a) == <<"legacy", a>>
Paths == {ObjectPath(a) : a \in Artifact} \cup {LegacyPath(a) : a \in Legacy}
FileAt(path) == path[2]

Row(a, path) == [debug |-> a.debug, kind |-> a.kind, arch |-> a.arch,
                 quality |-> a.quality, hash |-> a.hash, path |-> path]
LegacyRow(a) == [debug |-> a.debug, kind |-> a.kind, arch |-> NoArch,
                 quality |-> Unknown, hash |-> Unknown, path |-> LegacyPath(a)]

\* The row a payload is compared with: its own, else (native files only) the
\* one whose architecture was never recorded.
Selected(a) ==
  LET same == {r \in artifactRows : r.debug = a.debug /\ r.kind = a.kind}
      exact == {r \in same : r.arch = a.arch}
      legacy == {r \in same : a.kind = "native" /\ r.arch = NoArch}
  IN  CHOOSE r \in exact \cup legacy \cup {NoRow} :
        /\ exact # {} => r \in exact
        /\ exact \cup legacy # {} => r # NoRow

\* A row without a measured quality is measured from its file; a row whose
\* file is gone loses its quality, so that any upload repairs it.
Measured(r) ==
  IF r.path \notin artifactFiles
  THEN [r EXCEPT !.quality = Unknown, !.hash = Unknown]
  ELSE [r EXCEPT !.quality = FileAt(r.path).quality, !.hash = FileAt(r.path).hash]

\* A legacy row turns out to belong to another architecture.
OtherArch(r, a) ==
  /\ r.arch = NoArch
  /\ r.path \in artifactFiles
  /\ FileAt(r.path).arch # a.arch

Inspected(r, a) ==
  IF r = NoRow \/ OtherArch(r, a) THEN NoRow ELSE Measured(r)

WinsTies(stored, a) == \* mutant: no digest breaks a tie
  stored # NoRow /\ stored.quality # Unknown /\ stored.quality >= a.quality

\* The stored row wins over the candidate: better, or equal and of a digest
\* that is not greater.
Wins(stored, a) ==
  /\ stored # NoRow
  /\ stored.quality # Unknown
  /\ \/ stored.quality > a.quality
     \/ (stored.quality = a.quality /\ stored.hash <= a.hash)

------------------------------------------------------------------------------
(* Requests.                                                               *)

NewRequest == [step |-> "idle", item |-> 1, part |-> "object",
               uploaded |-> {}, errors |-> {}, artifacts |-> {}, primary |-> NoHint]

CurrentItem(u) == Converted[u][request[u].item]
Payload(u) == IF request[u].part = "cfi" THEN CurrentItem(u).cfi ELSE CurrentItem(u).object

ArtifactTypeOK ==
  /\ artifactFiles \subseteq Paths
  /\ vanishedFiles \subseteq Paths
  /\ storedOk \subseteq Artifact
  /\ \A r \in artifactRows : r.path \in Paths
  /\ storeTx = NoTx \/ (storeTx.upload \in Upload /\ storeTx.payload \in Artifact)
  /\ \A u \in Upload : request[u].step \in {"idle", "storing", "answered", "failed"}
  /\ storeFaults \in 0..MaxStoreFaults

ArtifactInit ==
  /\ artifactRows = {LegacyRow(a) : a \in Legacy}
  /\ artifactFiles = {LegacyPath(a) : a \in Legacy}
  /\ storeTx = NoTx
  /\ request = [u \in Upload |-> NewRequest]
  /\ storedOk = Legacy
  /\ vanishedFiles = {}
  /\ storeFaults = 0

\* The file is staged and converted.  An assembly without objects is an error.
ConvertUpload(u) ==
  /\ request[u].step = "idle"
  /\ request' = [request EXCEPT ![u].step =
       IF Route[u] = "assemble" /\ Converted[u] = <<>> THEN "failed" ELSE "storing"]
  /\ UNCHANGED <<artifactRows, artifactFiles, storeTx, storedOk, vanishedFiles, storeFaults>>

\* The chunks are gone, do not add up to the checksum or are no archive.
AssembleFails(u) ==
  /\ request[u].step = "idle"
  /\ Route[u] = "assemble"
  /\ storeFaults < MaxStoreFaults
  /\ storeFaults' = storeFaults + 1
  /\ request' = [request EXCEPT ![u].step = "failed"]
  /\ UNCHANGED <<artifactRows, artifactFiles, storeTx, storedOk, vanishedFiles>>

\* The next part of a request after its current one: the unwind tables of the
\* object just stored, or the next object.
NextPart(u, r) ==
  IF r.part = "object" /\ CurrentItem(u).cfi # NoArtifact
  THEN [r EXCEPT !.part = "cfi"]
  ELSE [r EXCEPT !.part = "object", !.item = r.item + 1]

\* A stored part is reported: the object as uploaded, any part as an artifact.
AfterStore(u, a) ==
  NextPart(u, [request[u] EXCEPT !.artifacts = @ \cup {<<a.debug, a.arch, a.kind>>},
                 !.uploaded = IF request[u].part = "object" THEN @ \cup {request[u].item} ELSE @])

AfterFailureSilent(u) == \* mutant: upload_dsym skips the object without an error
  LET r == request[u] IN
  CASE r.part = "cfi" -> NextPart(u, r)
    [] r.part = "object" /\ Route[u] = "dsym" -> [r EXCEPT !.item = @ + 1]
    [] OTHER -> [r EXCEPT !.step = "failed"]

\* A part that could not be stored: unwind tables are optional; an object fails
\* the assembly, while upload_dsym reports it and goes on with the next.
AfterFailure(u) ==
  LET r == request[u] IN
  CASE r.part = "cfi" -> NextPart(u, r)
    [] r.part = "object" /\ Route[u] = "dsym" ->
         [r EXCEPT !.errors = @ \cup {r.item}, !.item = @ + 1]
    [] OTHER -> [r EXCEPT !.step = "failed"]

\* An item whose conversion failed is reported without a store.
ReportRejected(u) ==
  /\ request[u].step = "storing"
  /\ request[u].item <= Len(Converted[u])
  /\ CurrentItem(u).outcome = "rejected"
  /\ request' = [request EXCEPT ![u].errors = @ \cup {request[u].item},
                                ![u].part = "object", ![u].item = @ + 1]
  /\ UNCHANGED <<artifactRows, artifactFiles, storeTx, storedOk, vanishedFiles, storeFaults>>

\* An assembly's answer describes its primary object.
Answer(u) ==
  /\ request[u].step = "storing"
  /\ request[u].item > Len(Converted[u])
  /\ request' = [request EXCEPT ![u].step = "answered",
       ![u].primary = IF Route[u] = "dsym" THEN NoHint
                      ELSE Converted[u][Primary(Converted[u], Hint[u])].object.debug]
  /\ UNCHANGED <<artifactRows, artifactFiles, storeTx, storedOk, vanishedFiles, storeFaults>>

Storable(u) ==
  /\ request[u].step = "storing"
  /\ request[u].item \in DOMAIN Converted[u]
  /\ CurrentItem(u).outcome = "ok"

------------------------------------------------------------------------------
(* store_artifact.                                                         *)

\* BEGIN IMMEDIATE waits for the write transaction; then the row is read and,
\* if its quality is not known, its file.
BeginStore(u) ==
  /\ Storable(u)
  /\ storeTx = NoTx
  /\ LET row == Selected(Payload(u))
         stored == Inspected(row, Payload(u))
     IN  storeTx' = [upload |-> u, payload |-> Payload(u), published |-> FALSE,
                     row |-> IF stored = NoRow THEN NoRow ELSE row, stored |-> stored]
  /\ UNCHANGED <<artifactRows, artifactFiles, request, storedOk, vanishedFiles, storeFaults>>

\* update_existing: the row keeps its file and takes the candidate's
\* architecture and what was measured.
KeepStored(u) ==
  /\ storeTx # NoTx
  /\ storeTx.upload = u
  /\ ~storeTx.published
  /\ Wins(storeTx.stored, storeTx.payload)
  /\ artifactRows' = (artifactRows \ {storeTx.row})
       \cup {[storeTx.stored EXCEPT !.arch = storeTx.payload.arch]}
  /\ storeTx' = NoTx
  /\ request' = [request EXCEPT ![u] = AfterStore(u, storeTx.payload)]
  /\ storedOk' = storedOk \cup {storeTx.payload}
  /\ UNCHANGED <<artifactFiles, vanishedFiles, storeFaults>>

PublishNothing(u) == \* mutant: the row is committed for a file yet to be written
  /\ storeTx # NoTx
  /\ storeTx.upload = u
  /\ ~storeTx.published
  /\ ~Wins(storeTx.stored, storeTx.payload)
  /\ storeTx' = [storeTx EXCEPT !.published = TRUE]
  /\ UNCHANGED <<artifactRows, artifactFiles, request, storedOk, vanishedFiles, storeFaults>>

\* The candidate is written to its content-addressed path unless it is there.
PublishFile(u) ==
  /\ storeTx # NoTx
  /\ storeTx.upload = u
  /\ ~storeTx.published
  /\ ~Wins(storeTx.stored, storeTx.payload)
  /\ artifactFiles' = artifactFiles \cup {ObjectPath(storeTx.payload)}
  /\ vanishedFiles' = vanishedFiles \ {ObjectPath(storeTx.payload)}
  /\ storeTx' = [storeTx EXCEPT !.published = TRUE]
  /\ UNCHANGED <<artifactRows, request, storedOk, storeFaults>>

CommitRow(u) ==
  /\ storeTx # NoTx
  /\ storeTx.upload = u
  /\ storeTx.published
  /\ artifactRows' = (artifactRows \ {storeTx.row})
       \cup {Row(storeTx.payload, ObjectPath(storeTx.payload))}
  /\ storeTx' = NoTx
  /\ request' = [request EXCEPT ![u] = AfterStore(u, storeTx.payload)]
  /\ storedOk' = storedOk \cup {storeTx.payload}
  /\ UNCHANGED <<artifactFiles, vanishedFiles, storeFaults>>

\* Reading, publishing or a statement fails, before the transaction or in it.
StoreFails(u) ==
  /\ Storable(u)
  /\ storeFaults < MaxStoreFaults
  /\ storeFaults' = storeFaults + 1
  /\ storeTx' = IF storeTx # NoTx /\ storeTx.upload = u THEN NoTx ELSE storeTx
  /\ request' = [request EXCEPT ![u] = AfterFailure(u)]
  /\ UNCHANGED <<artifactRows, artifactFiles, storedOk, vanishedFiles>>

\* The process dies: the transaction is rolled back, the answers never arrive
\* and the clients (for an assembly the queue) start over.
StoreCrash ==
  /\ storeFaults < MaxStoreFaults
  /\ storeFaults' = storeFaults + 1
  /\ storeTx' = NoTx
  /\ request' = [u \in Upload |->
       IF request[u].step = "storing" THEN NewRequest ELSE request[u]]
  /\ UNCHANGED <<artifactRows, artifactFiles, storedOk, vanishedFiles>>

\* A canonical file is lost between transactions; what it won is forgotten.
CanonicalVanishes(r) ==
  /\ storeFaults < MaxStoreFaults
  /\ storeTx = NoTx
  /\ r.path \in artifactFiles
  /\ storeFaults' = storeFaults + 1
  /\ artifactFiles' = artifactFiles \ {r.path}
  /\ vanishedFiles' = vanishedFiles \cup {r.path}
  /\ storedOk' = {a \in storedOk : \/ a.debug # r.debug
                                   \/ a.kind # r.kind
                                   \/ a.arch # FileAt(r.path).arch}
  /\ UNCHANGED <<artifactRows, storeTx, request>>

ArtifactNext ==
  \/ \E u \in Upload : \/ ConvertUpload(u) \/ AssembleFails(u) \/ ReportRejected(u)
                       \/ Answer(u) \/ BeginStore(u) \/ KeepStored(u)
                       \/ PublishFile(u) \/ CommitRow(u) \/ StoreFails(u)
  \/ StoreCrash
  \/ \E r \in artifactRows : CanonicalVanishes(r)

ArtifactSpec == ArtifactInit /\ [][ArtifactNext]_artifactVars

------------------------------------------------------------------------------
(* Properties.                                                             *)

\* Every identity's row names the best payload ever stored for it - the one of
\* the highest quality, of the smallest digest among equals - whatever the order
\* of the uploads, and the old file of a row written before qualities counts as
\* one of them.
BestSelected ==
  \A a \in storedOk : \E r \in artifactRows :
    LET kept == FileAt(r.path) IN
    /\ <<r.debug, r.kind>> = <<a.debug, a.kind>>
    /\ r.arch \in {a.arch, NoArch}
    /\ kept.arch = a.arch
    /\ \/ kept.quality > a.quality
       \/ (kept.quality = a.quality /\ kept.hash <= a.hash)

\* A row never names a file that was not published: only a file that was lost
\* from the disk is missing.
RowsHaveFiles ==
  \A r \in artifactRows : r.path \in artifactFiles \cup vanishedFiles

\* An identity has one row: the INSERT and the change of a row's architecture
\* never meet UNIQUE(project_id, debug_id, arch, kind).
OneRowPerIdentity ==
  \A r, s \in artifactRows :
    <<r.debug, r.kind, r.arch>> = <<s.debug, s.kind, s.arch>> => r = s

\* An answered upload reports every converted object exactly once, as uploaded
\* or as an error, and lists only artifacts that have a row; an assembly that
\* names an identifier whose GUID is in its file answers with that identifier.
AnswersAreTrue ==
  \A u \in Upload : request[u].step = "answered" =>
    /\ request[u].uploaded \cup request[u].errors = 1..Len(Converted[u])
    /\ request[u].uploaded \cap request[u].errors = {}
    /\ \A id \in request[u].artifacts :
         \E r \in artifactRows : <<r.debug, r.arch, r.kind>> = id
    /\ Route[u] = "assemble" /\ (\E id \in request[u].artifacts : id[1][1] = Hint[u][1])
         => request[u].primary = Hint[u]

\* The rows a symbolicator reads are sound through every order of uploads, failing
\* statements and crashes: their files exist, and an identity has one.
RowsSound == RowsHaveFiles /\ OneRowPerIdentity
=============================================================================
