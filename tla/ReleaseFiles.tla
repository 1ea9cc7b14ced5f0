---------------------------- MODULE ReleaseFiles ----------------------------
(***************************************************************************)
(* One release: its data, its source maps and the caches symbolication     *)
(* keeps of them (api/releases.rs, worker/symbolication.rs).               *)
(*                                                                         *)
(* A request reads the release on a reader connection, merges its fields   *)
(* and writes the whole record back.  An upload does that too, then writes *)
(* the file in place (truncate, then write), upserts its row and drops two *)
(* cache entries.  A worker reads through the caches: the list of files of *)
(* the release, then the parsed map of one path.  No lock spans a read and *)
(* the put that follows it.                                                *)
(***************************************************************************)
EXTENDS Integers, FiniteSets, Sequences

CONSTANTS
  Field,        \* fields of a release's data
  MapName,      \* names of uploaded files
  MapPath,      \* paths the names are sanitized to
  MapContent,   \* contents of files
  SanitizedPath,\* SanitizedPath[name]: path of a name; names may share one
  ReleaseCall,  \* requests of the API
  CallOp,       \* CallOp[c]: [op, fields, name, dist, content]
  Symbolicator, \* workers that symbolicate events
  MaxEvents,    \* bound: events symbolicated by a worker
  MaxHangUps    \* bound: requests dropped by their clients

NoValue == "none"
NoRelease == [f \in Field |-> "not registered"]
NoList == <<>>            \* a cached list is a one-element sequence
Absent == "absent"
Torn == "torn"

ReleaseAssumption ==
  /\ SanitizedPath \in [MapName -> MapPath]
  /\ \A c \in ReleaseCall : CallOp[c].op \in {"update", "upload", "delete"}
  /\ \A c \in ReleaseCall : /\ CallOp[c].fields \subseteq Field
                            /\ CallOp[c].name \in MapName /\ CallOp[c].content \in MapContent
  /\ MaxEvents \in Nat
  /\ {Absent, Torn} \cap MapContent = {}
ASSUME ReleaseAssumption

VARIABLES
  releaseData,  \* the row of releases: NoRelease or a value per field
  fileRows,     \* the rows of release_files
  mapFile,      \* mapFile[path]: what is on disk
  listCache,    \* RELEASE_FILES_CACHE: NoList or the rows read
  mapCache,     \* SM_CACHE: Absent or the parsed content of a path
  call,         \* call[c]: progress of a request
  symbolicator, \* symbolicator[w]: progress of a worker
  staleList,    \* history: the list was put after a change it did not see
  staleMaps     \* history: paths put after a change they did not see

releaseVars == <<releaseData, fileRows, mapFile, listCache, mapCache, call,
                 symbolicator, staleList, staleMaps>>
databaseVars == <<releaseData, fileRows>>
cacheVars == <<listCache, mapCache, staleList, staleMaps>>

EmptyData == [f \in Field |-> NoValue]
CallPath(c) == SanitizedPath[CallOp[c].name]
FileRow(c) == [name |-> CallOp[c].name, dist |-> CallOp[c].dist, path |-> CallPath(c)]

MergeInput(data, c) == \* mutant: a field the request leaves out is cleared
  [f \in Field |-> IF f \in CallOp[c].fields THEN c ELSE NoValue]

\* merge_release_data: the fields a request names replace the stored ones.
MergeData(data, c) ==
  [f \in Field |-> IF f \in CallOp[c].fields THEN c ELSE data[f]]

CallSteps == {"idle", "merged", "check", "truncate", "write", "insert", "find",
              "remove", "unlink", "drop list", "drop map", "done", "gone"}
WorkerSteps == {"idle", "select", "put list", "match", "look up", "read", "put map"}

ReleaseTypeOK ==
  /\ releaseData = NoRelease \/ releaseData \in [Field -> ReleaseCall \cup {NoValue}]
  /\ mapFile \in [MapPath -> MapContent \cup {Absent, Torn}]
  /\ mapCache \in [MapPath -> MapContent \cup {Absent}]
  /\ \A c \in ReleaseCall : call[c].step \in CallSteps
  /\ \A w \in Symbolicator : /\ symbolicator[w].step \in WorkerSteps
                             /\ symbolicator[w].events \in 0..MaxEvents
  /\ staleMaps \subseteq MapPath

ReleaseInit ==
  /\ releaseData = NoRelease
  /\ fileRows = {}
  /\ mapFile = [p \in MapPath |-> Absent]
  /\ listCache = NoList
  /\ mapCache = [p \in MapPath |-> Absent]
  /\ call = [c \in ReleaseCall |->
       [step |-> IF CallOp[c].op = "delete" THEN "find" ELSE "idle",
        data |-> EmptyData, overtaken |-> FALSE]]
  /\ symbolicator = [w \in Symbolicator |->
       [step |-> "idle", list |-> NoList, path |-> NoValue, map |-> Absent, events |-> 0]]
  /\ staleList = FALSE
  /\ staleMaps = {}

Goto(c, step) == call' = [call EXCEPT ![c].step = step]

------------------------------------------------------------------------------
(* Requests.                                                               *)

\* The release is read on a reader connection and merged in memory.
ReadRelease(c) ==
  /\ call[c].step = "idle"
  /\ call' = [call EXCEPT ![c] =
       [step |-> "merged", overtaken |-> FALSE,
        data |-> MergeData(IF releaseData = NoRelease THEN EmptyData ELSE releaseData, c)]]
  /\ UNCHANGED <<databaseVars, mapFile, cacheVars, symbolicator>>

\* The whole record is written back over what was stored meanwhile.
WriteRelease(c) ==
  /\ call[c].step = "merged"
  /\ releaseData' = call[c].data
  /\ call' = [d \in ReleaseCall |->
       IF d = c
       THEN [call[c] EXCEPT !.step = IF CallOp[c].op = "upload" THEN "check" ELSE "done"]
       ELSE [call[d] EXCEPT !.overtaken = @ \/ call[d].step = "merged"]]
  /\ UNCHANGED <<fileRows, mapFile, cacheVars, symbolicator>>

\* Size, compression and name are checked after the release is written.
CheckUpload(c) ==
  /\ call[c].step = "check"
  /\ \E valid \in BOOLEAN : Goto(c, IF valid THEN "truncate" ELSE "done")
  /\ UNCHANGED <<databaseVars, mapFile, cacheVars, symbolicator>>

\* tokio::fs::write opens the file with truncation ...
TruncateFile(c) ==
  /\ call[c].step = "truncate"
  /\ mapFile' = [mapFile EXCEPT ![CallPath(c)] = Torn]
  /\ Goto(c, "write")
  /\ UNCHANGED <<databaseVars, cacheVars, symbolicator>>

\* ... and writes it; over another writer's bytes the longer of the two shows.
WriteFile(c) ==
  /\ call[c].step = "write"
  /\ \E left \in IF mapFile[CallPath(c)] \in {Absent, Torn}
                 THEN {CallOp[c].content} ELSE {CallOp[c].content, Torn} :
       mapFile' = [mapFile EXCEPT ![CallPath(c)] =
                     IF mapFile[CallPath(c)] = Absent THEN Absent ELSE left]
  /\ Goto(c, "insert")
  /\ UNCHANGED <<databaseVars, cacheVars, symbolicator>>

UpsertFileRow(c) ==
  /\ call[c].step = "insert"
  /\ fileRows' = {r \in fileRows : <<r.name, r.dist>> # <<CallOp[c].name, CallOp[c].dist>>}
                 \cup {FileRow(c)}
  /\ Goto(c, "drop list")
  /\ UNCHANGED <<releaseData, mapFile, cacheVars, symbolicator>>

\* delete_release_file reads the row on a reader connection ...
FindFileRow(c) ==
  /\ call[c].step = "find"
  /\ Goto(c, IF FileRow(c) \in fileRows THEN "remove" ELSE "done")
  /\ UNCHANGED <<databaseVars, mapFile, cacheVars, symbolicator>>

DeleteFileRow(c) ==
  /\ call[c].step = "remove"
  /\ fileRows' = fileRows \ {FileRow(c)}
  /\ Goto(c, "unlink")
  /\ UNCHANGED <<releaseData, mapFile, cacheVars, symbolicator>>

\* ... and removes the file it named, whoever names it now.
UnlinkFile(c) ==
  /\ call[c].step = "unlink"
  /\ mapFile' = [mapFile EXCEPT ![CallPath(c)] = Absent]
  /\ Goto(c, "drop list")
  /\ UNCHANGED <<databaseVars, cacheVars, symbolicator>>

\* invalidate_release_files
DropList(c) ==
  /\ call[c].step = "drop list"
  /\ listCache' = NoList
  /\ staleList' = FALSE
  /\ Goto(c, "drop map")
  /\ UNCHANGED <<databaseVars, mapFile, mapCache, staleMaps, symbolicator>>

DropNoMap(c) == \* mutant: the parsed map stays cached
  /\ call[c].step = "drop map"
  /\ Goto(c, "done")
  /\ UNCHANGED <<databaseVars, mapFile, cacheVars, symbolicator>>

\* invalidate_source_map_path
DropMap(c) ==
  /\ call[c].step = "drop map"
  /\ mapCache' = [mapCache EXCEPT ![CallPath(c)] = Absent]
  /\ staleMaps' = staleMaps \ {CallPath(c)}
  /\ Goto(c, "done")
  /\ UNCHANGED <<databaseVars, mapFile, listCache, staleList, symbolicator>>

\* A client hangs up: its request is dropped at an await.  The two caches are
\* dropped after the last one.
HangUp(c) ==
  /\ call[c].step \in CallSteps \ {"idle", "find", "done", "gone", "drop map"}
  /\ Cardinality({d \in ReleaseCall : call[d].step = "gone"}) < MaxHangUps
  /\ Goto(c, "gone")
  /\ UNCHANGED <<databaseVars, mapFile, cacheVars, symbolicator>>

------------------------------------------------------------------------------
(* symbolicate_event, for an event with one frame.                         *)

EventDone(w) ==
  symbolicator' = [symbolicator EXCEPT ![w] =
    [step |-> "idle", list |-> NoList, path |-> NoValue, map |-> Absent, events |-> @.events + 1]]

\* The list is cached, or the release is read; without one nothing is tried.
LookUpList(w) ==
  /\ symbolicator[w].step = "idle"
  /\ symbolicator[w].events < MaxEvents
  /\ CASE listCache # NoList ->
            symbolicator' = [symbolicator EXCEPT ![w].step = "match", ![w].list = listCache]
       [] listCache = NoList /\ releaseData # NoRelease ->
            symbolicator' = [symbolicator EXCEPT ![w].step = "select"]
       [] OTHER -> EventDone(w)
  /\ UNCHANGED <<databaseVars, mapFile, cacheVars, call>>

SelectList(w) ==
  /\ symbolicator[w].step = "select"
  /\ symbolicator' = [symbolicator EXCEPT ![w].step = "put list", ![w].list = <<fileRows>>]
  /\ UNCHANGED <<databaseVars, mapFile, cacheVars, call>>

PutList(w) ==
  /\ symbolicator[w].step = "put list"
  /\ listCache' = symbolicator[w].list
  /\ staleList' = (symbolicator[w].list # <<fileRows>>)
  /\ symbolicator' = [symbolicator EXCEPT ![w].step = "match"]
  /\ UNCHANGED <<databaseVars, mapFile, mapCache, staleMaps, call>>

\* The frame's map is looked for by name; the distribution is not compared.
MatchFrame(w) ==
  /\ symbolicator[w].step = "match"
  /\ \/ \E r \in symbolicator[w].list[1] :
          symbolicator' = [symbolicator EXCEPT ![w].step = "look up", ![w].path = r.path,
                                               ![w].list = NoList]
     \/ EventDone(w)
  /\ UNCHANGED <<databaseVars, mapFile, cacheVars, call>>

LookUpMap(w) ==
  /\ symbolicator[w].step = "look up"
  /\ IF mapCache[symbolicator[w].path] # Absent
     THEN EventDone(w)
     ELSE symbolicator' = [symbolicator EXCEPT ![w].step = "read"]
  /\ UNCHANGED <<databaseVars, mapFile, cacheVars, call>>

\* A missing file or one that does not parse leaves the frame as it is.
ReadMap(w) ==
  /\ symbolicator[w].step = "read"
  /\ LET found == mapFile[symbolicator[w].path] IN
     IF found \in {Absent, Torn}
     THEN EventDone(w)
     ELSE symbolicator' = [symbolicator EXCEPT ![w].step = "put map", ![w].map = found]
  /\ UNCHANGED <<databaseVars, mapFile, cacheVars, call>>

PutMap(w) ==
  /\ symbolicator[w].step = "put map"
  /\ LET path == symbolicator[w].path IN
     /\ mapCache' = [mapCache EXCEPT ![path] = symbolicator[w].map]
     /\ staleMaps' = IF symbolicator[w].map # mapFile[path]
                     THEN staleMaps \cup {path} ELSE staleMaps \ {path}
  /\ EventDone(w)
  /\ UNCHANGED <<databaseVars, mapFile, listCache, staleList, call>>

\* Other releases and other maps push an entry out.
EvictList ==
  /\ listCache # NoList
  /\ listCache' = NoList
  /\ staleList' = FALSE
  /\ UNCHANGED <<databaseVars, mapFile, mapCache, staleMaps, call, symbolicator>>

EvictMap(path) ==
  /\ mapCache[path] # Absent
  /\ mapCache' = [mapCache EXCEPT ![path] = Absent]
  /\ staleMaps' = staleMaps \ {path}
  /\ UNCHANGED <<databaseVars, mapFile, listCache, staleList, call, symbolicator>>

ReleaseNext ==
  \/ \E c \in ReleaseCall :
       \/ ReadRelease(c) \/ WriteRelease(c) \/ CheckUpload(c) \/ TruncateFile(c)
       \/ WriteFile(c) \/ UpsertFileRow(c) \/ FindFileRow(c) \/ DeleteFileRow(c)
       \/ UnlinkFile(c) \/ DropList(c) \/ DropMap(c) \/ HangUp(c)
  \/ \E w \in Symbolicator :
       \/ LookUpList(w) \/ SelectList(w) \/ PutList(w) \/ MatchFrame(w)
       \/ LookUpMap(w) \/ ReadMap(w) \/ PutMap(w)
  \/ EvictList
  \/ \E path \in MapPath : EvictMap(path)

ReleaseSpec == ReleaseInit /\ [][ReleaseNext]_releaseVars

------------------------------------------------------------------------------
(* Properties.                                                             *)

\* No request is between its first change of the files and the end of its
\* invalidations, and none was dropped there.
FilesSettled ==
  \A c \in ReleaseCall :
    call[c].step \in {"idle", "merged", "check", "truncate", "find", "remove", "done"}

\* Once uploads and deletions have finished, what is cached is what is stored -
\* unless a worker put it that had read it before the change it missed: every
\* change drops both caches, after it is made.
CachesFollowFiles ==
  FilesSettled =>
    /\ listCache # NoList /\ ~staleList => listCache = <<fileRows>>
    /\ \A path \in MapPath \ staleMaps : mapCache[path] \in {Absent, mapFile[path]}

\* A request changes the fields it names and no other, unless another request
\* wrote the release between its read and its write (then that update is lost).
OtherFieldsKept ==
  [][\A f \in Field :
       releaseData # NoRelease /\ releaseData'[f] # releaseData[f] =>
         \E c \in ReleaseCall :
           /\ call[c].step = "merged" /\ call'[c].step # "merged"
           /\ f \in CallOp[c].fields \/ call[c].overtaken]_releaseVars
=============================================================================
