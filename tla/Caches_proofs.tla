---------------------------- MODULE Caches_proofs ----------------------------
(***************************************************************************)
(* Theorems about the caches, and what is judged by them.                  *)
(*                                                                         *)
(* ReleaseFiles: after uploads and deletions have finished, what is cached *)
(* is what is stored, and a request changes only the fields it names, for  *)
(* any requests, names that share a path, workers and hang-ups.            *)
(*                                                                         *)
(* RateLimiter: a key is admitted at most twice its limit in a span of one *)
(* window unless the map forgot it, for any keys, limits and room.         *)
(*                                                                         *)
(* IngestAdmission: origins are judged by a list no older than the cache's *)
(* time to live, and the requests implement the limiter, whose theorem     *)
(* therefore holds of them.                                                *)
(*                                                                         *)
(* ByteCappedLru: the byte counter is off by exactly what the inner cache  *)
(* pushed out, and both limits are kept, for any costs and resizes.        *)
(***************************************************************************)
EXTENDS ReleaseFiles, IngestAdmission, ByteCappedLru, Subsequences_proofs

-----------------------------------------------------------------------------
\* ReleaseFiles: the inductive invariant.

Data == [Field -> ReleaseCall \cup {NoValue}]
AllRows == {FileRow(c) : c \in ReleaseCall}
Lists == {NoList} \cup {<<rows>> : rows \in SUBSET AllRows}

DatabaseTyped ==
  /\ releaseData = NoRelease \/ releaseData \in Data
  /\ fileRows \subseteq AllRows
  /\ mapFile \in [MapPath -> MapContent \cup {Absent, Torn}]

CachesTyped ==
  /\ listCache \in Lists
  /\ mapCache \in [MapPath -> MapContent \cup {Absent}]
  /\ staleMaps \subseteq MapPath

CallsTyped ==
  call \in [ReleaseCall -> [step : CallSteps, data : Data, overtaken : BOOLEAN]]

WorkersTyped ==
  symbolicator \in [Symbolicator ->
    [step : WorkerSteps, list : Lists, path : MapPath \cup {NoValue},
     map : MapContent \cup {Absent}, events : 0..MaxEvents]]

\* A worker in the middle of an event has what its next step needs, and has
\* events left.
WorkersEquipped ==
  \A w \in Symbolicator :
    /\ symbolicator[w].step # "idle" => symbolicator[w].events < MaxEvents
    /\ symbolicator[w].step \in {"put list", "match"} => symbolicator[w].list # NoList
    /\ symbolicator[w].step \in {"look up", "read", "put map"} => symbolicator[w].path \in MapPath

ReleaseTyped == DatabaseTyped /\ CachesTyped /\ CallsTyped /\ WorkersTyped /\ WorkersEquipped

\* The cached list misses a change only while the request that made it is on its
\* way to the invalidation, or was dropped there.
ListFollows ==
  \/ listCache = NoList \/ staleList \/ listCache = <<fileRows>>
  \/ \E c \in ReleaseCall : call[c].step \in {"unlink", "drop list", "gone"}

\* The same for the cached map of each path.
MapsFollow ==
  \A path \in MapPath \ staleMaps :
    \/ mapCache[path] \in {Absent, mapFile[path]}
    \/ \E c \in ReleaseCall :
         CallPath(c) = path /\ call[c].step \in {"write", "insert", "drop list", "drop map", "gone"}

\* What a request has merged differs from the stored record in its own fields
\* only, unless it was overtaken.
MergedOverStored ==
  \A c \in ReleaseCall : call[c].step = "merged" /\ ~call[c].overtaken =>
    \A f \in Field \ CallOp[c].fields :
      call[c].data[f] = (IF releaseData = NoRelease THEN EmptyData ELSE releaseData)[f]

ReleaseInv == ReleaseTyped /\ ListFollows /\ MapsFollow /\ MergedOverStored

-----------------------------------------------------------------------------
LEMMA PathsAre == \A c \in ReleaseCall : CallPath(c) \in MapPath
  BY ReleaseAssumption DEF CallPath, ReleaseAssumption

\* Where a request goes; nothing else of it changes.
LEMMA RequestGoes ==
  ASSUME CallsTyped, NEW c \in ReleaseCall, NEW step \in CallSteps, Goto(c, step)
  PROVE  /\ CallsTyped'
         /\ call'[c].step = step
         /\ call'[c].data = call[c].data /\ call'[c].overtaken = call[c].overtaken
         /\ \A d \in ReleaseCall \ {c} : call'[d] = call[d]
  BY DEF CallsTyped, Goto

\* What others have merged stays as it was over the same record.
LEMMA OthersMerged ==
  ASSUME MergedOverStored, NEW c \in ReleaseCall, call'[c].step # "merged",
         \A d \in ReleaseCall \ {c} : call'[d] = call[d], releaseData' = releaseData
  PROVE  MergedOverStored'
  BY DEF MergedOverStored

\* A request that goes on from no invalidation, with the files and the caches as
\* they are.
LEMMA QuietRequest ==
  ASSUME ReleaseInv, NEW c \in ReleaseCall, NEW step \in CallSteps, Goto(c, step),
         step # "merged",
         call[c].step \in {"unlink", "drop list", "gone"}
           => step \in {"unlink", "drop list", "gone"},
         call[c].step \in {"write", "insert", "drop list", "drop map", "gone"}
           => step \in {"write", "insert", "drop list", "drop map", "gone"},
         UNCHANGED <<databaseVars, mapFile, cacheVars, symbolicator>>
  PROVE  ReleaseInv'
<1>1. /\ CallsTyped' /\ call'[c].step = step
      /\ \A d \in ReleaseCall \ {c} : call'[d] = call[d]
  BY RequestGoes DEF ReleaseInv, ReleaseTyped
<1>2. ReleaseTyped'
  BY <1>1 DEF ReleaseInv, ReleaseTyped, DatabaseTyped, CachesTyped, WorkersTyped,
              WorkersEquipped, databaseVars, cacheVars
<1>3. ListFollows'
  BY <1>1 DEF ReleaseInv, ListFollows, databaseVars, cacheVars
<1>4. MapsFollow'
  BY <1>1 DEF ReleaseInv, MapsFollow, databaseVars, cacheVars
<1>5. MergedOverStored'
  BY <1>1, OthersMerged DEF ReleaseInv, databaseVars
<1> QED BY <1>2, <1>3, <1>4, <1>5 DEF ReleaseInv

LEMMA ReleaseInitInv == ReleaseInit => ReleaseInv
<1> SUFFICES ASSUME ReleaseInit PROVE ReleaseInv
  OBVIOUS
<1>1. EmptyData \in Data
  BY DEF EmptyData, Data
<1>2. CallsTyped
  BY <1>1 DEF ReleaseInit, CallsTyped, CallSteps
<1>3. DatabaseTyped /\ CachesTyped
  BY DEF ReleaseInit, DatabaseTyped, CachesTyped, Lists
<1>a. WorkersTyped
  BY ReleaseAssumption DEF ReleaseInit, ReleaseAssumption, WorkersTyped, WorkerSteps, Lists
<1>b. WorkersEquipped
  BY DEF ReleaseInit, WorkersEquipped
<1>4. WorkersTyped /\ WorkersEquipped
  BY <1>a, <1>b
<1>5. ListFollows /\ MapsFollow
  BY DEF ReleaseInit, ListFollows, MapsFollow
<1>6. MergedOverStored
  BY DEF ReleaseInit, MergedOverStored
<1> QED BY <1>2, <1>3, <1>4, <1>5, <1>6 DEF ReleaseInv, ReleaseTyped

LEMMA MergedData ==
  ASSUME NEW data \in Data, NEW c \in ReleaseCall
  PROVE  /\ MergeData(data, c) \in Data
         /\ \A f \in Field \ CallOp[c].fields : MergeData(data, c)[f] = data[f]
  BY DEF MergeData, Data

LEMMA ReadReleaseInv ==
  ASSUME ReleaseInv, NEW c \in ReleaseCall, ReadRelease(c)
  PROVE  ReleaseInv'
<1> DEFINE stored == IF releaseData = NoRelease THEN EmptyData ELSE releaseData
           merged == MergeData(stored, c)
<1>1. stored \in Data
  BY DEF ReleaseInv, ReleaseTyped, DatabaseTyped, EmptyData, Data
<1>2. merged \in Data /\ \A f \in Field \ CallOp[c].fields : merged[f] = stored[f]
  BY <1>1, MergedData
<1>3. /\ call' = [call EXCEPT ![c] = [step |-> "merged", overtaken |-> FALSE, data |-> merged]]
      /\ UNCHANGED <<databaseVars, mapFile, cacheVars, symbolicator>>
      /\ call[c].step = "idle" /\ CallsTyped
  BY DEF ReadRelease, ReleaseInv, ReleaseTyped
<1> HIDE DEF merged
<1>4. /\ CallsTyped'
      /\ call'[c].step = "merged" /\ call'[c].data = merged
      /\ \A d \in ReleaseCall \ {c} : call'[d] = call[d]
  BY <1>2, <1>3 DEF CallsTyped, CallSteps
<1>5. ReleaseTyped'
  BY <1>3, <1>4 DEF ReleaseInv, ReleaseTyped, DatabaseTyped, CachesTyped, WorkersTyped,
                    WorkersEquipped, databaseVars, cacheVars
<1>6. ListFollows' /\ MapsFollow'
  BY <1>3, <1>4 DEF ReleaseInv, ListFollows, MapsFollow, databaseVars, cacheVars
<1>7. MergedOverStored'
  BY <1>2, <1>3, <1>4 DEF ReleaseInv, MergedOverStored, databaseVars
<1> QED BY <1>5, <1>6, <1>7 DEF ReleaseInv

\* The write overtakes every other request that has merged.
LEMMA WriteReleaseInv ==
  ASSUME ReleaseInv, NEW c \in ReleaseCall, WriteRelease(c)
  PROVE  ReleaseInv'
<1>1. /\ call[c].step = "merged" /\ CallsTyped
      /\ call' = [d \in ReleaseCall |->
           IF d = c
           THEN [call[c] EXCEPT !.step = IF CallOp[c].op = "upload" THEN "check" ELSE "done"]
           ELSE [call[d] EXCEPT !.overtaken = @ \/ call[d].step = "merged"]]
      /\ UNCHANGED <<fileRows, mapFile, cacheVars, symbolicator>>
      /\ releaseData' = call[c].data
  BY DEF WriteRelease, ReleaseInv, ReleaseTyped
<1>2. CallsTyped'
  <2>1. ASSUME NEW d \in ReleaseCall
        PROVE  call'[d] \in [step : CallSteps, data : Data, overtaken : BOOLEAN]
    <3>1. call[d] \in [step : CallSteps, data : Data, overtaken : BOOLEAN]
      BY <1>1 DEF CallsTyped
    <3>2. CASE d = c
      BY <1>1, <3>1, <3>2 DEF CallSteps
    <3>3. CASE d # c
      <4>1. call'[d] = [call[d] EXCEPT !.overtaken = (call[d].overtaken \/ call[d].step = "merged")]
        BY <1>1, <3>3
      <4>2. (call[d].overtaken \/ call[d].step = "merged") \in BOOLEAN
        OBVIOUS
      <4> QED BY <3>1, <4>1, <4>2
    <3> QED BY <3>2, <3>3
  <2> QED BY <1>1, <2>1 DEF CallsTyped
<1>3. call'[c].step \in {"check", "done"}
  BY <1>1 DEF CallsTyped
<1>4. \A d \in ReleaseCall \ {c} : call'[d].step = call[d].step
  BY <1>1 DEF CallsTyped
<1>5. \A d \in ReleaseCall \ {c} : call[d].step = "merged" => call'[d].overtaken
  BY <1>1 DEF CallsTyped
<1>6. ReleaseTyped'
  <2>1. DatabaseTyped'
    BY <1>1 DEF ReleaseInv, ReleaseTyped, DatabaseTyped, CallsTyped
  <2>2. CachesTyped' /\ WorkersTyped' /\ WorkersEquipped'
    BY <1>1 DEF ReleaseInv, ReleaseTyped, CachesTyped, WorkersTyped, WorkersEquipped, cacheVars
  <2> QED BY <1>2, <2>1, <2>2 DEF ReleaseTyped
<1>7. ListFollows'
  BY <1>1, <1>3, <1>4 DEF ReleaseInv, ListFollows, cacheVars
<1>8. MapsFollow'
  BY <1>1, <1>3, <1>4 DEF ReleaseInv, MapsFollow, cacheVars
<1>9. MergedOverStored'
  BY <1>3, <1>4, <1>5 DEF MergedOverStored
<1> QED BY <1>6, <1>7, <1>8, <1>9 DEF ReleaseInv

\* A request that changes the rows or the file of its path, and is on its way
\* to the invalidation of what it changed.
LEMMA ChangingRequest ==
  ASSUME ReleaseInv, NEW c \in ReleaseCall,
         NEW step \in {"write", "insert", "unlink", "drop list"}, Goto(c, step),
         call[c].step \in {"truncate", "write", "insert", "remove", "unlink"},
         call[c].step \in {"write", "insert"} => step \in {"write", "insert", "drop list"},
         call[c].step = "unlink" => step = "drop list",
         fileRows' \subseteq AllRows,
         fileRows' = fileRows \/ step \in {"unlink", "drop list"},
         mapFile' \in [MapPath -> MapContent \cup {Absent, Torn}],
         \A path \in MapPath : mapFile'[path] # mapFile[path] =>
           path = CallPath(c) /\ step \in {"write", "insert", "drop list"},
         UNCHANGED <<releaseData, cacheVars, symbolicator>>
  PROVE  ReleaseInv'
<1>0. step \in CallSteps
  BY DEF CallSteps
<1>1. /\ CallsTyped' /\ call'[c].step = step
      /\ \A d \in ReleaseCall \ {c} : call'[d] = call[d]
  BY <1>0, RequestGoes DEF ReleaseInv, ReleaseTyped
<1>2. ReleaseTyped'
  <2>1. DatabaseTyped'
    BY DEF ReleaseInv, ReleaseTyped, DatabaseTyped
  <2>2. CachesTyped' /\ WorkersTyped' /\ WorkersEquipped'
    BY DEF ReleaseInv, ReleaseTyped, CachesTyped, WorkersTyped, WorkersEquipped, cacheVars
  <2> QED BY <1>1, <2>1, <2>2 DEF ReleaseTyped
<1>3. ListFollows'
  BY <1>1 DEF ReleaseInv, ListFollows, cacheVars
<1>4. MapsFollow'
  <2>1. SUFFICES ASSUME NEW path \in MapPath \ staleMaps, mapCache[path] \notin {Absent, mapFile'[path]}
                 PROVE  \E d \in ReleaseCall : /\ CallPath(d) = path
                          /\ call'[d].step \in {"write", "insert", "drop list", "drop map", "gone"}
    BY DEF MapsFollow, cacheVars, CallPath
  <2>2. CASE mapFile'[path] # mapFile[path]
    BY <1>1, <2>2
  <2>3. CASE mapFile'[path] = mapFile[path]
    <3>1. PICK d \in ReleaseCall : /\ CallPath(d) = path
             /\ call[d].step \in {"write", "insert", "drop list", "drop map", "gone"}
      BY <2>1, <2>3 DEF ReleaseInv, MapsFollow
    <3> QED BY <1>1, <3>1
  <2> QED BY <2>2, <2>3
<1>5. MergedOverStored'
  BY <1>1, OthersMerged DEF ReleaseInv
<1> QED BY <1>2, <1>3, <1>4, <1>5 DEF ReleaseInv

\* A step of a request that changes the rows or the file of its path.
LEMMA FileStepInv ==
  ASSUME ReleaseInv, NEW c \in ReleaseCall,
         TruncateFile(c) \/ WriteFile(c) \/ UpsertFileRow(c) \/ DeleteFileRow(c) \/ UnlinkFile(c)
  PROVE  ReleaseInv'
<1>0. /\ CallPath(c) \in MapPath /\ CallOp[c].content \in MapContent
      /\ fileRows \subseteq AllRows /\ FileRow(c) \in AllRows
      /\ mapFile \in [MapPath -> MapContent \cup {Absent, Torn}]
  BY PathsAre, ReleaseAssumption
  DEF ReleaseAssumption, ReleaseInv, ReleaseTyped, DatabaseTyped, AllRows
<1>1. CASE TruncateFile(c)
  <2>1. mapFile' = [mapFile EXCEPT ![CallPath(c)] = Torn]
    BY <1>1 DEF TruncateFile
  <2>2. mapFile' \in [MapPath -> MapContent \cup {Absent, Torn}]
    BY <1>0, <2>1
  <2>3. /\ call[c].step = "truncate" /\ Goto(c, "write")
        /\ UNCHANGED <<fileRows, releaseData, cacheVars, symbolicator>>
    BY <1>1 DEF TruncateFile, databaseVars
  <2> QED BY <1>0, <2>1, <2>2, <2>3, ChangingRequest
<1>2. CASE WriteFile(c)
  <2>1. PICK left \in {CallOp[c].content, Torn, Absent} :
          mapFile' = [mapFile EXCEPT ![CallPath(c)] = left]
    BY <1>2 DEF WriteFile
  <2>2. mapFile' \in [MapPath -> MapContent \cup {Absent, Torn}]
    BY <1>0, <2>1
  <2>3. /\ call[c].step = "write" /\ Goto(c, "insert")
        /\ UNCHANGED <<fileRows, releaseData, cacheVars, symbolicator>>
    BY <1>2 DEF WriteFile, databaseVars
  <2> QED BY <1>0, <2>1, <2>2, <2>3, ChangingRequest
<1>3. CASE UpsertFileRow(c)
  <2>1. fileRows' \subseteq AllRows
    BY <1>0, <1>3 DEF UpsertFileRow
  <2>2. /\ call[c].step = "insert" /\ Goto(c, "drop list")
        /\ UNCHANGED <<mapFile, releaseData, cacheVars, symbolicator>>
    BY <1>3 DEF UpsertFileRow
  <2> QED BY <1>0, <2>1, <2>2, ChangingRequest
<1>4. CASE DeleteFileRow(c)
  <2>1. fileRows' \subseteq AllRows
    BY <1>0, <1>4 DEF DeleteFileRow
  <2>2. /\ call[c].step = "remove" /\ Goto(c, "unlink")
        /\ UNCHANGED <<mapFile, releaseData, cacheVars, symbolicator>>
    BY <1>4 DEF DeleteFileRow
  <2> QED BY <1>0, <2>1, <2>2, ChangingRequest
<1>5. CASE UnlinkFile(c)
  <2>1. mapFile' = [mapFile EXCEPT ![CallPath(c)] = Absent]
    BY <1>5 DEF UnlinkFile
  <2>2. mapFile' \in [MapPath -> MapContent \cup {Absent, Torn}]
    BY <1>0, <2>1
  <2>3. /\ call[c].step = "unlink" /\ Goto(c, "drop list")
        /\ UNCHANGED <<fileRows, releaseData, cacheVars, symbolicator>>
    BY <1>5 DEF UnlinkFile, databaseVars
  <2> QED BY <1>0, <2>1, <2>2, <2>3, ChangingRequest
<1> QED BY <1>1, <1>2, <1>3, <1>4, <1>5

LEMMA QuietStepInv ==
  ASSUME ReleaseInv, NEW c \in ReleaseCall, CheckUpload(c) \/ FindFileRow(c) \/ HangUp(c)
  PROVE  ReleaseInv'
<1>1. CASE CheckUpload(c)
  <2>1. PICK step \in {"truncate", "done"} : Goto(c, step)
    BY <1>1 DEF CheckUpload
  <2>2. step \in CallSteps
    BY DEF CallSteps
  <2>3. /\ call[c].step = "check"
        /\ UNCHANGED <<databaseVars, mapFile, cacheVars, symbolicator>>
    BY <1>1 DEF CheckUpload
  <2> QED BY <2>1, <2>2, <2>3, QuietRequest
<1>2. CASE FindFileRow(c)
  <2>1. PICK step \in {"remove", "done"} : Goto(c, step)
    BY <1>2 DEF FindFileRow
  <2>2. step \in CallSteps
    BY DEF CallSteps
  <2>3. /\ call[c].step = "find"
        /\ UNCHANGED <<databaseVars, mapFile, cacheVars, symbolicator>>
    BY <1>2 DEF FindFileRow
  <2> QED BY <2>1, <2>2, <2>3, QuietRequest
<1>3. CASE HangUp(c)
  <2>1. "gone" \in CallSteps
    BY DEF CallSteps
  <2> QED BY <1>3, <2>1, QuietRequest DEF HangUp
<1> QED BY <1>1, <1>2, <1>3

\* An invalidation: what it drops is not stale any more.
LEMMA DropStepInv ==
  ASSUME ReleaseInv, NEW c \in ReleaseCall, DropList(c) \/ DropMap(c)
  PROVE  ReleaseInv'
<1>1. CASE DropList(c)
  <2>0. "drop map" \in CallSteps
    BY DEF CallSteps
  <2>1. /\ CallsTyped' /\ call'[c].step = "drop map"
        /\ \A d \in ReleaseCall \ {c} : call'[d] = call[d]
    BY <1>1, <2>0, RequestGoes DEF ReleaseInv, ReleaseTyped, DropList
  <2>2. listCache' = NoList /\ UNCHANGED <<databaseVars, mapFile, mapCache, staleMaps, symbolicator>>
    BY <1>1 DEF DropList
  <2>3. ReleaseTyped'
    BY <2>1, <2>2 DEF ReleaseInv, ReleaseTyped, DatabaseTyped, CachesTyped, WorkersTyped,
                      WorkersEquipped, databaseVars, Lists
  <2>4. ListFollows'
    BY <2>2 DEF ListFollows
  <2>5. MapsFollow'
    BY <2>1, <2>2 DEF ReleaseInv, MapsFollow
  <2>6. MergedOverStored'
    BY <2>1, <2>2, OthersMerged DEF ReleaseInv, databaseVars
  <2> QED BY <2>3, <2>4, <2>5, <2>6 DEF ReleaseInv
<1>2. CASE DropMap(c)
  <2>0. "done" \in CallSteps
    BY DEF CallSteps
  <2>1. /\ CallsTyped' /\ call'[c].step = "done" /\ call[c].step = "drop map"
        /\ \A d \in ReleaseCall \ {c} : call'[d] = call[d]
    BY <1>2, <2>0, RequestGoes DEF ReleaseInv, ReleaseTyped, DropMap
  <2>2. /\ mapCache' = [mapCache EXCEPT ![CallPath(c)] = Absent]
        /\ staleMaps' = staleMaps \ {CallPath(c)}
        /\ UNCHANGED <<databaseVars, mapFile, listCache, staleList, symbolicator>>
    BY <1>2 DEF DropMap
  <2>3. /\ mapCache \in [MapPath -> MapContent \cup {Absent}] /\ CallPath(c) \in MapPath
    BY PathsAre DEF ReleaseInv, ReleaseTyped, CachesTyped
  <2>4. ReleaseTyped'
    <3>1. CachesTyped'
      BY <2>2, <2>3 DEF ReleaseInv, ReleaseTyped, CachesTyped
    <3>2. DatabaseTyped' /\ WorkersTyped' /\ WorkersEquipped'
      BY <2>2 DEF ReleaseInv, ReleaseTyped, DatabaseTyped, WorkersTyped, WorkersEquipped,
                  databaseVars
    <3> QED BY <2>1, <3>1, <3>2 DEF ReleaseTyped
  <2>5. ListFollows'
    BY <2>1, <2>2 DEF ReleaseInv, ListFollows, databaseVars
  <2>6. MapsFollow'
    <3>1. SUFFICES ASSUME NEW path \in MapPath \ staleMaps', mapCache'[path] \notin {Absent, mapFile[path]}
                   PROVE  \E d \in ReleaseCall : /\ CallPath(d) = path
                            /\ call'[d].step \in {"write", "insert", "drop list", "drop map", "gone"}
      BY <2>2 DEF MapsFollow, CallPath
    <3>2. path # CallPath(c)
      BY <2>2, <2>3, <3>1
    <3>3. mapCache'[path] = mapCache[path] /\ path \notin staleMaps
      BY <2>2, <2>3, <3>1, <3>2
    <3>4. PICK d \in ReleaseCall : /\ CallPath(d) = path
             /\ call[d].step \in {"write", "insert", "drop list", "drop map", "gone"}
      BY <3>1, <3>3 DEF ReleaseInv, MapsFollow
    <3> QED BY <2>1, <3>2, <3>4
  <2>7. MergedOverStored'
    BY <2>1, <2>2, OthersMerged DEF ReleaseInv, databaseVars
  <2> QED BY <2>4, <2>5, <2>6, <2>7 DEF ReleaseInv
<1> QED BY <1>1, <1>2

-----------------------------------------------------------------------------
\* The workers.

WorkerRecord ==
  [step : WorkerSteps, list : Lists, path : MapPath \cup {NoValue},
   map : MapContent \cup {Absent}, events : 0..MaxEvents]

Equipped(r) ==
  /\ r.step # "idle" => r.events < MaxEvents
  /\ r.step \in {"put list", "match"} => r.list # NoList
  /\ r.step \in {"look up", "read", "put map"} => r.path \in MapPath

\* A worker that has what it needs in its next state.
LEMMA WorkerGoes ==
  ASSUME WorkersTyped, WorkersEquipped, NEW w \in Symbolicator, NEW r \in WorkerRecord,
         Equipped(r), symbolicator' = [symbolicator EXCEPT ![w] = r]
  PROVE  WorkersTyped' /\ WorkersEquipped'
  BY DEF WorkersTyped, WorkersEquipped, WorkerRecord, Equipped

LEMMA WorkerAt ==
  ASSUME ReleaseInv, NEW w \in Symbolicator
  PROVE  symbolicator[w] \in WorkerRecord /\ Equipped(symbolicator[w])
  BY DEF ReleaseInv, ReleaseTyped, WorkersTyped, WorkersEquipped, WorkerRecord, Equipped

\* An event that is done.
LEMMA DoneWithEvent ==
  ASSUME ReleaseInv, NEW w \in Symbolicator, EventDone(w),
         symbolicator[w].events < MaxEvents
  PROVE  WorkersTyped' /\ WorkersEquipped'
<1> DEFINE r == [step |-> "idle", list |-> NoList, path |-> NoValue, map |-> Absent,
                 events |-> symbolicator[w].events + 1]
<1>1. symbolicator' = [symbolicator EXCEPT ![w] = r]
  BY DEF EventDone
<1>2. symbolicator[w].events \in 0..MaxEvents /\ MaxEvents \in Nat
  BY WorkerAt, ReleaseAssumption DEF WorkerRecord, ReleaseAssumption
<1>3. r \in WorkerRecord
  BY <1>2 DEF WorkerRecord, WorkerSteps, Lists
<1>4. Equipped(r)
  BY DEF Equipped
<1> HIDE DEF r
<1> QED BY <1>1, <1>3, <1>4, WorkerGoes DEF ReleaseInv, ReleaseTyped

\* A step of a worker that leaves everything else as it is.
LEMMA ReadingWorker ==
  ASSUME ReleaseInv, WorkersTyped' /\ WorkersEquipped',
         UNCHANGED <<databaseVars, mapFile, cacheVars, call>>
  PROVE  ReleaseInv'
<1>1. ReleaseTyped'
  BY DEF ReleaseInv, ReleaseTyped, DatabaseTyped, CachesTyped, CallsTyped, databaseVars, cacheVars
<1>2. ListFollows' /\ MapsFollow' /\ MergedOverStored'
  BY DEF ReleaseInv, ListFollows, MapsFollow, MergedOverStored, databaseVars, cacheVars
<1> QED BY <1>1, <1>2 DEF ReleaseInv

LEMMA ListStepInv ==
  ASSUME ReleaseInv, NEW w \in Symbolicator, LookUpList(w) \/ SelectList(w) \/ MatchFrame(w)
  PROVE  ReleaseInv'
<1>0. /\ symbolicator[w] \in WorkerRecord /\ Equipped(symbolicator[w])
      /\ WorkersTyped /\ WorkersEquipped
  BY WorkerAt DEF ReleaseInv, ReleaseTyped
<1>1. CASE LookUpList(w)
  <2>1. CASE /\ listCache # NoList
             /\ symbolicator' = [symbolicator EXCEPT ![w].step = "match", ![w].list = listCache]
    <3> DEFINE r == [symbolicator[w] EXCEPT !.step = "match", !.list = listCache]
    <3>1. symbolicator' = [symbolicator EXCEPT ![w] = r]
      BY <2>1
    <3>2. r \in WorkerRecord /\ Equipped(r)
      BY <1>0, <1>1, <2>1 DEF WorkerRecord, WorkerSteps, Equipped, LookUpList, ReleaseInv,
                              ReleaseTyped, CachesTyped
    <3> HIDE DEF r
    <3> QED BY <1>0, <1>1, <3>1, <3>2, WorkerGoes, ReadingWorker DEF LookUpList
  <2>2. CASE symbolicator' = [symbolicator EXCEPT ![w].step = "select"]
    <3> DEFINE r == [symbolicator[w] EXCEPT !.step = "select"]
    <3>1. symbolicator' = [symbolicator EXCEPT ![w] = r]
      BY <2>2
    <3>2. r \in WorkerRecord /\ Equipped(r)
      BY <1>0, <1>1 DEF WorkerRecord, WorkerSteps, Equipped, LookUpList
    <3> HIDE DEF r
    <3> QED BY <1>0, <1>1, <3>1, <3>2, WorkerGoes, ReadingWorker DEF LookUpList
  <2>3. CASE EventDone(w)
    BY <1>1, <2>3, DoneWithEvent, ReadingWorker DEF LookUpList
  <2> QED BY <1>1, <2>1, <2>2, <2>3 DEF LookUpList
<1>2. CASE SelectList(w)
  <2> DEFINE r == [symbolicator[w] EXCEPT !.step = "put list", !.list = <<fileRows>>]
  <2>1. symbolicator' = [symbolicator EXCEPT ![w] = r]
    BY <1>2 DEF SelectList
  <2>2. <<fileRows>> \in Lists /\ <<fileRows>> # NoList
    BY DEF Lists, NoList, ReleaseInv, ReleaseTyped, DatabaseTyped
  <2>3. r \in WorkerRecord /\ Equipped(r)
    BY <1>0, <1>2, <2>2 DEF WorkerRecord, WorkerSteps, Equipped, SelectList
  <2> HIDE DEF r
  <2> QED BY <1>0, <1>2, <2>1, <2>3, WorkerGoes, ReadingWorker DEF SelectList
<1>3. CASE MatchFrame(w)
  <2>1. symbolicator[w].step = "match" /\ symbolicator[w].events < MaxEvents
    BY <1>0, <1>3 DEF MatchFrame, Equipped
  <2>2. ASSUME NEW row \in symbolicator[w].list[1],
               symbolicator' = [symbolicator EXCEPT ![w].step = "look up", ![w].path = row.path,
                                                    ![w].list = NoList]
        PROVE  ReleaseInv'
    <3>1. PICK rows \in SUBSET AllRows : symbolicator[w].list = <<rows>>
      BY <1>0, <2>1 DEF WorkerRecord, Lists, Equipped
    <3>a. symbolicator[w].list[1] = rows
      BY <3>1
    <3>2. row \in AllRows
      BY <2>2, <3>a
    <3>3. row.path \in MapPath
      BY <3>2, PathsAre DEF AllRows, FileRow
    <3> DEFINE r == [symbolicator[w] EXCEPT !.step = "look up", !.path = row.path, !.list = NoList]
    <3>4. symbolicator' = [symbolicator EXCEPT ![w] = r]
      BY <2>2
    <3>5. r \in WorkerRecord /\ Equipped(r)
      BY <1>0, <2>1, <3>3 DEF WorkerRecord, WorkerSteps, Equipped, Lists
    <3> HIDE DEF r
    <3> QED BY <1>0, <1>3, <3>4, <3>5, WorkerGoes, ReadingWorker DEF MatchFrame
  <2>3. CASE EventDone(w)
    BY <1>3, <2>1, <2>3, DoneWithEvent, ReadingWorker DEF MatchFrame
  <2> QED BY <1>3, <2>2, <2>3 DEF MatchFrame
<1> QED BY <1>1, <1>2, <1>3

LEMMA MapStepInv ==
  ASSUME ReleaseInv, NEW w \in Symbolicator, LookUpMap(w) \/ ReadMap(w)
  PROVE  ReleaseInv'
<1>0. /\ symbolicator[w] \in WorkerRecord /\ Equipped(symbolicator[w])
      /\ WorkersTyped /\ WorkersEquipped
  BY WorkerAt DEF ReleaseInv, ReleaseTyped
<1>a. symbolicator[w].events < MaxEvents /\ symbolicator[w].path \in MapPath
  BY <1>0 DEF LookUpMap, ReadMap, Equipped
<1>1. CASE EventDone(w)
  BY <1>a, <1>1, DoneWithEvent, ReadingWorker DEF LookUpMap, ReadMap
<1>2. CASE symbolicator' = [symbolicator EXCEPT ![w].step = "read"]
  <2> DEFINE r == [symbolicator[w] EXCEPT !.step = "read"]
  <2>1. symbolicator' = [symbolicator EXCEPT ![w] = r]
    BY <1>2
  <2>2. r \in WorkerRecord /\ Equipped(r)
    BY <1>0, <1>a DEF WorkerRecord, WorkerSteps, Equipped
  <2> HIDE DEF r
  <2> QED BY <1>0, <2>1, <2>2, WorkerGoes, ReadingWorker DEF LookUpMap, ReadMap
<1>3. ASSUME NEW found \in MapContent,
             symbolicator' = [symbolicator EXCEPT ![w].step = "put map", ![w].map = found]
      PROVE  ReleaseInv'
  <2> DEFINE r == [symbolicator[w] EXCEPT !.step = "put map", !.map = found]
  <2>1. symbolicator' = [symbolicator EXCEPT ![w] = r]
    BY <1>3
  <2>2. r \in WorkerRecord /\ Equipped(r)
    BY <1>0, <1>a DEF WorkerRecord, WorkerSteps, Equipped
  <2> HIDE DEF r
  <2> QED BY <1>0, <2>1, <2>2, WorkerGoes, ReadingWorker DEF LookUpMap, ReadMap
<1>4. mapFile[symbolicator[w].path] \in MapContent \cup {Absent, Torn}
  BY <1>a DEF ReleaseInv, ReleaseTyped, DatabaseTyped
<1> QED BY <1>1, <1>2, <1>3, <1>4 DEF LookUpMap, ReadMap

\* A put that missed a change is recorded as stale.
LEMMA PutStepInv ==
  ASSUME ReleaseInv, NEW w \in Symbolicator, PutList(w) \/ PutMap(w)
  PROVE  ReleaseInv'
<1>0. /\ symbolicator[w] \in WorkerRecord /\ Equipped(symbolicator[w])
      /\ WorkersTyped /\ WorkersEquipped /\ CachesTyped
  BY WorkerAt DEF ReleaseInv, ReleaseTyped
<1>1. CASE PutList(w)
  <2> DEFINE r == [symbolicator[w] EXCEPT !.step = "match"]
  <2>1. symbolicator' = [symbolicator EXCEPT ![w] = r]
    BY <1>1 DEF PutList
  <2>2. r \in WorkerRecord /\ Equipped(r)
    BY <1>0, <1>1 DEF WorkerRecord, WorkerSteps, Equipped, PutList
  <2> HIDE DEF r
  <2>3. WorkersTyped' /\ WorkersEquipped'
    BY <1>0, <2>1, <2>2, WorkerGoes
  <2>4. /\ listCache' = symbolicator[w].list /\ symbolicator[w].list \in Lists
        /\ staleList' = (symbolicator[w].list # <<fileRows>>)
        /\ UNCHANGED <<databaseVars, mapFile, mapCache, staleMaps, call>>
    BY <1>0, <1>1 DEF PutList, WorkerRecord
  <2>5. ReleaseTyped'
    BY <2>3, <2>4 DEF ReleaseInv, ReleaseTyped, DatabaseTyped, CachesTyped, CallsTyped,
                      databaseVars
  <2>6. ListFollows'
    BY <2>4 DEF ListFollows, databaseVars
  <2>7. MapsFollow' /\ MergedOverStored'
    BY <2>4 DEF ReleaseInv, MapsFollow, MergedOverStored, databaseVars
  <2> QED BY <2>5, <2>6, <2>7 DEF ReleaseInv
<1>2. CASE PutMap(w)
  <2> DEFINE path == symbolicator[w].path
             map == symbolicator[w].map
  <2>1. WorkersTyped' /\ WorkersEquipped'
    BY <1>0, <1>2, DoneWithEvent DEF PutMap, Equipped
  <2>2. /\ path \in MapPath /\ map \in MapContent \cup {Absent}
    BY <1>0, <1>2 DEF PutMap, Equipped, WorkerRecord
  <2>3. /\ mapCache' = [mapCache EXCEPT ![path] = map]
        /\ staleMaps' = IF map # mapFile[path] THEN staleMaps \cup {path} ELSE staleMaps \ {path}
        /\ UNCHANGED <<databaseVars, mapFile, listCache, staleList, call>>
    BY <1>2 DEF PutMap
  <2> HIDE DEF path, map
  <2>4. ReleaseTyped'
    <3>1. CachesTyped'
      BY <1>0, <2>2, <2>3 DEF CachesTyped
    <3> QED BY <2>1, <2>3, <3>1 DEF ReleaseInv, ReleaseTyped, DatabaseTyped, CallsTyped, databaseVars
  <2>5. ListFollows' /\ MergedOverStored'
    BY <2>3 DEF ReleaseInv, ListFollows, MergedOverStored, databaseVars
  <2>6. MapsFollow'
    <3>1. \A p \in MapPath \ {path} : mapCache'[p] = mapCache[p]
      BY <1>0, <2>3 DEF CachesTyped
    <3>2. mapCache'[path] = map
      BY <1>0, <2>2, <2>3 DEF CachesTyped
    <3> QED BY <2>3, <3>1, <3>2 DEF ReleaseInv, MapsFollow
  <2> QED BY <2>4, <2>5, <2>6 DEF ReleaseInv
<1> QED BY <1>1, <1>2

LEMMA EvictStepInv ==
  ASSUME ReleaseInv, EvictList \/ \E path \in MapPath : EvictMap(path)
  PROVE  ReleaseInv'
<1>1. CASE EvictList
  <2>1. ReleaseTyped'
    BY <1>1 DEF EvictList, ReleaseInv, ReleaseTyped, DatabaseTyped, CachesTyped, CallsTyped,
                WorkersTyped, WorkersEquipped, databaseVars, Lists
  <2>2. ListFollows' /\ MapsFollow' /\ MergedOverStored'
    BY <1>1 DEF EvictList, ReleaseInv, ListFollows, MapsFollow, MergedOverStored, databaseVars
  <2> QED BY <2>1, <2>2 DEF ReleaseInv
<1>2. ASSUME NEW path \in MapPath, EvictMap(path)
      PROVE  ReleaseInv'
  <2>1. /\ CachesTyped /\ mapCache' = [mapCache EXCEPT ![path] = Absent]
        /\ staleMaps' = staleMaps \ {path}
        /\ UNCHANGED <<databaseVars, mapFile, listCache, staleList, call, symbolicator>>
    BY <1>2 DEF EvictMap, ReleaseInv, ReleaseTyped
  <2>2. ReleaseTyped'
    <3>1. CachesTyped'
      BY <2>1 DEF CachesTyped
    <3> QED BY <2>1, <3>1 DEF ReleaseInv, ReleaseTyped, DatabaseTyped, CallsTyped, WorkersTyped,
                              WorkersEquipped, databaseVars
  <2>3. ListFollows' /\ MergedOverStored'
    BY <2>1 DEF ReleaseInv, ListFollows, MergedOverStored, databaseVars
  <2>4. MapsFollow'
    <3>1. /\ mapCache'[path] = Absent
          /\ \A p \in MapPath \ {path} : mapCache'[p] = mapCache[p]
      BY <2>1 DEF CachesTyped
    <3> QED BY <2>1, <3>1 DEF ReleaseInv, MapsFollow
  <2> QED BY <2>2, <2>3, <2>4 DEF ReleaseInv
<1> QED BY <1>1, <1>2

-----------------------------------------------------------------------------
LEMMA ReleaseStepInv == ReleaseInv /\ [ReleaseNext]_releaseVars => ReleaseInv'
<1>1. ReleaseInv /\ UNCHANGED releaseVars => ReleaseInv'
  <2>1. ReleaseTyped /\ UNCHANGED releaseVars => ReleaseTyped'
    BY DEF releaseVars, ReleaseTyped, DatabaseTyped, CachesTyped, CallsTyped, WorkersTyped,
           WorkersEquipped
  <2>2. ListFollows /\ UNCHANGED releaseVars => ListFollows'
    <3> SUFFICES ASSUME ListFollows, UNCHANGED <<listCache, staleList, fileRows, call>>
                 PROVE  ListFollows'
      BY DEF releaseVars
    <3> QED BY DEF ListFollows
  <2>3. MapsFollow /\ UNCHANGED releaseVars => MapsFollow'
    BY DEF releaseVars, MapsFollow
  <2>4. MergedOverStored /\ UNCHANGED releaseVars => MergedOverStored'
    BY DEF releaseVars, MergedOverStored
  <2> QED BY <2>1, <2>2, <2>3, <2>4 DEF ReleaseInv
<1>2. ReleaseInv /\ ReleaseNext => ReleaseInv'
  BY ReadReleaseInv, WriteReleaseInv, FileStepInv, QuietStepInv, DropStepInv, ListStepInv,
     MapStepInv, PutStepInv, EvictStepInv
  DEF ReleaseNext
<1> QED BY <1>1, <1>2

\* The invariant of ReleaseFiles holds in every reachable state.
THEOREM ReleaseInvariant == ReleaseSpec => []ReleaseInv
  BY ReleaseInitInv, ReleaseStepInv, PTL DEF ReleaseSpec

\* api/releases.rs and worker/symbolication.rs: the invariant implies the types.
THEOREM ReleaseTypeCorrect == ReleaseSpec => []ReleaseTypeOK
<1>1. ReleaseInv => ReleaseTypeOK
  <2> SUFFICES ASSUME ReleaseInv PROVE ReleaseTypeOK
    OBVIOUS
  <2>1. \A c \in ReleaseCall : call[c].step \in CallSteps
    BY DEF ReleaseInv, ReleaseTyped, CallsTyped
  <2>2. \A w \in Symbolicator : /\ symbolicator[w].step \in WorkerSteps
                               /\ symbolicator[w].events \in 0..MaxEvents
    BY WorkerAt DEF WorkerRecord
  <2> QED BY <2>1, <2>2 DEF ReleaseInv, ReleaseTyped, DatabaseTyped, CachesTyped, ReleaseTypeOK, Data
<1> QED BY <1>1, ReleaseInvariant, PTL

\* upload_release_file and delete_release_file (api/releases.rs) beside
\* symbolicate_event (worker/symbolication.rs): once uploads and deletions have
\* finished, what is cached is what is stored, for any requests, names that share
\* a path, and workers - unless a worker put it that had read before the change.
THEOREM CachesFollow == ReleaseSpec => []CachesFollowFiles
<1>1. ReleaseInv => CachesFollowFiles
  BY DEF ReleaseInv, ListFollows, MapsFollow, CachesFollowFiles, FilesSettled
<1> QED BY <1>1, ReleaseInvariant, PTL

\* merge_release_data (api/releases.rs): a request changes the fields it names
\* and no other, unless another request wrote the release between its read and
\* its write.
THEOREM OtherFieldsAreKept == ReleaseSpec => OtherFieldsKept
<1> DEFINE Kept ==
      \A f \in Field :
       releaseData # NoRelease /\ releaseData'[f] # releaseData[f] =>
         \E c \in ReleaseCall :
           /\ call[c].step = "merged" /\ call'[c].step # "merged"
           /\ f \in CallOp[c].fields \/ call[c].overtaken
<1>1. ASSUME ReleaseInv, ReleaseNext PROVE Kept
  <2>1. CASE UNCHANGED releaseData
    BY <2>1
  <2>2. ASSUME NEW c \in ReleaseCall, WriteRelease(c) PROVE Kept
    <3>1. /\ call[c].step = "merged" /\ releaseData' = call[c].data
          /\ call'[c].step # "merged"
      BY <1>1, <2>2 DEF WriteRelease, ReleaseInv, ReleaseTyped, CallsTyped
    <3>2. ASSUME NEW f \in Field, releaseData # NoRelease, f \notin CallOp[c].fields,
                 ~call[c].overtaken
          PROVE  releaseData'[f] = releaseData[f]
      BY <1>1, <3>1, <3>2 DEF ReleaseInv, MergedOverStored
    <3> QED BY <3>1, <3>2
  <2> QED BY <1>1, <2>1, <2>2
      DEF ReleaseNext, ReadRelease, CheckUpload, TruncateFile, WriteFile, UpsertFileRow,
          FindFileRow, DeleteFileRow, UnlinkFile, DropList, DropMap, HangUp, LookUpList,
          SelectList, PutList, MatchFrame, LookUpMap, ReadMap, PutMap, EvictList, EvictMap,
          databaseVars
<1>2. ReleaseInv /\ [ReleaseNext]_releaseVars => [Kept]_releaseVars
  BY <1>1
<1> QED BY <1>2, ReleaseInvariant, PTL DEF ReleaseSpec, OtherFieldsKept

-----------------------------------------------------------------------------
\* RateLimiter: the inductive invariant.

Window == [key : IngestKey, count : Nat, start : Nat]

RateTyped ==
  /\ ingestTime \in Nat
  /\ rateWindows \in Seq(Window) /\ Len(rateWindows) <= TrackedKeys
  /\ admittedAt \in [IngestKey -> Seq(Nat)]
  /\ othersSince \in [IngestKey -> SUBSET IngestKey]
  /\ \A k \in IngestKey : IsFiniteSet(othersSince[k])

\* No time is in the future.
RateTimes ==
  /\ \A i \in 1..Len(rateWindows) : rateWindows[i].start <= ingestTime
  /\ \A k \in IngestKey : \A n \in 1..Len(admittedAt[k]) : admittedAt[k][n] <= ingestTime

OneWindowPerKey ==
  \A i, j \in 1..Len(rateWindows) : rateWindows[i].key = rateWindows[j].key => i = j

KeysBefore(i) == {rateWindows[j].key : j \in 1..(i - 1)}

\* The keys before a key in the map are those that were used after it ...
PlaceIsRecency ==
  \A i \in 1..Len(rateWindows) :
    /\ othersSince[rateWindows[i].key] = KeysBefore(i)
    /\ Cardinality(othersSince[rateWindows[i].key]) = i - 1

\* ... and a key that was admitted and is not in the map had to make room.
ForgottenInTurn ==
  \A k \in IngestKey : admittedAt[k] # <<>> /\ ~Tracked(k) => Cardinality(othersSince[k]) >= TrackedKeys

\* Admissions, by their places, from a time on and in the window before it.
Since(times, from) == {n \in 1..Len(times) : times[n] >= from}
Preceding(times, from) == {n \in 1..Len(times) : times[n] > from - RateWindow /\ times[n] < from}

\* A window has counted the admissions since it began, and the one before it
\* admitted no more than the limit.
Counts(w, times, limit) ==
  /\ Cardinality(Since(times, w.start)) <= w.count /\ w.count <= limit
  /\ Cardinality(Preceding(times, w.start)) <= limit
  /\ \A n \in 1..Len(times) : times[n] < w.start + RateWindow

WindowsCount ==
  \A i \in 1..Len(rateWindows) :
    LET w == rateWindows[i] IN Counts(w, admittedAt[w.key], KeyLimit[w.key])

RateInv ==
  /\ RateTyped /\ RateTimes /\ OneWindowPerKey /\ PlaceIsRecency /\ ForgottenInTurn
  /\ WindowsCount /\ RateHonoured

-----------------------------------------------------------------------------
\* Admissions and windows.

LEMMA PlacesAreFinite ==
  ASSUME NEW times \in Seq(Nat), NEW S \in SUBSET (1..Len(times))
  PROVE  IsFiniteSet(S) /\ Cardinality(S) \in Nat
<1>1. IsFiniteSet(1..Len(times))
  BY FS_Interval
<1> QED BY <1>1, FS_Subset, FS_CardinalityType

LEMMA AppendedTime ==
  ASSUME NEW times \in Seq(Nat), NEW t \in Nat
  PROVE  /\ Append(times, t) \in Seq(Nat) /\ Len(Append(times, t)) = Len(times) + 1
         /\ \A n \in 1..Len(times) : Append(times, t)[n] = times[n]
         /\ Append(times, t)[Len(times) + 1] = t
  OBVIOUS

LEMMA EarlierOrLast ==
  ASSUME NEW m \in Nat, NEW n \in 1..(m + 1)
  PROVE  n \in 1..m \/ n = m + 1
  OBVIOUS

\* A request within the limit of its window.
LEMMA CountedOnceMore ==
  ASSUME NEW times \in Seq(Nat), NEW w \in Window, NEW limit \in Nat, NEW now \in Nat,
         Counts(w, times, limit), w.count < limit, w.start <= now, now - w.start < RateWindow
  PROVE  Counts([w EXCEPT !.count = w.count + 1], Append(times, now), limit)
<1> DEFINE more == Append(times, now)
           v == [w EXCEPT !.count = w.count + 1]
<1>0. RateWindow \in Nat \ {0}
  BY RateAssumption DEF RateAssumption
<1>1. /\ v.start = w.start /\ v.count = w.count + 1 /\ w.start \in Nat /\ w.count \in Nat
  BY DEF Window
<1>2. /\ more \in Seq(Nat) /\ Len(more) = Len(times) + 1 /\ Len(times) \in Nat
      /\ \A n \in 1..Len(times) : more[n] = times[n] /\ times[n] \in Nat
      /\ more[Len(times) + 1] = now
  BY AppendedTime
<1> HIDE DEF more, v
<1>3. Since(more, w.start) \subseteq Since(times, w.start) \cup {Len(times) + 1}
  BY <1>2 DEF Since
<1>4. Cardinality(Since(more, w.start)) <= Cardinality(Since(times, w.start)) + 1
  <2>1. /\ IsFiniteSet(Since(times, w.start)) /\ Cardinality(Since(times, w.start)) \in Nat
    BY PlacesAreFinite DEF Since
  <2>2. /\ IsFiniteSet(Since(times, w.start) \cup {Len(times) + 1})
        /\ Cardinality(Since(times, w.start) \cup {Len(times) + 1})
             <= Cardinality(Since(times, w.start)) + 1
    <3> DEFINE seen == Since(times, w.start)
    <3>1. IsFiniteSet(seen) /\ Cardinality(seen) \in Nat
      BY <2>1
    <3> HIDE DEF seen
    <3>2. /\ IsFiniteSet(seen \cup {Len(times) + 1})
          /\ Cardinality(seen \cup {Len(times) + 1})
               = IF Len(times) + 1 \in seen THEN Cardinality(seen) ELSE Cardinality(seen) + 1
      BY ONLY <3>1, FS_AddElement
    <3>3. Cardinality(seen \cup {Len(times) + 1}) <= Cardinality(seen) + 1
      BY ONLY <3>1, <3>2
    <3> QED BY <3>2, <3>3 DEF seen
  <2>3. Cardinality(Since(more, w.start)) <= Cardinality(Since(times, w.start) \cup {Len(times) + 1})
    BY <1>3, <2>2, FS_Subset
  <2>4. /\ Cardinality(Since(more, w.start)) \in Nat
        /\ Cardinality(Since(times, w.start) \cup {Len(times) + 1}) \in Nat
    BY <1>2, <2>2, PlacesAreFinite, FS_CardinalityType DEF Since
  <2> QED BY <2>1, <2>2, <2>3, <2>4
<1>5. Preceding(more, w.start) = Preceding(times, w.start)
  <2>1. ~(now < w.start)
    BY <1>1
  <2> QED BY <1>2, <2>1 DEF Preceding
<1>6. Cardinality(Since(times, w.start)) \in Nat /\ Cardinality(Since(more, w.start)) \in Nat
  BY <1>2, PlacesAreFinite DEF Since
<1>7. Cardinality(Since(more, v.start)) <= v.count /\ v.count <= limit
  BY <1>1, <1>4, <1>6 DEF Counts
<1>8. \A n \in 1..Len(more) : more[n] < v.start + RateWindow
  <2>1. now < v.start + RateWindow
    BY <1>0, <1>1
  <2>2. \A n \in 1..Len(times) : more[n] < v.start + RateWindow
    BY <1>1, <1>2 DEF Counts
  <2> QED BY <1>2, <2>1, <2>2, EarlierOrLast
<1>9. Counts(v, more, limit)
  BY <1>1, <1>5, <1>7, <1>8 DEF Counts
<1> QED BY <1>9 DEF v, more

\* The first request after a window's end.
LEMMA FreshWindow ==
  ASSUME NEW times \in Seq(Nat), NEW w \in Window, NEW limit \in Nat, NEW now \in Nat,
         NEW v \in Window, v.start = now, v.count = 1,
         Counts(w, times, limit), 0 < limit, ~(now - w.start < RateWindow),
         \A n \in 1..Len(times) : times[n] <= now
  PROVE  Counts(v, Append(times, now), limit)
<1> DEFINE more == Append(times, now)
<1>0. RateWindow \in Nat \ {0} /\ w.start \in Nat /\ w.count \in Nat
  BY RateAssumption DEF RateAssumption, Window
<1>2. /\ more \in Seq(Nat) /\ Len(more) = Len(times) + 1 /\ Len(times) \in Nat
      /\ \A n \in 1..Len(times) : more[n] = times[n] /\ times[n] \in Nat
      /\ more[Len(times) + 1] = now
  BY AppendedTime
<1>3. \A n \in 1..Len(times) : times[n] < now
  BY <1>0, <1>2 DEF Counts
<1> HIDE DEF more
<1>a. \A n \in 1..Len(more) : n \in 1..Len(times) \/ n = Len(times) + 1
  BY <1>2, EarlierOrLast
<1>b. ASSUME NEW n \in 1..Len(times)
      PROVE  more[n] = times[n] /\ times[n] \in Nat /\ more[n] < now
  <2>1. more[n] = times[n] /\ times[n] \in Nat
    BY <1>2
  <2>2. times[n] < now
    BY <1>3
  <2> QED BY <2>1, <2>2
<1>4. Since(more, now) = {Len(times) + 1}
  <2>1. \A n \in 1..Len(times) : ~(more[n] >= now)
    BY <1>b
  <2>2. Len(times) + 1 \in 1..Len(more) /\ more[Len(times) + 1] >= now
    BY <1>2
  <2> QED BY <1>a, <2>1, <2>2 DEF Since
<1>5. Cardinality(Since(more, now)) = 1
  BY <1>4, FS_Singleton
<1>6. Preceding(more, now) \subseteq Since(times, w.start)
  <2>1. SUFFICES ASSUME NEW n \in 1..Len(more), more[n] > now - RateWindow, more[n] < now
                 PROVE  n \in 1..Len(times) /\ times[n] >= w.start
    BY DEF Preceding, Since
  <2>2. n \in 1..Len(times)
    BY <1>2, <1>a, <2>1
  <2>3. now - RateWindow >= w.start
    BY <1>0
  <2>4. more[n] = times[n] /\ times[n] \in Nat
    BY <1>b, <2>2
  <2> QED BY <1>0, <2>1, <2>2, <2>3, <2>4
<1>7. Cardinality(Preceding(more, now)) <= limit
  <2>1. /\ IsFiniteSet(Since(times, w.start)) /\ Cardinality(Since(times, w.start)) \in Nat
    BY PlacesAreFinite DEF Since
  <2>2. /\ Cardinality(Preceding(more, now)) <= Cardinality(Since(times, w.start))
        /\ Cardinality(Preceding(more, now)) \in Nat
    BY <1>6, <2>1, FS_Subset, FS_CardinalityType
  <2> QED BY <1>0, <2>1, <2>2 DEF Counts
<1>8. \A n \in 1..Len(more) : more[n] < now + RateWindow
  <2>1. \A n \in 1..Len(times) : more[n] < now + RateWindow
    BY <1>0, <1>b
  <2>2. now < now + RateWindow
    BY <1>0
  <2> QED BY <1>2, <1>a, <2>1, <2>2
<1>9. Counts(v, more, limit)
  BY <1>5, <1>7, <1>8 DEF Counts
<1> QED BY <1>9 DEF more

\* The first request of a key that the map does not know.
LEMMA FirstWindow ==
  ASSUME NEW limit \in Nat, 0 < limit, NEW now \in Nat,
         NEW v \in Window, v.start = now, v.count = 1
  PROVE  Counts(v, <<now>>, limit)
<1>0. RateWindow \in Nat \ {0}
  BY RateAssumption DEF RateAssumption
<1>1. Since(<<now>>, now) = {1} /\ Preceding(<<now>>, now) = {}
  BY DEF Since, Preceding
<1>2. Cardinality(Since(<<now>>, now)) = 1 /\ Cardinality(Preceding(<<now>>, now)) = 0
  BY <1>1, FS_Singleton, FS_EmptySet
<1> QED BY <1>0, <1>2 DEF Counts

\* A span of one window touches a window and the one before it.
LEMMA TwoWindows ==
  ASSUME NEW times \in Seq(Nat), NEW w \in Window, NEW limit \in Nat, NEW now \in Nat,
         Counts(w, times, limit), w.start <= now
  PROVE  Cardinality({n \in DOMAIN times : now - times[n] < RateWindow}) <= 2 * limit
<1> DEFINE span == {n \in DOMAIN times : now - times[n] < RateWindow}
           since == Since(times, w.start)
           before == Preceding(times, w.start)
<1>0. RateWindow \in Nat \ {0} /\ w.start \in Nat /\ w.count \in Nat
  BY RateAssumption DEF RateAssumption, Window
<1>1. span \subseteq since \cup before
  <2>1. SUFFICES ASSUME NEW n \in 1..Len(times), now - times[n] < RateWindow
                 PROVE  times[n] >= w.start \/ (times[n] > w.start - RateWindow /\ times[n] < w.start)
    BY DEF Since, Preceding
  <2>2. times[n] \in Nat
    BY <2>1
  <2> QED BY <1>0, <2>1, <2>2
<1>2. /\ IsFiniteSet(since) /\ Cardinality(since) \in Nat
      /\ IsFiniteSet(before) /\ Cardinality(before) \in Nat
  BY PlacesAreFinite DEF Since, Preceding
<1>3. Cardinality(since) <= limit /\ Cardinality(before) <= limit
  BY <1>0, <1>2 DEF Counts
<1> HIDE DEF span, since, before
<1>4. /\ IsFiniteSet(since \cup before)
      /\ Cardinality(since \cup before) = Cardinality(since) + Cardinality(before)
                                           - Cardinality(since \cap before)
      /\ Cardinality(since \cap before) \in Nat
  BY <1>2, FS_Union, FS_Intersection, FS_CardinalityType
<1>5. Cardinality(span) <= Cardinality(since \cup before) /\ Cardinality(span) \in Nat
  BY <1>1, <1>4, FS_Subset, FS_CardinalityType
<1>6. Cardinality(span) <= 2 * limit
  BY <1>2, <1>3, <1>4, <1>5
<1> QED BY <1>6 DEF span

-----------------------------------------------------------------------------
\* The map of the limiter.

\* A window in front of the others, of which the p-th is left out.
Moved(s, w, p, t) ==
  /\ t \in Seq(Window)
  /\ Len(t) = IF p > Len(s) THEN Len(s) + 1 ELSE Len(s)
  /\ t[1] = w
  /\ \A i \in 1..Len(s) : (i < p => t[i + 1] = s[i]) /\ (i > p => t[i] = s[i])

LEMMA LaterPart ==
  ASSUME NEW s \in Seq(Window), NEW t \in Seq(Window), NEW i \in 1..Len(t)
  PROVE  (s \o t)[Len(s) + i] = t[i]
  OBVIOUS

LEMMA Joins ==
  ASSUME NEW s \in Seq(Window), NEW t \in Seq(Window)
  PROVE  s \o t \in Seq(Window) /\ Len(s \o t) = Len(s) + Len(t)
  OBVIOUS

LEMMA FirstPart ==
  ASSUME NEW s \in Seq(Window), NEW m \in 0..Len(s)
  PROVE  /\ SubSeq(s, 1, m) \in Seq(Window) /\ Len(SubSeq(s, 1, m)) = m
         /\ \A i \in 1..m : SubSeq(s, 1, m)[i] = s[i]
  OBVIOUS

LEMMA MovedToFront ==
  ASSUME NEW s \in Seq(Window), NEW w \in Window, NEW p \in 1..Len(s)
  PROVE  Moved(s, w, p, <<w>> \o RemoveAt(s, p))
<1> DEFINE first == SubSeq(s, 1, p - 1)
           last == SubSeq(s, p + 1, Len(s))
           t == <<w>> \o (first \o last)
<1>1. /\ first \in Seq(Window) /\ Len(first) = p - 1
      /\ \A i \in 1..(p - 1) : first[i] = s[i]
  OBVIOUS
<1>2. /\ last \in Seq(Window) /\ Len(last) = Len(s) - p
      /\ \A i \in 1..(Len(s) - p) : last[i] = s[p + i]
  OBVIOUS
<1> HIDE DEF first, last
<1>3. /\ first \o last \in Seq(Window) /\ Len(first \o last) = Len(s) - 1
      /\ \A i \in 1..(p - 1) : (first \o last)[i] = s[i]
      /\ \A i \in (p + 1)..Len(s) : (first \o last)[i - 1] = s[i]
  <2>1. /\ first \o last \in Seq(Window) /\ Len(first \o last) = Len(s) - 1
        /\ \A i \in 1..(p - 1) : (first \o last)[i] = first[i]
        /\ \A i \in 1..(Len(s) - p) : (first \o last)[p - 1 + i] = last[i]
    <3>1. /\ first \o last \in Seq(Window) /\ Len(first \o last) = Len(first) + Len(last)
      BY <1>1, <1>2, Joins
    <3>2. \A i \in 1..Len(first) : (first \o last)[i] = first[i]
      BY <1>1, <1>2
    <3>3. \A i \in 1..Len(last) : (first \o last)[Len(first) + i] = last[i]
      BY <1>1, <1>2, LaterPart
    <3>4. Len(s) \in Nat /\ p \in Nat
      OBVIOUS
    <3> QED BY <1>1, <1>2, <3>1, <3>2, <3>3, <3>4
  <2>2. ASSUME NEW i \in (p + 1)..Len(s) PROVE (first \o last)[i - 1] = s[i]
    <3>1. i - p \in 1..(Len(s) - p) /\ p - 1 + (i - p) = i - 1 /\ p + (i - p) = i
      OBVIOUS
    <3> QED BY <1>2, <2>1, <3>1
  <2> QED BY <1>1, <2>1, <2>2
<1> DEFINE r == first \o last
<1>4. /\ r \in Seq(Window) /\ Len(r) = Len(s) - 1
      /\ \A i \in 1..(p - 1) : r[i] = s[i]
      /\ \A i \in (p + 1)..Len(s) : r[i - 1] = s[i]
  BY <1>3
<1> HIDE DEF r
<1>5. /\ <<w>> \o r \in Seq(Window) /\ Len(<<w>> \o r) = Len(s)
      /\ (<<w>> \o r)[1] = w
      /\ \A i \in 1..Len(r) : (<<w>> \o r)[i + 1] = r[i]
  BY <1>4
<1>6. ASSUME NEW i \in 1..Len(s), i < p PROVE (<<w>> \o r)[i + 1] = s[i]
  BY <1>4, <1>5, <1>6
<1>7. ASSUME NEW i \in 1..Len(s), i > p PROVE (<<w>> \o r)[i] = s[i]
  <2>1. i - 1 \in 1..Len(r) /\ i \in (p + 1)..Len(s) /\ (i - 1) + 1 = i
    BY <1>4, <1>7
  <2> QED BY <1>4, <1>5, <2>1
<1>8. Moved(s, w, p, <<w>> \o r)
  BY <1>5, <1>6, <1>7 DEF Moved
<1> QED BY <1>8 DEF r, first, last, RemoveAt

LEMMA PutInFront ==
  ASSUME NEW s \in Seq(Window), NEW w \in Window
  PROVE  Moved(s, w, Len(s) + 1, <<w>> \o s)
  BY DEF Moved

LEMMA PutForLast ==
  ASSUME NEW s \in Seq(Window), s # <<>>, NEW w \in Window
  PROVE  Moved(s, w, Len(s), <<w>> \o Front(s))
<1> DEFINE r == SubSeq(s, 1, Len(s) - 1)
<1>1. /\ r \in Seq(Window) /\ Len(r) = Len(s) - 1 /\ Len(s) \in Nat \ {0}
      /\ \A i \in 1..(Len(s) - 1) : r[i] = s[i]
  <2>1. Len(s) \in Nat /\ Len(s) # 0
    OBVIOUS
  <2>2. Len(s) - 1 \in 0..Len(s)
    BY <2>1
  <2> QED BY <2>1, <2>2, FirstPart
<1> HIDE DEF r
<1>2. /\ <<w>> \o r \in Seq(Window) /\ Len(<<w>> \o r) = Len(s)
      /\ (<<w>> \o r)[1] = w
      /\ \A i \in 1..Len(r) : (<<w>> \o r)[i + 1] = r[i]
  BY <1>1
<1>3. ASSUME NEW i \in 1..Len(s), i < Len(s) PROVE (<<w>> \o r)[i + 1] = s[i]
  BY <1>1, <1>2, <1>3
<1>4. Moved(s, w, Len(s), <<w>> \o r)
  BY <1>1, <1>2, <1>3 DEF Moved
<1> QED BY <1>4 DEF r, Front

\* The place whose window makes room for that of key k.
RoomAt(k) ==
  IF Tracked(k) THEN Place(k)
  ELSE IF Len(rateWindows) = TrackedKeys THEN Len(rateWindows) ELSE Len(rateWindows) + 1

\* Where the window of k goes, and what is remembered of k.
LEMMA CheckedMap ==
  ASSUME RateInv, NEW k \in IngestKey, Charged(k) \in Window, CheckWindow(k)
  PROVE  /\ RoomAt(k) \in 1..(Len(rateWindows) + 1)
         /\ Moved(rateWindows, Charged(k), RoomAt(k), rateWindows')
         /\ Len(rateWindows') <= TrackedKeys
         /\ Tracked(k) => rateWindows[Place(k)].key = k /\ Place(k) \in 1..Len(rateWindows)
<1>1. rateWindows \in Seq(Window) /\ Len(rateWindows) \in Nat /\ Len(rateWindows) <= TrackedKeys
  BY DEF RateInv, RateTyped
<1>2. TrackedKeys \in Nat \ {0}
  BY RateAssumption DEF RateAssumption
<1>3. CASE Tracked(k)
  <2>1. Place(k) \in Places(k)
    BY <1>3 DEF Tracked, Place
  <2>2. Place(k) \in 1..Len(rateWindows) /\ rateWindows[Place(k)].key = k
    BY <1>1, <2>1 DEF Places
  <2>3. rateWindows' = <<Charged(k)>> \o RemoveAt(rateWindows, Place(k))
    BY <1>3 DEF CheckWindow, OtherWindows
  <2>4. RoomAt(k) = Place(k)
    BY <1>3 DEF RoomAt
  <2>5. Moved(rateWindows, Charged(k), RoomAt(k), rateWindows')
    BY <1>1, <2>2, <2>3, <2>4, MovedToFront
  <2>6. Len(rateWindows') = Len(rateWindows)
    BY <1>1, <2>2, <2>4, <2>5 DEF Moved
  <2> QED BY <1>1, <2>2, <2>4, <2>5, <2>6
<1>4. CASE ~Tracked(k) /\ Len(rateWindows) = TrackedKeys
  <2>1. rateWindows' = <<Charged(k)>> \o Front(rateWindows)
    BY <1>4 DEF CheckWindow, OtherWindows
  <2>2. RoomAt(k) = Len(rateWindows)
    BY <1>4 DEF RoomAt
  <2>3. rateWindows # <<>>
    BY <1>2, <1>4
  <2>4. Moved(rateWindows, Charged(k), RoomAt(k), rateWindows')
    BY <1>1, <2>1, <2>2, <2>3, PutForLast
  <2>5. Len(rateWindows') = Len(rateWindows)
    BY <1>1, <2>2, <2>4 DEF Moved
  <2> QED BY <1>1, <1>2, <1>4, <2>2, <2>4, <2>5
<1>5. CASE ~Tracked(k) /\ Len(rateWindows) # TrackedKeys
  <2>1. rateWindows' = <<Charged(k)>> \o rateWindows
    BY <1>5 DEF CheckWindow, OtherWindows
  <2>2. RoomAt(k) = Len(rateWindows) + 1
    BY <1>5 DEF RoomAt
  <2>3. Moved(rateWindows, Charged(k), RoomAt(k), rateWindows')
    BY <1>1, <2>1, <2>2, PutInFront
  <2>4. Len(rateWindows') = Len(rateWindows) + 1
    BY <1>1, <2>2, <2>3 DEF Moved
  <2> QED BY <1>1, <1>2, <1>5, <2>2, <2>3, <2>4
<1> QED BY <1>3, <1>4, <1>5

\* The admissions of a key that are known after its check.
TimesAfter(k) == IF WithinLimit(k) THEN Append(Remembered(k), ingestTime) ELSE Remembered(k)

\* A tracked key is remembered, and its window has counted.
LEMMA TrackedKeyIs ==
  ASSUME RateInv, NEW k \in IngestKey, Tracked(k)
  PROVE  /\ Place(k) \in 1..Len(rateWindows)
         /\ rateWindows[Place(k)] \in Window /\ rateWindows[Place(k)].key = k
         /\ rateWindows[Place(k)].start <= ingestTime
         /\ Counts(rateWindows[Place(k)], admittedAt[k], KeyLimit[k])
         /\ Remembered(k) = admittedAt[k]
<1>1. rateWindows \in Seq(Window) /\ Len(rateWindows) <= TrackedKeys /\ Len(rateWindows) \in Nat
  BY DEF RateInv, RateTyped
<1>2. Place(k) \in Places(k)
  BY DEF Tracked, Place
<1>3. Place(k) \in 1..Len(rateWindows) /\ rateWindows[Place(k)].key = k
  BY <1>1, <1>2 DEF Places
<1>4. rateWindows[Place(k)] \in Window
  BY <1>1, <1>3
<1>5. rateWindows[Place(k)].start <= ingestTime
  BY <1>3 DEF RateInv, RateTimes
<1>6. Counts(rateWindows[Place(k)], admittedAt[k], KeyLimit[k])
  BY <1>3 DEF RateInv, WindowsCount
<1>7. Cardinality(othersSince[k]) = Place(k) - 1
  BY <1>3 DEF RateInv, PlaceIsRecency
<1>8. ~(Cardinality(othersSince[k]) >= TrackedKeys)
  BY <1>1, <1>3, <1>7, RateAssumption DEF RateAssumption
<1> QED BY <1>3, <1>4, <1>5, <1>6, <1>8 DEF Remembered

LEMMA UntrackedKeyIs ==
  ASSUME RateInv, NEW k \in IngestKey, ~Tracked(k)
  PROVE  Remembered(k) = <<>>
  BY DEF RateInv, ForgottenInTurn, Remembered

LEMMA ChargedCounts ==
  ASSUME RateInv, NEW k \in IngestKey, KeyLimit[k] # 0
  PROVE  /\ Charged(k) \in Window /\ Charged(k).key = k /\ Charged(k).start <= ingestTime
         /\ TimesAfter(k) \in Seq(Nat)
         /\ \A n \in 1..Len(TimesAfter(k)) : TimesAfter(k)[n] <= ingestTime
         /\ Counts(Charged(k), TimesAfter(k), KeyLimit[k])
<1> DEFINE now == ingestTime
           limit == KeyLimit[k]
           fresh == [key |-> k, count |-> 0, start |-> now]
           first == [key |-> k, count |-> 1, start |-> now]
<1>1. now \in Nat /\ limit \in Nat /\ limit > 0 /\ admittedAt[k] \in Seq(Nat)
  BY RateAssumption DEF RateAssumption, RateInv, RateTyped
<1>2. /\ fresh \in Window /\ first \in Window /\ first.start = now /\ first.count = 1
      /\ first.key = k /\ fresh.count = 0 /\ [fresh EXCEPT !.count = fresh.count + 1] = first
  BY <1>1 DEF Window
<1>3. \A n \in 1..Len(admittedAt[k]) : admittedAt[k][n] <= now
  BY DEF RateInv, RateTimes
<1>a. ASSUME NEW times \in Seq(Nat), \A n \in 1..Len(times) : times[n] <= now
      PROVE  /\ Append(times, now) \in Seq(Nat)
             /\ \A n \in 1..Len(Append(times, now)) : Append(times, now)[n] <= now
  <2>1. /\ Append(times, now) \in Seq(Nat) /\ Len(Append(times, now)) = Len(times) + 1
        /\ \A n \in 1..Len(times) : Append(times, now)[n] = times[n]
        /\ Append(times, now)[Len(times) + 1] = now
    BY <1>1, AppendedTime
  <2>2. Len(times) \in Nat
    OBVIOUS
  <2>3. ASSUME NEW n \in 1..Len(Append(times, now)) PROVE Append(times, now)[n] <= now
    <3>1. n \in 1..Len(times) \/ n = Len(times) + 1
      BY <2>1, <2>2, EarlierOrLast
    <3> QED BY <1>1, <1>a, <2>1, <3>1
  <2> QED BY <2>1, <2>3
<1>4. ASSUME WindowNow(k) = fresh
      PROVE  /\ Charged(k) = first /\ TimesAfter(k) = Append(Remembered(k), now)
  BY <1>1, <1>2, <1>4 DEF Charged, WithinLimit, TimesAfter
<1> HIDE DEF now, limit, fresh, first
<1>5. CASE ~Tracked(k)
  <2>1. Remembered(k) = <<>> /\ WindowNow(k) = fresh
    BY <1>5, UntrackedKeyIs DEF WindowNow, fresh, now
  <2>2. Charged(k) = first /\ TimesAfter(k) = <<now>>
    BY <1>4, <2>1
  <2>3. Counts(first, <<now>>, limit)
    BY <1>1, <1>2, FirstWindow
  <2>4. <<now>> \in Seq(Nat) /\ \A n \in 1..Len(<<now>>) : <<now>>[n] <= now
    BY <1>1
  <2> QED BY <1>1, <1>2, <2>2, <2>3, <2>4 DEF now, limit
<1>6. CASE Tracked(k)
  <2> DEFINE w == rateWindows[Place(k)]
  <2>1. /\ w \in Window /\ w.key = k /\ w.start <= now /\ Remembered(k) = admittedAt[k]
        /\ Counts(w, admittedAt[k], limit)
    BY <1>6, TrackedKeyIs DEF now, limit
  <2>2. w.start \in Nat /\ w.count \in Nat
    BY <2>1 DEF Window
  <2>3. WindowNow(k) = IF now - w.start < RateWindow THEN w ELSE fresh
    BY <1>6 DEF WindowNow, fresh, now
  <2> HIDE DEF w
  <2>4. CASE ~(now - w.start < RateWindow)
    <3>1. Charged(k) = first /\ TimesAfter(k) = Append(admittedAt[k], now)
      BY <1>4, <2>1, <2>3, <2>4
    <3>2. Counts(first, Append(admittedAt[k], now), limit)
      BY <1>1, <1>2, <1>3, <2>1, <2>4, FreshWindow
    <3> QED BY <1>1, <1>2, <1>3, <1>a, <3>1, <3>2 DEF now, limit
  <2>5. CASE now - w.start < RateWindow /\ w.count < limit
    <3>1. /\ Charged(k) = [w EXCEPT !.count = w.count + 1]
          /\ TimesAfter(k) = Append(admittedAt[k], now)
      BY <2>1, <2>3, <2>5 DEF Charged, WithinLimit, TimesAfter, now, limit
    <3>2. Counts([w EXCEPT !.count = w.count + 1], Append(admittedAt[k], now), limit)
      BY <1>1, <2>1, <2>5, CountedOnceMore
    <3>3. Counts(Charged(k), TimesAfter(k), limit)
      BY <3>1, <3>2
    <3>4. Charged(k) \in Window /\ Charged(k).key = k /\ Charged(k).start = w.start
      BY <2>1, <2>2, <3>1 DEF Window
    <3> QED BY <1>1, <1>3, <1>a, <2>1, <3>1, <3>3, <3>4 DEF now, limit
  <2>6. CASE now - w.start < RateWindow /\ ~(w.count < limit)
    <3>1. Charged(k) = [w EXCEPT !.count = w.count] /\ TimesAfter(k) = admittedAt[k]
      BY <2>1, <2>3, <2>6 DEF Charged, WithinLimit, TimesAfter, now, limit
    <3>2. Charged(k) = w
      BY <2>1, <3>1 DEF Window
    <3> QED BY <1>1, <1>3, <2>1, <3>1, <3>2 DEF now, limit
  <2> QED BY <2>4, <2>5, <2>6
<1> QED BY <1>5, <1>6

\* A place of the new map is the front, or holds the window of another key.
LEMMA PlaceAfterCheck ==
  ASSUME NEW s \in Seq(Window), NEW w \in Window, NEW p \in 1..(Len(s) + 1), NEW t,
         Moved(s, w, p, t), NEW m \in 1..Len(t)
  PROVE  \/ m = 1 /\ t[m] = w
         \/ \E i \in 1..Len(s) : /\ t[m] = s[i] /\ i # p
                                 /\ \/ i < p /\ m = i + 1
                                    \/ i > p /\ m = i
<1>1. /\ Len(s) \in Nat /\ t[1] = w
      /\ Len(t) = IF p > Len(s) THEN Len(s) + 1 ELSE Len(s)
      /\ \A i \in 1..Len(s) : (i < p => t[i + 1] = s[i]) /\ (i > p => t[i] = s[i])
  BY DEF Moved
<1>2. CASE m = 1
  BY <1>1, <1>2
<1>3. CASE m # 1 /\ m <= p
  <2>1. m - 1 \in 1..Len(s) /\ m - 1 < p /\ (m - 1) + 1 = m
    BY <1>1, <1>3
  <2>2. t[m] = s[m - 1]
    BY <1>1, <2>1
  <2>3. m - 1 # p
    BY <2>1
  <2> QED BY <2>1, <2>2, <2>3
<1>4. CASE m > p
  <2>1. m \in 1..Len(s)
    BY <1>1, <1>4
  <2>2. t[m] = s[m] /\ m # p
    BY <1>1, <1>4, <2>1
  <2> QED BY <1>4, <2>1, <2>2
<1> QED BY <1>2, <1>3, <1>4

\* The keys before a place of the new map.
KeysOf(s, i) == {s[j].key : j \in 1..i}

LEMMA KeysBeforeAfterCheck ==
  ASSUME NEW s \in Seq(Window), NEW w \in Window, NEW p \in 1..(Len(s) + 1),
         NEW t, Moved(s, w, p, t), p \in 1..Len(s) => s[p].key = w.key \/ p = Len(s)
  PROVE  /\ KeysOf(t, 0) = {}
         /\ \A i \in 1..Len(s) : i < p => KeysOf(t, i) = {w.key} \cup KeysOf(s, i - 1)
         /\ \A i \in 1..Len(s) : i > p => KeysOf(t, i - 1) = {w.key} \cup KeysOf(s, i - 1)
<1>1. /\ Len(s) \in Nat /\ t[1] = w
      /\ \A i \in 1..Len(s) : (i < p => t[i + 1] = s[i]) /\ (i > p => t[i] = s[i])
  BY DEF Moved
<1>2. ASSUME NEW i \in 1..Len(s), i < p
      PROVE  {t[j].key : j \in 1..i} = {w.key} \cup {s[j].key : j \in 1..(i - 1)}
  <2>1. ASSUME NEW j \in 1..i PROVE t[j].key \in {w.key} \cup {s[n].key : n \in 1..(i - 1)}
    <3>1. CASE j = 1
      BY <1>1, <3>1
    <3>2. CASE j # 1
      <4>1. j - 1 \in 1..Len(s) /\ j - 1 < p /\ j - 1 \in 1..(i - 1) /\ (j - 1) + 1 = j
        BY <1>1, <1>2, <3>2
      <4>2. t[j] = s[j - 1]
        BY <1>1, <4>1
      <4> QED BY <4>1, <4>2
    <3> QED BY <3>1, <3>2
  <2>2. ASSUME NEW n \in 1..(i - 1) PROVE s[n].key \in {t[j].key : j \in 1..i}
    <3>1. n \in 1..Len(s) /\ n < p /\ n + 1 \in 1..i
      BY <1>1, <1>2
    <3>2. t[n + 1] = s[n]
      BY <1>1, <3>1
    <3> QED BY <3>1, <3>2
  <2>3. w.key \in {t[j].key : j \in 1..i}
    <3>1. 1 \in 1..i
      BY <1>2
    <3> QED BY <1>1, <3>1
  <2> QED BY <2>1, <2>2, <2>3
<1>3. ASSUME NEW i \in 1..Len(s), i > p
      PROVE  {t[j].key : j \in 1..(i - 1)} = {w.key} \cup {s[j].key : j \in 1..(i - 1)}
  <2>0. p \in 1..Len(s) /\ s[p].key = w.key
    BY <1>1, <1>3
  <2>1. ASSUME NEW j \in 1..(i - 1) PROVE t[j].key \in {w.key} \cup {s[n].key : n \in 1..(i - 1)}
    <3>1. CASE j = 1
      BY <1>1, <3>1
    <3>2. CASE j # 1 /\ j <= p
      <4>1. j - 1 \in 1..Len(s) /\ j - 1 < p /\ j - 1 \in 1..(i - 1) /\ (j - 1) + 1 = j
        BY <1>1, <1>3, <3>2
      <4>2. t[j] = s[j - 1]
        BY <1>1, <4>1
      <4> QED BY <4>1, <4>2
    <3>3. CASE j > p
      <4>1. j \in 1..Len(s)
        BY <1>1, <1>3
      <4>2. t[j] = s[j]
        BY <1>1, <3>3, <4>1
      <4> QED BY <4>2
    <3> QED BY <3>1, <3>2, <3>3
  <2>2. ASSUME NEW n \in 1..(i - 1) PROVE s[n].key \in {t[j].key : j \in 1..(i - 1)}
    <3>0. n \in 1..Len(s)
      BY <1>1
    <3>1. CASE n < p
      <4>1. t[n + 1] = s[n] /\ n + 1 \in 1..(i - 1)
        BY <1>1, <1>3, <3>0, <3>1
      <4> QED BY <4>1
    <3>2. CASE n = p
      <4>1. 1 \in 1..(i - 1)
        BY <1>3, <2>0
      <4> QED BY <1>1, <2>0, <3>2, <4>1
    <3>3. CASE n > p
      <4>1. t[n] = s[n]
        BY <1>1, <3>0, <3>3
      <4> QED BY <4>1
    <3> QED BY <3>1, <3>2, <3>3
  <2>3. w.key \in {t[j].key : j \in 1..(i - 1)}
    <3>1. 1 \in 1..(i - 1)
      BY <1>3, <2>0
    <3> QED BY <1>1, <3>1
  <2> QED BY <2>1, <2>2, <2>3
<1>4. {t[j].key : j \in 1..0} = {}
  <2>1. 1..0 = {}
    OBVIOUS
  <2> QED BY <2>1
<1> QED BY <1>2, <1>3, <1>4 DEF KeysOf

\* What a check leaves, in terms of the places it moved.
Checked(k) ==
  /\ RoomAt(k) \in 1..(Len(rateWindows) + 1)
  /\ Moved(rateWindows, Charged(k), RoomAt(k), rateWindows')
  /\ Len(rateWindows') <= TrackedKeys
  /\ Charged(k) \in Window /\ Charged(k).key = k /\ Charged(k).start <= ingestTime
  /\ TimesAfter(k) \in Seq(Nat)
  /\ \A n \in 1..Len(TimesAfter(k)) : TimesAfter(k)[n] <= ingestTime
  /\ Counts(Charged(k), TimesAfter(k), KeyLimit[k])
  /\ admittedAt' = [admittedAt EXCEPT ![k] = TimesAfter(k)]
  /\ othersSince' = [j \in IngestKey |-> IF j = k THEN {} ELSE othersSince[j] \cup {k}]
  /\ ingestTime' = ingestTime
  /\ \A i \in 1..Len(rateWindows) : i # RoomAt(k) => rateWindows[i].key # k
  /\ RoomAt(k) \in 1..Len(rateWindows) => rateWindows[RoomAt(k)].key = k \/ RoomAt(k) = Len(rateWindows)
  /\ RoomAt(k) \in 1..Len(rateWindows) /\ rateWindows[RoomAt(k)].key # k => Len(rateWindows) = TrackedKeys

LEMMA CheckLeaves ==
  ASSUME RateInv, NEW k \in IngestKey, KeyLimit[k] # 0, CheckRate(k), ingestTime' = ingestTime
  PROVE  Checked(k)
<1>0. CheckWindow(k) /\ RecordRate(k)
  BY DEF CheckRate
<1>1. /\ Charged(k) \in Window /\ Charged(k).key = k /\ Charged(k).start <= ingestTime
      /\ TimesAfter(k) \in Seq(Nat)
      /\ \A n \in 1..Len(TimesAfter(k)) : TimesAfter(k)[n] <= ingestTime
      /\ Counts(Charged(k), TimesAfter(k), KeyLimit[k])
  BY ChargedCounts
<1>2. /\ RoomAt(k) \in 1..(Len(rateWindows) + 1)
      /\ Moved(rateWindows, Charged(k), RoomAt(k), rateWindows')
      /\ Len(rateWindows') <= TrackedKeys
      /\ Tracked(k) => rateWindows[Place(k)].key = k /\ Place(k) \in 1..Len(rateWindows)
  BY <1>0, <1>1, CheckedMap
<1>3. /\ admittedAt' = [admittedAt EXCEPT ![k] = TimesAfter(k)]
      /\ othersSince' = [j \in IngestKey |-> IF j = k THEN {} ELSE othersSince[j] \cup {k}]
  BY <1>0 DEF RecordRate, TimesAfter
<1>4. rateWindows \in Seq(Window) /\ Len(rateWindows) \in Nat
  BY DEF RateInv, RateTyped
<1>5. CASE Tracked(k)
  <2>1. RoomAt(k) = Place(k)
    BY <1>5 DEF RoomAt
  <2>2. \A i \in 1..Len(rateWindows) : i # Place(k) => rateWindows[i].key # k
    BY <1>2, <1>5 DEF RateInv, OneWindowPerKey
  <2> QED BY <1>1, <1>2, <1>3, <1>5, <2>1, <2>2 DEF Checked
<1>6. CASE ~Tracked(k)
  <2>1. \A i \in 1..Len(rateWindows) : rateWindows[i].key # k
    BY <1>4, <1>6 DEF Tracked, Places
  <2>2. RoomAt(k) = IF Len(rateWindows) = TrackedKeys THEN Len(rateWindows) ELSE Len(rateWindows) + 1
    BY <1>6 DEF RoomAt
  <2>3. RoomAt(k) \in 1..Len(rateWindows) => RoomAt(k) = Len(rateWindows) /\ Len(rateWindows) = TrackedKeys
    BY <1>4, <2>2
  <2> QED BY <1>1, <1>2, <1>3, <2>1, <2>3 DEF Checked
<1> QED BY <1>5, <1>6

LEMMA MorePlaces ==
  ASSUME NEW S, IsFiniteSet(S), NEW x
  PROVE  /\ IsFiniteSet(S \cup {x}) /\ Cardinality(S) \in Nat
         /\ Cardinality(S \cup {x}) = IF x \in S THEN Cardinality(S) ELSE Cardinality(S) + 1
  BY FS_AddElement, FS_CardinalityType

\* The map after a check.
LEMMA CheckedTyped ==
  ASSUME RateInv, NEW k \in IngestKey, Checked(k)
  PROVE  RateTyped' /\ RateTimes' /\ OneWindowPerKey' /\ WindowsCount'
<1> DEFINE s == rateWindows
           t == rateWindows'
           p == RoomAt(k)
           w == Charged(k)
<1>1. /\ s \in Seq(Window) /\ Len(s) \in Nat /\ w \in Window /\ p \in 1..(Len(s) + 1)
      /\ Moved(s, w, p, t) /\ t \in Seq(Window)
      /\ \A i \in 1..Len(s) : i # p => s[i].key # k
      /\ w.key = k /\ w.start <= ingestTime
      /\ admittedAt \in [IngestKey -> Seq(Nat)] /\ TimesAfter(k) \in Seq(Nat)
      /\ admittedAt' = [admittedAt EXCEPT ![k] = TimesAfter(k)] /\ ingestTime' = ingestTime
  <2>1. /\ s \in Seq(Window) /\ Len(s) \in Nat
        /\ admittedAt \in [IngestKey -> Seq(Nat)]
    BY DEF RateInv, RateTyped
  <2>2. /\ w \in Window /\ p \in 1..(Len(s) + 1) /\ Moved(s, w, p, t)
        /\ \A i \in 1..Len(s) : i # p => s[i].key # k
        /\ w.key = k /\ w.start <= ingestTime /\ TimesAfter(k) \in Seq(Nat)
        /\ admittedAt' = [admittedAt EXCEPT ![k] = TimesAfter(k)] /\ ingestTime' = ingestTime
    BY DEF Checked
  <2>3. t \in Seq(Window)
    BY <2>2 DEF Moved
  <2> QED BY <2>1, <2>2, <2>3
<1>2. /\ admittedAt' \in [IngestKey -> Seq(Nat)] /\ admittedAt'[k] = TimesAfter(k)
      /\ \A j \in IngestKey \ {k} : admittedAt'[j] = admittedAt[j]
  BY <1>1
<1>3. RateTyped'
  <2>1. othersSince' \in [IngestKey -> SUBSET IngestKey]
    BY DEF Checked, RateInv, RateTyped
  <2>2. ASSUME NEW j \in IngestKey PROVE IsFiniteSet(othersSince'[j])
    <3>1. CASE j = k
      <4>1. othersSince'[j] = {}
        BY <3>1 DEF Checked
      <4> QED BY <4>1, FS_EmptySet
    <3>2. CASE j # k
      <4>1. othersSince'[j] = othersSince[j] \cup {k}
        BY <3>2 DEF Checked
      <4>2. IsFiniteSet(othersSince[j])
        BY DEF RateInv, RateTyped
      <4> QED BY <4>1, <4>2, MorePlaces
    <3> QED BY <3>1, <3>2
  <2> QED BY <1>1, <1>2, <2>1, <2>2 DEF RateInv, RateTyped, Checked
<1>a. ASSUME NEW m \in 1..Len(t)
      PROVE  \/ m = 1 /\ t[m] = w
             \/ \E i \in 1..Len(s) : /\ t[m] = s[i] /\ s[i].key \in IngestKey \ {k}
                                     /\ i # p /\ ((i < p /\ m = i + 1) \/ (i > p /\ m = i))
  <2>1. \A i \in 1..Len(s) : s[i].key \in IngestKey
    <3>1. \A i \in 1..Len(s) : s[i] \in Window
      BY <1>1
    <3> QED BY <3>1 DEF Window
  <2>2. \/ m = 1 /\ t[m] = w
        \/ \E i \in 1..Len(s) : t[m] = s[i] /\ i # p /\ ((i < p /\ m = i + 1) \/ (i > p /\ m = i))
    <3> HIDE DEF s, t, p, w
    <3>1. /\ s \in Seq(Window) /\ w \in Window /\ p \in 1..(Len(s) + 1) /\ Moved(s, w, p, t)
      BY <1>1
    <3>2. m \in 1..Len(t)
      OBVIOUS
    <3> QED BY ONLY <3>1, <3>2, PlaceAfterCheck
  <2> QED BY <1>1, <2>1, <2>2
<1> HIDE DEF s, t, p, w
<1>4. RateTimes'
  <2>1. ASSUME NEW m \in 1..Len(t) PROVE t[m].start <= ingestTime
    BY <1>1, <1>a, <2>1 DEF RateInv, RateTimes, s
  <2>2. ASSUME NEW j \in IngestKey, NEW n \in 1..Len(admittedAt'[j])
        PROVE  admittedAt'[j][n] <= ingestTime
    BY <1>2, <2>2 DEF RateInv, RateTimes, Checked
  <2> QED BY <1>1, <2>1, <2>2 DEF RateTimes, t
<1>5. OneWindowPerKey'
  <2>1. SUFFICES ASSUME NEW m \in 1..Len(t), NEW n \in 1..Len(t), t[m].key = t[n].key
                 PROVE  m = n
    BY DEF OneWindowPerKey, t
  <2>2. CASE m = 1 \/ n = 1
    <3>1. ASSUME NEW a \in 1..Len(t) PROVE (a = 1 => t[a].key = k) /\ (a # 1 => t[a].key # k)
      <4>1. a = 1 => t[a] = w
        BY <1>1 DEF Moved
      <4>2. a # 1 => \E i \in 1..Len(s) : t[a] = s[i] /\ s[i].key \in IngestKey \ {k}
        BY <1>a
      <4> QED BY <1>1, <4>1, <4>2
    <3> QED BY <2>1, <2>2, <3>1
  <2>3. CASE m # 1 /\ n # 1
    <3>1. PICK i \in 1..Len(s) : t[m] = s[i] /\ ((i < p /\ m = i + 1) \/ (i > p /\ m = i))
      BY <1>a, <2>3
    <3>2. PICK j \in 1..Len(s) : t[n] = s[j] /\ ((j < p /\ n = j + 1) \/ (j > p /\ n = j))
      BY <1>a, <2>3
    <3>3. i = j
      BY <2>1, <3>1, <3>2 DEF RateInv, OneWindowPerKey, s
    <3> QED BY <1>1, <3>1, <3>2, <3>3
  <2> QED BY <2>2, <2>3
<1>6. WindowsCount'
  <2>1. SUFFICES ASSUME NEW m \in 1..Len(t)
                 PROVE  Counts(t[m], admittedAt'[t[m].key], KeyLimit[t[m].key])
    BY DEF WindowsCount, Counts, Since, Preceding, t
  <2>2. CASE t[m] = w
    BY <1>1, <1>2, <2>2 DEF Checked, w
  <2>3. CASE \E i \in 1..Len(s) : t[m] = s[i] /\ s[i].key \in IngestKey \ {k}
    BY <1>2, <2>3 DEF RateInv, WindowsCount, s
  <2> QED BY <1>a, <2>2, <2>3
<1> QED BY <1>3, <1>4, <1>5, <1>6

LEMMA CheckedPlaces ==
  ASSUME RateInv, NEW k \in IngestKey, Checked(k)
  PROVE  PlaceIsRecency'
<1> DEFINE s == rateWindows
           t == rateWindows'
           p == RoomAt(k)
           w == Charged(k)
           others(j) == othersSince[j]
<1>1. /\ s \in Seq(Window) /\ Len(s) \in Nat
      /\ \A i \in 1..Len(s) : /\ othersSince[s[i].key] = {s[j].key : j \in 1..(i - 1)}
                              /\ Cardinality(othersSince[s[i].key]) = i - 1
                              /\ s[i] \in Window
  <2>1. /\ s \in Seq(Window) /\ Len(s) \in Nat
        /\ \A i \in 1..Len(s) : s[i] \in Window
    BY DEF RateInv, RateTyped
  <2>2. \A i \in 1..Len(s) : /\ othersSince[s[i].key] = {s[j].key : j \in 1..(i - 1)}
                              /\ Cardinality(othersSince[s[i].key]) = i - 1
    BY DEF RateInv, PlaceIsRecency, KeysBefore
  <2> QED BY <2>1, <2>2
<1>a. \A j \in IngestKey : IsFiniteSet(othersSince[j])
  BY DEF RateInv, RateTyped
<1>2. /\ w \in Window /\ p \in 1..(Len(s) + 1) /\ Moved(s, w, p, t) /\ w.key = k
      /\ \A i \in 1..Len(s) : i # p => s[i].key # k
      /\ p \in 1..Len(s) => s[p].key = k \/ p = Len(s)
      /\ othersSince' = [j \in IngestKey |-> IF j = k THEN {} ELSE othersSince[j] \cup {k}]
  BY DEF Checked
<1> HIDE DEF s, t, p, w
<1>3. /\ {t[j].key : j \in 1..0} = {}
      /\ \A i \in 1..Len(s) : i < p => {t[j].key : j \in 1..i} = {k} \cup {s[j].key : j \in 1..(i - 1)}
      /\ \A i \in 1..Len(s) : i > p =>
           {t[j].key : j \in 1..(i - 1)} = {k} \cup {s[j].key : j \in 1..(i - 1)}
  <2>1. p \in 1..Len(s) => s[p].key = w.key \/ p = Len(s)
    BY <1>2
  <2>2. /\ s \in Seq(Window) /\ w \in Window /\ p \in 1..(Len(s) + 1) /\ Moved(s, w, p, t)
    BY <1>1, <1>2
  <2>3. /\ KeysOf(t, 0) = {}
        /\ \A i \in 1..Len(s) : i < p => KeysOf(t, i) = {w.key} \cup KeysOf(s, i - 1)
        /\ \A i \in 1..Len(s) : i > p => KeysOf(t, i - 1) = {w.key} \cup KeysOf(s, i - 1)
    BY ONLY <2>1, <2>2, KeysBeforeAfterCheck
  <2>4. w.key = k
    BY <1>2
  <2> QED BY <2>3, <2>4 DEF KeysOf
<1>4. SUFFICES ASSUME NEW m \in 1..Len(t)
               PROVE  /\ othersSince'[t[m].key] = {t[j].key : j \in 1..(m - 1)}
                      /\ Cardinality(othersSince'[t[m].key]) = m - 1
  BY DEF PlaceIsRecency, KeysBefore, t
<1>5. \/ m = 1 /\ t[m] = w
      \/ \E i \in 1..Len(s) : t[m] = s[i] /\ i # p /\ ((i < p /\ m = i + 1) \/ (i > p /\ m = i))
  <2>1. /\ s \in Seq(Window) /\ w \in Window /\ p \in 1..(Len(s) + 1) /\ Moved(s, w, p, t)
    BY <1>1, <1>2
  <2>2. m \in 1..Len(t)
    OBVIOUS
  <2> QED BY ONLY <2>1, <2>2, PlaceAfterCheck
<1>6. CASE m = 1 /\ t[m] = w
  <2>1. othersSince'[t[m].key] = {} /\ m - 1 = 0
    BY <1>2, <1>6 DEF Window
  <2> QED BY <1>3, <2>1, FS_EmptySet
<1>7. ASSUME NEW i \in 1..Len(s), t[m] = s[i], i # p
      PROVE  /\ s[i].key \in IngestKey /\ IsFiniteSet(othersSince[s[i].key])
             /\ othersSince'[t[m].key] = {k} \cup {s[j].key : j \in 1..(i - 1)}
             /\ Cardinality(othersSince'[t[m].key])
                  = IF k \in {s[j].key : j \in 1..(i - 1)} THEN i - 1 ELSE i
  <2>1. s[i].key \in IngestKey /\ s[i].key # k
    BY <1>1, <1>2, <1>7 DEF Window
  <2>2. othersSince'[t[m].key] = othersSince[s[i].key] \cup {k}
    BY <1>2, <1>7, <2>1
  <2>3. /\ othersSince[s[i].key] = {s[j].key : j \in 1..(i - 1)}
        /\ Cardinality(othersSince[s[i].key]) = i - 1
    BY <1>1
  <2>4. Cardinality(othersSince[s[i].key] \cup {k})
          = IF k \in othersSince[s[i].key] THEN i - 1 ELSE i
    <3> DEFINE S == othersSince[s[i].key]
    <3>1. IsFiniteSet(S)
      BY <1>a, <2>1
    <3>2. Cardinality(S) = i - 1 /\ i \in Nat
      BY <2>3
    <3> HIDE DEF S
    <3>3. Cardinality(S \cup {k}) = IF k \in S THEN Cardinality(S) ELSE Cardinality(S) + 1
      BY <3>1, MorePlaces
    <3>4. Cardinality(S \cup {k}) = IF k \in S THEN i - 1 ELSE i
      BY ONLY <3>2, <3>3
    <3> QED BY <3>4 DEF S
  <2>5. IsFiniteSet(othersSince[s[i].key])
    BY <1>a, <2>1
  <2> QED BY <2>1, <2>2, <2>3, <2>4, <2>5
<1>8. ASSUME NEW i \in 1..Len(s), t[m] = s[i], i < p, m = i + 1
      PROVE  /\ othersSince'[t[m].key] = {t[j].key : j \in 1..(m - 1)}
             /\ Cardinality(othersSince'[t[m].key]) = m - 1
  <2>1. k \notin {s[j].key : j \in 1..(i - 1)}
    BY <1>1, <1>2, <1>8
  <2>2. m - 1 = i /\ i # p
    BY <1>1, <1>2, <1>8
  <2> QED BY <1>3, <1>7, <1>8, <2>1, <2>2
<1>9. ASSUME NEW i \in 1..Len(s), t[m] = s[i], i > p, m = i
      PROVE  /\ othersSince'[t[m].key] = {t[j].key : j \in 1..(m - 1)}
             /\ Cardinality(othersSince'[t[m].key]) = m - 1
  <2>1. p \in 1..Len(s) /\ p # Len(s) /\ p \in 1..(i - 1) /\ i # p
    BY <1>1, <1>2, <1>9
  <2>2. k \in {s[j].key : j \in 1..(i - 1)}
    BY <1>2, <2>1
  <2> QED BY <1>3, <1>7, <1>9, <2>1, <2>2
<1> QED BY <1>5, <1>6, <1>8, <1>9

\* A key that was pushed out has as many others after it as are tracked.
LEMMA CheckedForgets ==
  ASSUME RateInv, NEW k \in IngestKey, Checked(k), PlaceIsRecency'
  PROVE  ForgottenInTurn'
<1>1. /\ rateWindows \in Seq(Window) /\ Len(rateWindows) \in Nat
      /\ \A i \in 1..Len(rateWindows) : rateWindows[i] \in Window
      /\ rateWindows' \in Seq(Window) /\ Len(rateWindows') \in Nat
      /\ Moved(rateWindows, Charged(k), RoomAt(k), rateWindows')
      /\ RoomAt(k) \in 1..(Len(rateWindows) + 1) /\ Charged(k).key = k
  BY DEF RateInv, RateTyped, Checked, Moved
<1>2. SUFFICES ASSUME NEW j \in IngestKey, admittedAt'[j] # <<>>,
                      \A m \in 1..Len(rateWindows') : rateWindows'[m].key # j
               PROVE  Cardinality(othersSince'[j]) >= TrackedKeys
  BY <1>1 DEF ForgottenInTurn, Tracked, Places
<1>3. j # k
  <2>1. rateWindows'[1] = Charged(k) /\ 1 \in 1..Len(rateWindows')
    BY <1>1 DEF Moved
  <2> QED BY <1>1, <1>2, <2>1
<1>4. /\ admittedAt[j] # <<>> /\ othersSince'[j] = othersSince[j] \cup {k}
      /\ IsFiniteSet(othersSince[j])
  BY <1>2, <1>3 DEF Checked, RateInv, RateTyped
<1>5. /\ Cardinality(othersSince[j]) \in Nat
      /\ Cardinality(othersSince'[j])
           = IF k \in othersSince[j] THEN Cardinality(othersSince[j]) ELSE Cardinality(othersSince[j]) + 1
  BY <1>4, MorePlaces
<1>6. TrackedKeys \in Nat
  BY RateAssumption DEF RateAssumption
<1>7. CASE ~Tracked(j)
  <2>1. Cardinality(othersSince[j]) >= TrackedKeys
    BY <1>4, <1>7 DEF RateInv, ForgottenInTurn
  <2> QED BY <1>5, <1>6, <2>1
<1>8. CASE Tracked(j)
  <2>1. PICK i \in 1..Len(rateWindows) : rateWindows[i].key = j
    BY <1>1, <1>8 DEF Tracked, Places
  <2>2. i = RoomAt(k)
    <3>1. SUFFICES ASSUME i # RoomAt(k) PROVE FALSE
      OBVIOUS
    <3>2. CASE i < RoomAt(k)
      <4>1. rateWindows'[i + 1] = rateWindows[i] /\ i + 1 \in 1..Len(rateWindows')
        BY <1>1, <3>2 DEF Moved
      <4> QED BY <1>2, <2>1, <4>1
    <3>3. CASE i > RoomAt(k)
      <4>1. rateWindows'[i] = rateWindows[i] /\ i \in 1..Len(rateWindows')
        BY <1>1, <3>3 DEF Moved
      <4> QED BY <1>2, <2>1, <4>1
    <3> QED BY <1>1, <3>1, <3>2, <3>3
  <2>3. i = Len(rateWindows) /\ Len(rateWindows) = TrackedKeys
    BY <1>3, <2>1, <2>2 DEF Checked
  <2>4. /\ Cardinality(othersSince[j]) = TrackedKeys - 1
        /\ othersSince[j] = {rateWindows[n].key : n \in 1..(i - 1)}
    BY <2>1, <2>3 DEF RateInv, PlaceIsRecency, KeysBefore
  <2>5. k \notin othersSince[j]
    <3>1. \A n \in 1..(i - 1) : n \in 1..Len(rateWindows) /\ n # RoomAt(k)
      BY <1>1, <2>2, <2>3
    <3> QED BY <2>4, <3>1 DEF Checked
  <2> QED BY <1>5, <1>6, <2>4, <2>5
<1> QED BY <1>7, <1>8

\* The spans that the property counts.
Spanned(times, now) == {n \in DOMAIN times : now - times[n] < RateWindow}

LEMMA CheckedHonours ==
  ASSUME RateInv, NEW k \in IngestKey, Checked(k)
  PROVE  RateHonoured'
<1>1. SUFFICES ASSUME NEW j \in IngestKey, KeyLimit[j] # 0
               PROVE  Cardinality(Spanned(admittedAt'[j], ingestTime')) <= 2 * KeyLimit[j]
  BY DEF RateHonoured, Spanned
<1>2. /\ admittedAt \in [IngestKey -> Seq(Nat)] /\ TimesAfter(k) \in Seq(Nat)
      /\ admittedAt' = [admittedAt EXCEPT ![k] = TimesAfter(k)] /\ ingestTime' = ingestTime
      /\ Charged(k) \in Window /\ Charged(k).start <= ingestTime /\ ingestTime \in Nat
      /\ Counts(Charged(k), TimesAfter(k), KeyLimit[k]) /\ KeyLimit[k] \in Nat
  BY RateAssumption DEF RateAssumption, Checked, RateInv, RateTyped
<1>3. CASE j = k
  <2>1. Cardinality(Spanned(TimesAfter(k), ingestTime)) <= 2 * KeyLimit[k]
    BY <1>2, TwoWindows DEF Spanned
  <2> QED BY <1>2, <1>3, <2>1
<1>4. CASE j # k
  <2>1. Cardinality(Spanned(admittedAt[j], ingestTime)) <= 2 * KeyLimit[j]
    BY <1>1 DEF RateInv, RateHonoured, Spanned
  <2> QED BY <1>2, <1>4, <2>1
<1> QED BY <1>3, <1>4

LEMMA QuietRate ==
  ASSUME RateInv, UNCHANGED limiterVars
  PROVE  RateInv'
<1>1. /\ ingestTime' = ingestTime /\ rateWindows' = rateWindows
      /\ admittedAt' = admittedAt /\ othersSince' = othersSince
  BY DEF limiterVars, rateVars
<1>2. RateTyped' /\ RateTimes' /\ OneWindowPerKey'
  BY <1>1 DEF RateInv, RateTyped, RateTimes, OneWindowPerKey
<1>3. PlaceIsRecency' /\ ForgottenInTurn'
  BY <1>1 DEF RateInv, PlaceIsRecency, KeysBefore, ForgottenInTurn, Tracked, Places
<1>4. WindowsCount' /\ RateHonoured'
  BY <1>1 DEF RateInv, WindowsCount, Counts, Since, Preceding, RateHonoured
<1> QED BY <1>2, <1>3, <1>4 DEF RateInv

LEMMA CheckRateInv ==
  ASSUME RateInv, NEW k \in IngestKey, CheckRate(k), ingestTime' = ingestTime
  PROVE  RateInv'
<1>1. CASE KeyLimit[k] = 0
  BY <1>1, QuietRate DEF CheckRate, limiterVars
<1>2. CASE KeyLimit[k] # 0
  <2>1. Checked(k)
    BY <1>2, CheckLeaves
  <2>2. PlaceIsRecency'
    BY <2>1, CheckedPlaces
  <2> QED BY <2>1, <2>2, CheckedTyped, CheckedForgets, CheckedHonours DEF RateInv
<1> QED BY <1>1, <1>2

LEMMA RateTickInv ==
  ASSUME RateInv, RateTick
  PROVE  RateInv'
<1>1. /\ ingestTime \in Nat /\ ingestTime' = ingestTime + 1 /\ rateWindows' = rateWindows
      /\ admittedAt' = admittedAt /\ othersSince' = othersSince
      /\ admittedAt \in [IngestKey -> Seq(Nat)] /\ rateWindows \in Seq(Window)
  BY DEF RateInv, RateTyped, RateTick, rateVars
<1>2. RateTyped' /\ OneWindowPerKey' /\ PlaceIsRecency' /\ ForgottenInTurn' /\ WindowsCount'
  <2>1. RateTyped'
    BY <1>1 DEF RateInv, RateTyped
  <2>2. OneWindowPerKey'
    BY <1>1 DEF RateInv, OneWindowPerKey
  <2>3. PlaceIsRecency'
    <3>1. PlaceIsRecency /\ rateWindows' = rateWindows /\ othersSince' = othersSince
      BY <1>1 DEF RateInv
    <3> QED BY ONLY <3>1 DEF PlaceIsRecency, KeysBefore
  <2>4. ForgottenInTurn' /\ WindowsCount'
    BY <1>1 DEF RateInv, ForgottenInTurn, Tracked, Places, WindowsCount, Counts, Since, Preceding
  <2> QED BY <2>1, <2>2, <2>3, <2>4
<1>3. RateTimes'
  <2>1. ASSUME NEW i \in 1..Len(rateWindows) PROVE rateWindows[i].start <= ingestTime + 1
    <3>1. rateWindows[i].start <= ingestTime /\ rateWindows[i] \in Window
      BY <1>1 DEF RateInv, RateTimes
    <3> QED BY <1>1, <3>1 DEF Window
  <2>2. ASSUME NEW k \in IngestKey, NEW n \in 1..Len(admittedAt[k])
        PROVE  admittedAt[k][n] <= ingestTime + 1
    <3>1. admittedAt[k][n] <= ingestTime /\ admittedAt[k] \in Seq(Nat)
      BY <1>1 DEF RateInv, RateTimes
    <3> QED BY <1>1, <3>1
  <2> QED BY <1>1, <2>1, <2>2 DEF RateTimes
<1>4. RateHonoured'
  <2>1. SUFFICES ASSUME NEW k \in IngestKey, KeyLimit[k] # 0
                 PROVE  Cardinality(Spanned(admittedAt[k], ingestTime + 1)) <= 2 * KeyLimit[k]
    BY <1>1 DEF RateHonoured, Spanned
  <2>2. Cardinality(Spanned(admittedAt[k], ingestTime)) <= 2 * KeyLimit[k]
    BY <2>1 DEF RateInv, RateHonoured, Spanned
  <2>3. admittedAt[k] \in Seq(Nat) /\ KeyLimit[k] \in Nat
    BY <1>1, RateAssumption DEF RateAssumption
  <2>4. Spanned(admittedAt[k], ingestTime + 1) \subseteq Spanned(admittedAt[k], ingestTime)
    BY <1>1, <2>3, RateAssumption DEF RateAssumption, Spanned
  <2>5. /\ IsFiniteSet(Spanned(admittedAt[k], ingestTime))
        /\ Cardinality(Spanned(admittedAt[k], ingestTime)) \in Nat
    BY <2>3, PlacesAreFinite DEF Spanned
  <2>6. /\ Cardinality(Spanned(admittedAt[k], ingestTime + 1))
             <= Cardinality(Spanned(admittedAt[k], ingestTime))
        /\ Cardinality(Spanned(admittedAt[k], ingestTime + 1)) \in Nat
    BY <2>4, <2>5, FS_Subset, FS_CardinalityType
  <2> QED BY <2>2, <2>3, <2>5, <2>6
<1> QED BY <1>2, <1>3, <1>4 DEF RateInv

LEMMA RateInitInv == RateInit => RateInv
<1>1. SUFFICES ASSUME RateInit PROVE RateInv
  OBVIOUS
<1>2. /\ ingestTime = 0 /\ rateWindows = <<>> /\ Len(rateWindows) = 0
      /\ admittedAt = [k \in IngestKey |-> <<>>] /\ othersSince = [k \in IngestKey |-> {}]
  BY <1>1 DEF RateInit
<1>3. RateTyped
  BY <1>2, FS_EmptySet, RateAssumption DEF RateAssumption, RateTyped
<1>4. RateTimes /\ OneWindowPerKey /\ PlaceIsRecency /\ ForgottenInTurn /\ WindowsCount
  BY <1>2 DEF RateTimes, OneWindowPerKey, PlaceIsRecency, ForgottenInTurn, WindowsCount
<1>5. RateHonoured
  <2>1. ASSUME NEW k \in IngestKey PROVE Spanned(admittedAt[k], ingestTime) = {}
    BY <1>2 DEF Spanned
  <2>2. ASSUME NEW k \in IngestKey
        PROVE  Cardinality(Spanned(admittedAt[k], ingestTime)) <= 2 * KeyLimit[k]
    <3>1. KeyLimit[k] \in Nat
      BY RateAssumption DEF RateAssumption
    <3>2. Cardinality(Spanned(admittedAt[k], ingestTime)) = 0
      BY <2>1, FS_EmptySet
    <3> QED BY <3>1, <3>2
  <2> QED BY <2>2 DEF RateHonoured, Spanned
<1> QED BY <1>3, <1>4, <1>5 DEF RateInv

\* The limiter counts for every key within its windows, whatever the keys, their
\* limits and the size of its map.
THEOREM RateInvariant == RateSpec => []RateInv
<1>1. RateInv /\ [RateNext]_limiterVars => RateInv'
  BY CheckRateInv, RateTickInv, QuietRate DEF RateNext
<1> QED BY <1>1, RateInitInv, PTL DEF RateSpec

\* No key is admitted more than twice its limit in a span of one window, unless
\* the map had to forget it (RateLimiter::check, ingest/abuse.rs).
THEOREM RateLimitHonoured == RateSpec => []RateHonoured
<1>1. RateInv => RateHonoured
  BY DEF RateInv
<1> QED BY <1>1, RateInvariant, PTL

\* The limiter's map never grows beyond TRACKED_KEYS, and no window of it begins in
\* the future (the types of RateLimiter).
THEOREM RateTypeCorrect == RateSpec => []RateTypeOK
<1> DEFINE Clock == ingestTime \in 0..MaxIngestTime
<1>1. RateInit => Clock
  BY RateAssumption DEF RateInit, RateAssumption
<1>2. Clock /\ [RateNext]_limiterVars => Clock'
  BY RateAssumption DEF RateNext, RateTick, limiterVars, RateAssumption
<1>3. RateInv /\ Clock => RateTypeOK
  <2> SUFFICES ASSUME RateInv, Clock PROVE RateTypeOK
    OBVIOUS
  <2>1. ASSUME NEW w \in ToSet(rateWindows) PROVE w.key \in IngestKey /\ w.start \in 0..ingestTime
    <3>1. PICK i \in DOMAIN rateWindows : w = rateWindows[i]
      BY DEF ToSet
    <3>2. i \in 1..Len(rateWindows) /\ w \in Window
      BY <3>1 DEF RateInv, RateTyped
    <3> QED BY <3>1, <3>2 DEF RateInv, RateTyped, RateTimes, Window
  <2> QED BY <2>1 DEF RateTypeOK, RateInv, RateTyped
<1> QED BY <1>1, <1>2, <1>3, RateInvariant, PTL DEF RateSpec

-----------------------------------------------------------------------------
\* IngestAdmission: the inductive invariant.

Steps == {"idle", "resolved", "origin", "select", "put", "judge", "body", "persist"}
Codes == {NoCode, 200, 400, 401, 403, 413, 429, 500}
Request == [sent : Nat, step : Steps, asked : Nat,
            list : {<<>>} \cup {<<list>> : list \in OriginList}, code : Codes]
Entry == [list : OriginList, fetched : Nat]
Past == [project : Project, list : OriginList, until : Nat]

\* The project had the list at a time from then on, or a read of it failed.
HeldFrom(p, list, from) ==
  \/ list = allowed[p]
  \/ \E past \in pastLists : past.project = p /\ past.list = list /\ past.until >= from

ProjectOf(c) == KeyProject[SentKey(c)]

OriginsTyped ==
  /\ ingestTime \in Nat
  /\ allowed \in [Project -> OriginList]
  /\ originCache \in [Project -> {<<>>} \cup {<<e>> : e \in Entry}]
  /\ pastLists \subseteq Past

\* What a request carries: a list it read, or one that was fresh when it asked.
Carries(c, r) ==
  /\ r \in Request
  /\ r.asked <= ingestTime
  /\ r.step # "idle" => SentKey(c) \in IngestKey
  /\ r.step = "put" => r.list # <<>> /\ HeldFrom(ProjectOf(c), r.list[1], r.asked)
  /\ r.step = "judge" => r.list # <<>> /\ HeldFrom(ProjectOf(c), r.list[1], r.asked + 1 - OriginTtl)

CachedListsHeld ==
  \A p \in Project : originCache[p] # <<>> =>
    /\ originCache[p][1].fetched <= ingestTime
    /\ HeldFrom(p, originCache[p][1].list, originCache[p][1].fetched)

OriginInv ==
  /\ OriginsTyped /\ CachedListsHeld
  /\ DOMAIN ingest = Client /\ \A c \in Client : Carries(c, ingest[c])

\* A request that goes on, or is answered, and changes no list.
LEMMA RequestStepInv ==
  ASSUME OriginInv, UNCHANGED <<ingestTime, originVars>>, NEW c \in Client, NEW r,
         ingest' = [ingest EXCEPT ![c] = r], Carries(c, r)
  PROVE  OriginInv'
<1>1. /\ ingestTime' = ingestTime /\ allowed' = allowed /\ originCache' = originCache
      /\ pastLists' = pastLists
  BY DEF originVars
<1>2. \A p, list, from : HeldFrom(p, list, from)' <=> HeldFrom(p, list, from)
  BY <1>1 DEF HeldFrom
<1>3. OriginsTyped' /\ CachedListsHeld'
  <2>1. OriginsTyped'
    BY <1>1 DEF OriginInv, OriginsTyped
  <2>2. CachedListsHeld'
    BY <1>1 DEF OriginInv, CachedListsHeld, HeldFrom
  <2> QED BY <2>1, <2>2
<1>4. DOMAIN ingest' = Client /\ ingest'[c] = r /\ \A d \in Client \ {c} : ingest'[d] = ingest[d]
  BY DEF OriginInv
<1>5. ASSUME NEW d \in Client PROVE Carries(d, ingest'[d])
  BY <1>4 DEF OriginInv
<1>6. ASSUME NEW d \in Client PROVE Carries(d, ingest[d])'
  BY <1>1, <1>5 DEF Carries, HeldFrom, ProjectOf
<1> QED BY <1>3, <1>4, <1>6 DEF OriginInv

LEMMA SettledIs == Settled \in Request /\ Settled.step = "idle" /\ Settled.asked = 0
  BY DEF Settled, Request, Steps, Codes, NoCode

\* An answer, and a step without a list.
LEMMA AnswersCarryNothing ==
  ASSUME OriginInv, NEW c \in Client, NEW code \in Codes,
         UNCHANGED <<ingestTime, originVars>>, Reply(c, code)
  PROVE  OriginInv'
<1> DEFINE r == [Settled EXCEPT !.sent = ingest[c].sent, !.code = code]
<1>1. ingest[c] \in Request /\ ingestTime \in Nat
  BY DEF OriginInv, OriginsTyped, Carries
<1>2. ingest[c].sent \in Nat
  BY <1>1 DEF Request
<1>3. r \in Request /\ r.step = "idle" /\ r.asked = 0
  BY <1>2, SettledIs DEF Request
<1>4. Carries(c, r)
  BY <1>1, <1>3 DEF Carries
<1> HIDE DEF r
<1>5. ingest' = [ingest EXCEPT ![c] = r]
  BY DEF Reply, r
<1> QED BY <1>4, <1>5, RequestStepInv

LEMMA AdvanceInv ==
  ASSUME OriginInv, NEW c \in Client, NEW step \in Steps \ {"put", "judge"},
         UNCHANGED <<ingestTime, originVars>>, Advance(c, step), ingest[c].step # "idle"
  PROVE  OriginInv'
<1> DEFINE r == [ingest[c] EXCEPT !.step = step]
<1>1. /\ ingest[c] \in Request /\ ingest[c].asked <= ingestTime /\ SentKey(c) \in IngestKey
  BY DEF OriginInv, Carries
<1>2. r \in Request /\ r.step = step /\ r.asked = ingest[c].asked
  BY <1>1 DEF Request
<1>3. Carries(c, r)
  BY <1>1, <1>2 DEF Carries
<1> HIDE DEF r
<1>4. ingest' = [ingest EXCEPT ![c] = r]
  BY DEF Advance, r
<1> QED BY <1>3, <1>4, RequestStepInv

LEMMA ResolveInv ==
  ASSUME OriginInv, NEW c \in Client, ResolveKey(c)
  PROVE  OriginInv'
<1> DEFINE code == CASE SentKey(c) = NoKey -> 401
                     [] SentKey(c) # NoKey /\ Sends[c].body = "oversized" -> 413
                     [] OTHER -> IF Resolves(SentKey(c))
                                    /\ Sends[c].project = KeyProject[SentKey(c)]
                                 THEN NoCode ELSE 401
           r == [Settled EXCEPT !.sent = ingest[c].sent + 1, !.code = code,
                                !.step = IF code = NoCode THEN "resolved" ELSE "idle"]
<1>1. code \in Codes /\ (code = NoCode => SentKey(c) \in IngestKey)
  BY DEF Codes, NoCode, Resolves
<1>2. ingest' = [ingest EXCEPT ![c] = r]
  BY DEF ResolveKey
<1>3. ingest[c] \in Request /\ ingestTime \in Nat
  BY DEF OriginInv, OriginsTyped, Carries
<1>4. ingest[c].sent + 1 \in Nat
  BY <1>3 DEF Request
<1> HIDE DEF code
<1>5. /\ r \in Request /\ r.asked = 0
      /\ r.step = IF code = NoCode THEN "resolved" ELSE "idle"
  BY <1>1, <1>4, SettledIs DEF Request, Steps
<1> HIDE DEF r
<1>7. Carries(c, r)
  BY <1>1, <1>3, <1>5 DEF Carries
<1>6. UNCHANGED <<ingestTime, originVars>>
  BY DEF ResolveKey
<1> QED BY <1>2, <1>6, <1>7, RequestStepInv

LEMMA LimitInv ==
  ASSUME OriginInv, NEW c \in Client, LimitRate(c)
  PROVE  OriginInv'
<1>1. UNCHANGED <<ingestTime, originVars>> /\ ingest[c].step # "idle"
  BY DEF LimitRate
<1>2. Reply(c, 429) \/ Advance(c, "body") \/ Advance(c, "origin")
  BY DEF LimitRate
<1> QED BY <1>1, <1>2, AnswersCarryNothing, AdvanceInv DEF Codes, Steps

\* The look-up of a request's origins.
LEMMA AtAProject ==
  ASSUME OriginInv, NEW c \in Client, ingest[c].step # "idle"
  PROVE  /\ SentKey(c) \in IngestKey /\ ProjectOf(c) \in Project
         /\ ingest[c] \in Request /\ ingestTime \in Nat /\ OriginTtl \in Nat \ {0}
         /\ allowed[ProjectOf(c)] \in OriginList
         /\ ingest[c].asked \in Nat /\ ingest[c].asked <= ingestTime
<1>1. SentKey(c) \in IngestKey /\ ingest[c] \in Request /\ ingest[c].asked <= ingestTime
  BY DEF OriginInv, Carries
<1>2. ProjectOf(c) \in Project
  BY <1>1 DEF ProjectOf, Project
<1> QED BY <1>1, <1>2, IngestAssumption DEF IngestAssumption, OriginInv, OriginsTyped, Request

LEMMA LookUpInv ==
  ASSUME OriginInv, NEW c \in Client, LookUpOrigins(c)
  PROVE  OriginInv'
<1> DEFINE p == ProjectOf(c)
           step == IF CacheFresh(p) THEN "judge" ELSE "select"
           list == IF CacheFresh(p) THEN <<originCache[p][1].list>> ELSE <<>>
           r == [ingest[c] EXCEPT !.asked = ingestTime, !.step = step, !.list = list]
<1>1. UNCHANGED <<ingestTime, originVars>> /\ ingest[c].step # "idle"
  BY DEF LookUpOrigins
<1>2. ingest' = [ingest EXCEPT ![c] = r]
  <2>1. DOMAIN ingest = Client
    BY DEF OriginInv
  <2> QED BY <2>1 DEF LookUpOrigins, ProjectOf
<1>3. /\ SentKey(c) \in IngestKey /\ p \in Project /\ ingest[c] \in Request /\ ingestTime \in Nat
      /\ OriginTtl \in Nat \ {0}
  BY <1>1, AtAProject
<1>4. CacheFresh(p) => /\ originCache[p][1] \in Entry
                       /\ HeldFrom(p, originCache[p][1].list, originCache[p][1].fetched)
                       /\ originCache[p][1].fetched > ingestTime - OriginTtl
  <2>1. SUFFICES ASSUME CacheFresh(p)
                 PROVE  /\ originCache[p][1] \in Entry
                        /\ HeldFrom(p, originCache[p][1].list, originCache[p][1].fetched)
                        /\ originCache[p][1].fetched > ingestTime - OriginTtl
    OBVIOUS
  <2>2. originCache[p] # <<>> /\ ingestTime - originCache[p][1].fetched < OriginTtl
    BY <2>1 DEF CacheFresh
  <2>3. originCache[p][1] \in Entry
    BY <1>3, <2>2 DEF OriginInv, OriginsTyped
  <2>4. HeldFrom(p, originCache[p][1].list, originCache[p][1].fetched)
    BY <1>3, <2>2 DEF OriginInv, CachedListsHeld
  <2> QED BY <1>3, <2>2, <2>3, <2>4 DEF Entry
<1>5. /\ r \in Request /\ r.asked = ingestTime /\ r.step = step /\ r.list = list
  <2>1. list \in {<<>>} \cup {<<l>> : l \in OriginList} /\ step \in Steps
    BY <1>4 DEF Entry, Steps
  <2> HIDE DEF list, step
  <2> QED BY <1>3, <2>1 DEF Request
<1>6. CacheFresh(p) => list # <<>> /\ HeldFrom(p, list[1], ingestTime + 1 - OriginTtl)
  <2>1. SUFFICES ASSUME CacheFresh(p) PROVE HeldFrom(p, originCache[p][1].list, ingestTime + 1 - OriginTtl)
    OBVIOUS
  <2>2. originCache[p][1].fetched >= ingestTime + 1 - OriginTtl /\ originCache[p][1].fetched \in Nat
    BY <1>3, <1>4, <2>1 DEF Entry
  <2>3. \A past \in pastLists : past.until \in Nat
    BY DEF OriginInv, OriginsTyped, Past
  <2> QED BY <1>3, <1>4, <2>1, <2>2, <2>3 DEF HeldFrom
<1> HIDE DEF r
<1>7. Carries(c, r)
  BY <1>3, <1>5, <1>6 DEF Carries
<1> QED BY <1>1, <1>2, <1>7, RequestStepInv

LEMMA SelectInv ==
  ASSUME OriginInv, NEW c \in Client, SelectOrigins(c)
  PROVE  OriginInv'
<1> DEFINE p == ProjectOf(c)
           r == [ingest[c] EXCEPT !.step = "put", !.list = <<allowed[p]>>]
<1>1. UNCHANGED <<ingestTime, originVars>> /\ ingest[c].step # "idle"
  BY DEF SelectOrigins
<1>2. ingest' = [ingest EXCEPT ![c] = r]
  <2>1. DOMAIN ingest = Client
    BY DEF OriginInv
  <2> QED BY <2>1 DEF SelectOrigins, ProjectOf
<1>3. /\ SentKey(c) \in IngestKey /\ p \in Project /\ ingest[c] \in Request
      /\ allowed[p] \in OriginList /\ ingest[c].asked <= ingestTime
  BY <1>1, AtAProject
<1>4. r \in Request /\ r.asked = ingest[c].asked /\ r.step = "put" /\ r.list = <<allowed[p]>>
  BY <1>3 DEF Request, Steps
<1> HIDE DEF r
<1>5. Carries(c, r)
  BY <1>3, <1>4 DEF Carries, HeldFrom
<1> QED BY <1>1, <1>2, <1>5, RequestStepInv

\* A list that is replaced, or a read that fails, is one more of the past.
StillHeld ==
  \A p \in Project : \A list, from : from \in Int /\ from <= ingestTime /\ HeldFrom(p, list, from)
                                       => HeldFrom(p, list, from)'

LEMMA StillCarried ==
  ASSUME OriginInv, StillHeld, ingestTime' = ingestTime, NEW c \in Client, NEW r, Carries(c, r)
  PROVE  Carries(c, r)'
<1>1. /\ r \in Request /\ r.asked <= ingestTime /\ ingestTime \in Nat /\ r.asked \in Nat
      /\ OriginTtl \in Nat \ {0}
  BY IngestAssumption DEF IngestAssumption, Carries, OriginInv, OriginsTyped, Request
<1>2. r.step # "idle" => SentKey(c) \in IngestKey /\ ProjectOf(c) \in Project
  BY DEF Carries, ProjectOf, Project
<1>3. /\ r.asked \in Int /\ r.asked + 1 - OriginTtl \in Int /\ r.asked + 1 - OriginTtl <= ingestTime
  BY <1>1
<1>4. r.step = "put" => r.list # <<>> /\ HeldFrom(ProjectOf(c), r.list[1], r.asked)'
  <2>1. SUFFICES ASSUME r.step = "put" PROVE r.list # <<>> /\ HeldFrom(ProjectOf(c), r.list[1], r.asked)'
    OBVIOUS
  <2>2. ProjectOf(c) \in Project /\ r.list # <<>> /\ HeldFrom(ProjectOf(c), r.list[1], r.asked)
    BY <1>2, <2>1 DEF Carries
  <2> QED BY <1>1, <1>3, <2>2 DEF StillHeld
<1>5. r.step = "judge" =>
        r.list # <<>> /\ HeldFrom(ProjectOf(c), r.list[1], r.asked + 1 - OriginTtl)'
  <2>1. SUFFICES ASSUME r.step = "judge"
                 PROVE  r.list # <<>> /\ HeldFrom(ProjectOf(c), r.list[1], r.asked + 1 - OriginTtl)'
    OBVIOUS
  <2>2. /\ ProjectOf(c) \in Project /\ r.list # <<>>
        /\ HeldFrom(ProjectOf(c), r.list[1], r.asked + 1 - OriginTtl)
    BY <1>2, <2>1 DEF Carries
  <2> QED BY <1>3, <2>2 DEF StillHeld
<1> QED BY <1>1, <1>2, <1>4, <1>5 DEF Carries

LEMMA StillCached ==
  ASSUME OriginInv, StillHeld, ingestTime' = ingestTime, originCache' = originCache
  PROVE  CachedListsHeld'
<1>1. SUFFICES ASSUME NEW p \in Project, originCache[p] # <<>>
               PROVE  /\ originCache[p][1].fetched <= ingestTime
                      /\ HeldFrom(p, originCache[p][1].list, originCache[p][1].fetched)'
  BY DEF CachedListsHeld, HeldFrom
<1>2. /\ originCache[p][1].fetched <= ingestTime
      /\ HeldFrom(p, originCache[p][1].list, originCache[p][1].fetched)
  BY <1>1 DEF OriginInv, CachedListsHeld
<1>3. originCache[p][1] \in Entry
  BY <1>1 DEF OriginInv, OriginsTyped
<1>4. originCache[p][1].fetched \in Int
  BY <1>3 DEF Entry
<1> QED BY <1>2, <1>4 DEF StillHeld

LEMMA FailedSelectInv ==
  ASSUME OriginInv, NEW c \in Client, SelectOriginsFails(c)
  PROVE  OriginInv'
<1> DEFINE p == ProjectOf(c)
           past == [project |-> p, list |-> {}, until |-> ingestTime]
<1>0. PICK r : r = [ingest[c] EXCEPT !.step = "put", !.list = << {} >>]
  OBVIOUS
<1>1. /\ ingestTime' = ingestTime /\ allowed' = allowed /\ originCache' = originCache
      /\ pastLists' = pastLists \cup {past} /\ ingest[c].step # "idle"
  BY DEF SelectOriginsFails, ProjectOf
<1>2. ingest' = [ingest EXCEPT ![c] = r] /\ DOMAIN ingest = Client
  <2>1. DOMAIN ingest = Client
    BY DEF OriginInv
  <2> QED BY <1>0, <2>1 DEF SelectOriginsFails
<1>3. /\ SentKey(c) \in IngestKey /\ p \in Project /\ ingest[c] \in Request /\ ingestTime \in Nat
      /\ ingest[c].asked <= ingestTime /\ ingest[c].asked \in Nat /\ {} \in OriginList
  BY <1>1, AtAProject, IngestAssumption DEF IngestAssumption
<1>4. past \in Past /\ past.project = p /\ past.list = {} /\ past.until = ingestTime
  BY <1>3 DEF Past
<1>5. r \in Request /\ r.asked = ingest[c].asked /\ r.step = "put" /\ r.list = << {} >>
  BY <1>0, <1>3 DEF Request, Steps
<1> HIDE DEF past
<1>6. StillHeld
  BY <1>1 DEF StillHeld, HeldFrom
<1>7. OriginsTyped'
  BY <1>1, <1>4 DEF OriginInv, OriginsTyped
<1>8. Carries(c, r)'
  <2>1. HeldFrom(ProjectOf(c), {}, r.asked)'
    BY <1>1, <1>3, <1>4, <1>5 DEF HeldFrom
  <2>2. r.list[1] = {} /\ r.list # <<>> /\ r.step # "judge" /\ r.asked <= ingestTime'
    BY <1>1, <1>3, <1>5
  <2> QED BY <1>3, <1>5, <2>1, <2>2 DEF Carries
<1>9. ASSUME NEW d \in Client PROVE Carries(d, ingest[d])'
  <2>1. CASE d = c
    <3>1. ingest'[d] = r
      BY <1>2, <2>1
    <3> QED BY <1>8, <2>1, <3>1 DEF Carries, HeldFrom
  <2>2. CASE d # c
    <3>1. PICK q : q = ingest[d]
      OBVIOUS
    <3>2. Carries(d, q) /\ ingest'[d] = q
      BY <1>2, <2>2, <3>1 DEF OriginInv
    <3>3. Carries(d, q)'
      BY <1>1, <1>6, <3>2, StillCarried
    <3> QED BY <3>2, <3>3 DEF Carries, HeldFrom
  <2> QED BY <2>1, <2>2
<1>10. CachedListsHeld'
  BY <1>1, <1>6, StillCached
<1> QED BY <1>2, <1>7, <1>9, <1>10 DEF OriginInv

\* A put stores the time at which the request asked.
LEMMA PutInv ==
  ASSUME OriginInv, NEW c \in Client, PutOrigins(c)
  PROVE  OriginInv'
<1> DEFINE p == ProjectOf(c)
           e == [list |-> ingest[c].list[1], fetched |-> ingest[c].asked]
<1>0. PICK r : r = [ingest[c] EXCEPT !.step = "judge"]
  OBVIOUS
<1>1. /\ ingestTime' = ingestTime /\ allowed' = allowed /\ pastLists' = pastLists
      /\ originCache' = [originCache EXCEPT ![p] = <<e>>] /\ ingest[c].step = "put"
  BY DEF PutOrigins, ProjectOf, FetchedAt
<1>2. ingest' = [ingest EXCEPT ![c] = r] /\ DOMAIN ingest = Client
  BY <1>0 DEF PutOrigins, Advance, OriginInv
<1>3. /\ SentKey(c) \in IngestKey /\ p \in Project /\ ingest[c] \in Request /\ ingestTime \in Nat
      /\ ingest[c].asked <= ingestTime /\ ingest[c].asked \in Nat /\ OriginTtl \in Nat \ {0}
  BY <1>1, AtAProject
<1>4. /\ ingest[c].list # <<>> /\ HeldFrom(p, ingest[c].list[1], ingest[c].asked)
      /\ ingest[c].list[1] \in OriginList
  <2>1. ingest[c].list # <<>> /\ HeldFrom(p, ingest[c].list[1], ingest[c].asked)
    BY <1>1 DEF OriginInv, Carries
  <2>2. ingest[c].list \in {<<>>} \cup {<<l>> : l \in OriginList}
    BY <1>3 DEF Request
  <2> QED BY <2>1, <2>2
<1>5. /\ e \in Entry /\ e.fetched = ingest[c].asked /\ e.list = ingest[c].list[1]
  BY <1>3, <1>4 DEF Entry
<1>6. /\ r \in Request /\ r.asked = ingest[c].asked /\ r.step = "judge" /\ r.list = ingest[c].list
  BY <1>0, <1>3 DEF Request, Steps
<1> HIDE DEF e
<1>7. /\ OriginsTyped'
      /\ originCache'[p] = <<e>> /\ \A q \in Project \ {p} : originCache'[q] = originCache[q]
  BY <1>1, <1>3, <1>5 DEF OriginInv, OriginsTyped
<1>8. CachedListsHeld'
  <2>1. ASSUME NEW q \in Project, originCache'[q] # <<>>
        PROVE  /\ originCache'[q][1].fetched <= ingestTime
               /\ HeldFrom(q, originCache'[q][1].list, originCache'[q][1].fetched)
    <3>1. CASE q = p
      <4>1. originCache'[q][1] = e
        BY <1>7, <3>1
      <4> QED BY <1>3, <1>4, <1>5, <3>1, <4>1
    <3>2. CASE q # p
      BY <1>7, <2>1, <3>2 DEF OriginInv, CachedListsHeld
    <3> QED BY <3>1, <3>2
  <2> QED BY <1>1, <2>1 DEF CachedListsHeld, HeldFrom
<1>9. Carries(c, r)
  <2>1. ingest[c].asked >= ingest[c].asked + 1 - OriginTtl
    BY <1>3
  <2>2. \A past \in pastLists : past.until \in Nat
    BY DEF OriginInv, OriginsTyped, Past
  <2>3. HeldFrom(p, ingest[c].list[1], ingest[c].asked + 1 - OriginTtl)
    BY <1>3, <1>4, <2>1, <2>2 DEF HeldFrom
  <2> QED BY <1>3, <1>4, <1>6, <2>3 DEF Carries
<1>10. ASSUME NEW d \in Client PROVE Carries(d, ingest[d])'
  <2>1. Carries(d, ingest'[d])
    BY <1>2, <1>9 DEF OriginInv
  <2> QED BY <1>1, <2>1 DEF Carries, HeldFrom
<1> QED BY <1>2, <1>7, <1>8, <1>10 DEF OriginInv

LEMMA JudgeInv ==
  ASSUME OriginInv, NEW c \in Client, JudgeOrigin(c) \/ DecodeBody(c) \/ Persist(c)
  PROVE  OriginInv'
<1>1. UNCHANGED <<ingestTime, originVars>> /\ ingest[c].step # "idle"
  BY DEF JudgeOrigin, DecodeBody, Persist
<1>2. Advance(c, "body") \/ Advance(c, "persist") \/ \E code \in Codes : Reply(c, code)
  <2>1. JudgeOrigin(c) => Advance(c, "body") \/ Reply(c, 403)
    BY DEF JudgeOrigin
  <2>2. DecodeBody(c) => Advance(c, "persist") \/ Reply(c, 400) \/ Reply(c, 413)
    BY DEF DecodeBody
  <2>3. Persist(c) => Reply(c, 200) \/ Reply(c, 500)
    BY DEF Persist
  <2> QED BY <2>1, <2>2, <2>3 DEF Codes
<1> QED BY <1>1, <1>2, AnswersCarryNothing, AdvanceInv DEF Steps

LEMMA EditInv ==
  ASSUME OriginInv, NEW p \in Project, NEW list \in OriginList, EditOrigins(p, list)
  PROVE  OriginInv'
<1>0. PICK past : past = [project |-> p, list |-> allowed[p], until |-> ingestTime]
  OBVIOUS
<1>1. /\ ingestTime' = ingestTime /\ allowed' = [allowed EXCEPT ![p] = list]
      /\ pastLists' = pastLists \cup {past} /\ originCache' = originCache /\ ingest' = ingest
  BY <1>0 DEF EditOrigins
<1>2. /\ past \in Past /\ past.project = p /\ past.list = allowed[p] /\ past.until = ingestTime
      /\ allowed \in [Project -> OriginList]
  BY <1>0 DEF OriginInv, OriginsTyped, Past
<1>3. StillHeld
  <2>1. SUFFICES ASSUME NEW q \in Project, NEW l, NEW from \in Int, from <= ingestTime,
                        HeldFrom(q, l, from)
                 PROVE  HeldFrom(q, l, from)'
    BY DEF StillHeld
  <2>2. CASE l = allowed[q] /\ q = p
    <3>1. past \in pastLists' /\ past.project = q /\ past.list = l /\ past.until >= from
      BY <1>1, <1>2, <2>1, <2>2
    <3> QED BY <3>1 DEF HeldFrom
  <2>3. CASE l = allowed[q] /\ q # p
    BY <1>1, <1>2, <2>3 DEF HeldFrom
  <2>4. CASE l # allowed[q]
    BY <1>1, <2>1, <2>4 DEF HeldFrom
  <2> QED BY <2>2, <2>3, <2>4
<1>4. OriginsTyped' /\ CachedListsHeld'
  <2>1. OriginsTyped'
    BY <1>1, <1>2 DEF OriginInv, OriginsTyped
  <2> QED BY <1>1, <1>3, <2>1, StillCached
<1>5. ASSUME NEW d \in Client PROVE Carries(d, ingest[d])'
  <2>1. PICK q : q = ingest[d]
    OBVIOUS
  <2>2. Carries(d, q) /\ ingest'[d] = q
    BY <1>1, <2>1 DEF OriginInv
  <2>3. Carries(d, q)'
    BY <1>1, <1>3, <2>2, StillCarried
  <2> QED BY <2>2, <2>3 DEF Carries, HeldFrom
<1> QED BY <1>1, <1>4, <1>5 DEF OriginInv

\* A step that leaves the requests and the allowlists alone.
LEMMA QuietOriginInv ==
  ASSUME OriginInv, allowed' = allowed, pastLists' = pastLists, ingest' = ingest,
         ingestTime' \in Nat, ingestTime' >= ingestTime,
         \/ originCache' = originCache
         \/ \E p \in Project : originCache' = [originCache EXCEPT ![p] = <<>>]
  PROVE  OriginInv'
<1>1. \A q \in Project : originCache'[q] = originCache[q] \/ originCache'[q] = <<>>
  BY DEF OriginInv, OriginsTyped
<1>2. OriginsTyped'
  BY DEF OriginInv, OriginsTyped
<1>3. CachedListsHeld'
  <2>1. ASSUME NEW q \in Project, originCache'[q] # <<>>
        PROVE  /\ originCache'[q][1].fetched <= ingestTime'
               /\ HeldFrom(q, originCache'[q][1].list, originCache'[q][1].fetched)
    <3>1. originCache'[q] = originCache[q] /\ originCache[q][1] \in Entry
      BY <1>1, <2>1 DEF OriginInv, OriginsTyped
    <3>2. originCache[q][1].fetched \in Nat
      BY <3>1 DEF Entry
    <3>3. /\ originCache[q][1].fetched <= ingestTime
          /\ HeldFrom(q, originCache[q][1].list, originCache[q][1].fetched)
      BY <2>1, <3>1 DEF OriginInv, CachedListsHeld
    <3> QED BY <3>1, <3>2, <3>3 DEF OriginInv, OriginsTyped
  <2> QED BY <2>1 DEF CachedListsHeld, HeldFrom
<1>4. ASSUME NEW d \in Client PROVE Carries(d, ingest[d])'
  <2>1. Carries(d, ingest[d]) /\ ingest[d].asked \in Nat
    BY DEF OriginInv, Carries, Request
  <2>2. ingest[d].asked <= ingestTime'
    BY <2>1 DEF Carries, OriginInv, OriginsTyped
  <2> QED BY <2>1, <2>2 DEF Carries, HeldFrom
<1> QED BY <1>2, <1>3, <1>4 DEF OriginInv

LEMMA OriginStepInv == OriginInv /\ [IngestNext]_ingestVars => OriginInv'
<1>1. SUFFICES ASSUME OriginInv, [IngestNext]_ingestVars PROVE OriginInv'
  OBVIOUS
<1>2. ingestTime \in Nat
  BY <1>1 DEF OriginInv, OriginsTyped
<1>3. CASE UNCHANGED ingestVars
  BY <1>1, <1>2, <1>3, QuietOriginInv DEF ingestVars
<1>4. ASSUME NEW c \in Client,
             ResolveKey(c) \/ LimitRate(c) \/ LookUpOrigins(c) \/ SelectOrigins(c)
      PROVE  OriginInv'
  BY <1>1, <1>4, ResolveInv, LimitInv, LookUpInv, SelectInv
<1>5. ASSUME NEW c \in Client,
             \/ SelectOriginsFails(c) \/ PutOrigins(c) \/ JudgeOrigin(c) \/ DecodeBody(c)
             \/ Persist(c)
      PROVE  OriginInv'
  BY <1>1, <1>5, FailedSelectInv, PutInv, JudgeInv
<1>6. ASSUME NEW p \in Project, NEW list \in OriginList, EditOrigins(p, list)
      PROVE  OriginInv'
  BY <1>1, <1>6, EditInv
<1>7. ASSUME NEW p \in Project, EvictOrigins(p) PROVE OriginInv'
  <2>1. /\ allowed' = allowed /\ pastLists' = pastLists /\ ingest' = ingest
        /\ ingestTime' = ingestTime /\ originCache' = [originCache EXCEPT ![p] = <<>>]
    BY <1>7 DEF EvictOrigins
  <2>2. \E q \in Project : originCache' = [originCache EXCEPT ![q] = <<>>]
    BY <2>1
  <2>3. OriginInv /\ ingestTime' \in Nat /\ ingestTime' >= ingestTime
    BY <1>1, <1>2, <2>1
  <2> QED BY ONLY <2>1, <2>2, <2>3, QuietOriginInv
<1>8. ASSUME NEW k \in IngestKey, RevokeKey(k) PROVE OriginInv'
  <2>1. /\ allowed' = allowed /\ pastLists' = pastLists /\ ingest' = ingest
        /\ ingestTime' = ingestTime /\ originCache' = originCache
    BY <1>8 DEF RevokeKey, originVars
  <2> QED BY <1>1, <1>2, <2>1, QuietOriginInv
<1>9. CASE IngestTick
  <2>1. /\ allowed' = allowed /\ pastLists' = pastLists /\ ingest' = ingest
        /\ ingestTime' = ingestTime + 1 /\ originCache' = originCache
    BY <1>9 DEF IngestTick, RateTick, originVars
  <2> QED BY <1>1, <1>2, <2>1, QuietOriginInv
<1> QED BY <1>1, <1>3, <1>4, <1>5, <1>6, <1>7, <1>8, <1>9 DEF IngestNext

LEMMA OriginInitInv == IngestInit => OriginInv
<1>1. SUFFICES ASSUME IngestInit PROVE OriginInv
  OBVIOUS
<1>2. /\ ingestTime = 0 /\ allowed \in [Project -> OriginList]
      /\ originCache = [p \in Project |-> <<>>] /\ ingest = [c \in Client |-> Settled]
      /\ pastLists = {}
  BY <1>1 DEF IngestInit, RateInit
<1>3. OriginsTyped /\ CachedListsHeld
  BY <1>2 DEF OriginsTyped, CachedListsHeld
<1>4. ASSUME NEW c \in Client PROVE Carries(c, ingest[c])
  BY <1>2, SettledIs DEF Carries
<1> QED BY <1>2, <1>3, <1>4 DEF OriginInv

\* Every list in the cache and in the hands of a request is, or was, its
\* project's, for any number of clients, keys and projects.
THEOREM OriginInvariant == IngestSpec => []OriginInv
  BY OriginInitInv, OriginStepInv, PTL DEF IngestSpec

\* An origin is judged by a list no older than the cache's time to live
\* (project_origin_matchers, api/ingest.rs).
THEOREM OriginsAreFresh == IngestSpec => []OriginsFresh
<1>1. OriginInv => OriginsFresh
  <2>1. SUFFICES ASSUME OriginInv, NEW c \in Client, ingest[c].step = "judge"
                 PROVE  \/ ingest[c].list[1] = allowed[ProjectOf(c)]
                        \/ \E past \in pastLists :
                             /\ past.project = ProjectOf(c) /\ past.list = ingest[c].list[1]
                             /\ past.until > ingest[c].asked - OriginTtl
    BY DEF OriginsFresh, ProjectOf
  <2>2. /\ HeldFrom(ProjectOf(c), ingest[c].list[1], ingest[c].asked + 1 - OriginTtl)
        /\ ingest[c].asked \in Nat
    BY <2>1 DEF OriginInv, Carries, Request
  <2>3. \A past \in pastLists : past.until \in Nat
    BY <2>1 DEF OriginInv, OriginsTyped, Past
  <2>4. OriginTtl \in Nat
    BY IngestAssumption DEF IngestAssumption
  <2> QED BY <2>2, <2>3, <2>4 DEF HeldFrom
<1> QED BY <1>1, OriginInvariant, PTL

\* What the requests do to the limiter is what its own specification allows: it
\* is only ever asked about a key that exists.
THEOREM IngestUsesLimiter == IngestSpec => RateSpec
<1>1. OriginInv /\ [IngestNext]_ingestVars => [RateNext]_limiterVars
  <2>1. SUFFICES ASSUME OriginInv, [IngestNext]_ingestVars PROVE [RateNext]_limiterVars
    OBVIOUS
  <2>2. ASSUME NEW c \in Client, LimitRate(c) PROVE RateNext
    <3>1. SentKey(c) \in IngestKey
      BY <2>1, <2>2, AtAProject DEF LimitRate
    <3>2. CheckRate(SentKey(c)) /\ UNCHANGED ingestTime
      BY <2>2 DEF LimitRate
    <3> QED BY <3>1, <3>2 DEF RateNext
  <2>3. CASE IngestTick
    BY <2>3 DEF IngestTick, RateNext
  <2>4. CASE UNCHANGED limiterVars
    BY <2>4
  <2>5. ASSUME NEW c \in Client, ResolveKey(c) \/ LookUpOrigins(c) \/ SelectOrigins(c)
                                 \/ SelectOriginsFails(c) \/ PutOrigins(c)
        PROVE  UNCHANGED limiterVars
    BY <2>5 DEF ResolveKey, LookUpOrigins, SelectOrigins, SelectOriginsFails, PutOrigins, limiterVars
  <2>6. ASSUME NEW c \in Client, JudgeOrigin(c) \/ DecodeBody(c) \/ Persist(c)
        PROVE  UNCHANGED limiterVars
    BY <2>6 DEF JudgeOrigin, DecodeBody, Persist, limiterVars
  <2>7. ASSUME NEW p \in Project, EvictOrigins(p) \/ \E list \in OriginList : EditOrigins(p, list)
        PROVE  UNCHANGED limiterVars
    BY <2>7 DEF EvictOrigins, EditOrigins, limiterVars
  <2>8. ASSUME NEW k \in IngestKey, RevokeKey(k) PROVE UNCHANGED limiterVars
    BY <2>8 DEF RevokeKey, limiterVars
  <2>9. CASE UNCHANGED ingestVars
    BY <2>9 DEF ingestVars, limiterVars
  <2> QED BY <2>1, <2>2, <2>3, <2>4, <2>5, <2>6, <2>7, <2>8, <2>9 DEF IngestNext
<1>2. IngestInit => RateInit
  BY DEF IngestInit
<1> QED BY <1>1, <1>2, OriginInvariant, PTL DEF IngestSpec, RateSpec

\* The limit holds for the requests as they run, concurrently.
THEOREM IngestRateHonoured == IngestSpec => []RateHonoured
  BY IngestUsesLimiter, RateLimitHonoured, PTL

-----------------------------------------------------------------------------
\* ByteCappedLru: sums of bytes.

LruEntry == [key : LruKey, bytes : LruCost]
Pieces(S) == UNION {{e.key} \X (1..e.bytes) : e \in S}

LEMMA PiecesAre ==
  ASSUME NEW S, NEW p
  PROVE  p \in Pieces(S) <=> \E e \in S : p \in {e.key} \X (1..e.bytes)
  BY DEF Pieces

LEMMA BytesAre ==
  ASSUME NEW S, IsFiniteSet(Pieces(S))
  PROVE  BytesOf(S) = Cardinality(Pieces(S)) /\ BytesOf(S) \in Nat
<1>1. BytesOf(S) = Cardinality(Pieces(S))
  BY DEF BytesOf, Pieces
<1> QED BY <1>1, FS_CardinalityType

LEMMA NoBytes == IsFiniteSet(Pieces({})) /\ BytesOf({}) = 0
<1>1. Pieces({}) = {}
  BY DEF Pieces
<1> QED BY <1>1, BytesAre, FS_EmptySet

LEMMA BytesOfOne ==
  ASSUME NEW e, e.bytes \in Nat
  PROVE  IsFiniteSet(Pieces({e})) /\ BytesOf({e}) = e.bytes
<1>1. Pieces({e}) = {e.key} \X (1..e.bytes)
  BY DEF Pieces
<1>2. IsFiniteSet({e.key}) /\ Cardinality({e.key}) = 1
  BY FS_Singleton
<1>4. PICK n \in Nat : n = e.bytes
  OBVIOUS
<1>5. IsFiniteSet(1..n) /\ Cardinality(1..n) = n
  BY FS_Interval
<1>3. /\ IsFiniteSet({e.key} \X (1..e.bytes))
      /\ Cardinality({e.key} \X (1..e.bytes)) = Cardinality({e.key}) * Cardinality(1..e.bytes)
  BY <1>2, <1>4, <1>5, FS_Product
<1>6. IsFiniteSet(Pieces({e})) /\ Cardinality(Pieces({e})) = n
  <2>1. Cardinality({e.key}) * Cardinality(1..e.bytes) = n
    BY <1>2, <1>4, <1>5
  <2> QED BY <1>1, <1>3, <2>1
<1> HIDE DEF Pieces
<1>7. BytesOf({e}) = Cardinality(Pieces({e}))
  BY <1>6, BytesAre
<1> QED BY <1>4, <1>6, <1>7

LEMMA FewerBytes ==
  ASSUME NEW S, NEW T, T \subseteq S, IsFiniteSet(Pieces(S))
  PROVE  /\ IsFiniteSet(Pieces(T)) /\ BytesOf(T) \in Nat /\ BytesOf(S) \in Nat
         /\ BytesOf(T) <= BytesOf(S)
<1>1. Pieces(T) \subseteq Pieces(S)
  BY PiecesAre
<1>2. /\ IsFiniteSet(Pieces(T)) /\ Cardinality(Pieces(T)) <= Cardinality(Pieces(S))
  BY <1>1, FS_Subset
<1> QED BY <1>2, BytesAre

\* Sets of entries without a common key.
KeysApart(S, T) == \A e \in S, f \in T : e.key # f.key

LEMMA BytesTogether ==
  ASSUME NEW S, NEW T, IsFiniteSet(Pieces(S)), IsFiniteSet(Pieces(T)),
         KeysApart(S, T)
  PROVE  IsFiniteSet(Pieces(S \cup T)) /\ BytesOf(S \cup T) = BytesOf(S) + BytesOf(T)
<1>1. Pieces(S \cup T) = Pieces(S) \cup Pieces(T)
  BY PiecesAre
<1>2. Pieces(S) \cap Pieces(T) = {}
  <2>1. SUFFICES ASSUME NEW p, p \in Pieces(S), p \in Pieces(T) PROVE FALSE
    OBVIOUS
  <2>2. PICK e \in S : p \in {e.key} \X (1..e.bytes)
    BY <2>1, PiecesAre
  <2>3. PICK f \in T : p \in {f.key} \X (1..f.bytes)
    BY <2>1, PiecesAre
  <2> QED BY <2>2, <2>3 DEF KeysApart
<1>3. /\ IsFiniteSet(Pieces(S) \cup Pieces(T))
      /\ Cardinality(Pieces(S) \cup Pieces(T)) =
           Cardinality(Pieces(S)) + Cardinality(Pieces(T)) - Cardinality(Pieces(S) \cap Pieces(T))
  BY FS_Union
<1>4. Cardinality(Pieces(S) \cap Pieces(T)) = 0
  BY <1>2, FS_EmptySet
<1>8. Cardinality(Pieces(S \cup T)) = Cardinality(Pieces(S)) + Cardinality(Pieces(T))
  <2>1. Cardinality(Pieces(S)) \in Nat /\ Cardinality(Pieces(T)) \in Nat
    BY FS_CardinalityType
  <2>2. ASSUME NEW a \in Nat, NEW b \in Nat, NEW c, c = 0 PROVE a + b - c = a + b
    BY <2>2
  <2>3. Cardinality(Pieces(S)) + Cardinality(Pieces(T)) - Cardinality(Pieces(S) \cap Pieces(T))
          = Cardinality(Pieces(S)) + Cardinality(Pieces(T))
    BY <1>4, <2>1, <2>2
  <2> QED BY <1>1, <1>3, <2>3
<1>5. /\ BytesOf(S) = Cardinality(Pieces(S)) /\ BytesOf(S) \in Nat
      /\ BytesOf(T) = Cardinality(Pieces(T)) /\ BytesOf(T) \in Nat
  BY BytesAre
<1>6. IsFiniteSet(Pieces(S \cup T))
  BY <1>1, <1>3
<1>7. BytesOf(S \cup T) = Cardinality(Pieces(S \cup T))
  BY <1>6, BytesAre
<1> QED BY <1>5, <1>6, <1>7, <1>8

-----------------------------------------------------------------------------
\* Sequences of entries, no two of one key.

OneOfAKey(entries) ==
  \A i, j \in 1..Len(entries) : entries[i].key = entries[j].key => i = j

LEMMA EntriesAre ==
  ASSUME NEW s \in Seq(LruEntry), NEW x
  PROVE  x \in ToSet(s) <=> \E i \in 1..Len(s) : x = s[i]
  BY DEF ToSet

LEMMA PrefixOfEntries ==
  ASSUME NEW s \in Seq(LruEntry), OneOfAKey(s), NEW n \in 0..Len(s), NEW t, t = SubSeq(s, 1, n)
  PROVE  /\ t \in Seq(LruEntry) /\ Len(t) = n /\ OneOfAKey(t) /\ ToSet(t) \subseteq ToSet(s)
<1>1. /\ t \in Seq(LruEntry) /\ Len(t) = n /\ n \in Nat /\ Len(s) \in Nat
      /\ \A i \in 1..n : t[i] = s[i] /\ i \in 1..Len(s)
  OBVIOUS
<1>2. OneOfAKey(t)
  BY <1>1 DEF OneOfAKey
<1>3. ASSUME NEW x, x \in ToSet(t) PROVE x \in ToSet(s)
  <2>1. PICK i \in 1..Len(t) : x = t[i]
    <3>1. t \in Seq(LruEntry)
      BY <1>1
    <3> QED BY ONLY <1>3, <3>1, EntriesAre
  <2>2. i \in 1..Len(s) /\ x = s[i]
    BY <1>1, <2>1
  <2> QED BY <2>2, EntriesAre
<1> QED BY <1>1, <1>2, <1>3

\* A prefix and the rest.
LEMMA SplitEntries ==
  ASSUME NEW s \in Seq(LruEntry), OneOfAKey(s), NEW n \in 0..Len(s)
  PROVE  /\ ToSet(s) = ToSet(SubSeq(s, 1, n)) \cup ToSet(SubSeq(s, n + 1, Len(s)))
         /\ KeysApart(ToSet(SubSeq(s, 1, n)), ToSet(SubSeq(s, n + 1, Len(s))))
<1>0. PICK t, u : t = SubSeq(s, 1, n) /\ u = SubSeq(s, n + 1, Len(s))
  OBVIOUS
<1>1. n \in Nat /\ Len(s) \in Nat /\ n <= Len(s)
  OBVIOUS
<1>2. t \in Seq(LruEntry) /\ Len(t) = n /\ \A i \in 1..n : t[i] = s[i]
  BY <1>0
<1>3. /\ u \in Seq(LruEntry) /\ Len(u) = Len(s) - n
      /\ \A i \in 1..(Len(s) - n) : u[i] = s[n + i]
  BY <1>0, <1>1
<1>4. ASSUME NEW e PROVE e \in ToSet(t) <=> \E i \in 1..n : e = s[i]
  <2>1. e \in ToSet(t) <=> \E i \in 1..Len(t) : e = t[i]
    BY <1>2, EntriesAre
  <2> QED BY <1>2, <2>1
<1>5. ASSUME NEW e PROVE e \in ToSet(u) <=> \E i \in (n + 1)..Len(s) : e = s[i]
  <2>1. e \in ToSet(u) <=> \E i \in 1..(Len(s) - n) : e = s[n + i]
    <3>1. e \in ToSet(u) <=> \E i \in 1..Len(u) : e = u[i]
      <4>1. u \in Seq(LruEntry)
        BY <1>3
      <4> QED BY ONLY <4>1, EntriesAre
    <3> QED BY <1>3, <3>1
  <2>2. ASSUME NEW i \in 1..(Len(s) - n) PROVE n + i \in (n + 1)..Len(s)
    BY <1>1
  <2>3. ASSUME NEW i \in (n + 1)..Len(s) PROVE i - n \in 1..(Len(s) - n) /\ n + (i - n) = i
    BY <1>1
  <2> QED BY <2>1, <2>2, <2>3
<1>6. ASSUME NEW e PROVE e \in ToSet(s) <=> e \in ToSet(t) \/ e \in ToSet(u)
  <2>1. \A i \in 1..Len(s) : i \in 1..n \/ i \in (n + 1)..Len(s)
    BY <1>1
  <2>2. (\A i \in 1..n : i \in 1..Len(s)) /\ (\A i \in (n + 1)..Len(s) : i \in 1..Len(s))
    BY <1>1
  <2> QED BY <1>4, <1>5, <2>1, <2>2, EntriesAre
<1>7. ASSUME NEW e \in ToSet(t), NEW f \in ToSet(u) PROVE e.key # f.key
  <2>1. PICK i \in 1..n : e = s[i]
    BY <1>4
  <2>2. PICK j \in (n + 1)..Len(s) : f = s[j]
    BY <1>5
  <2>3. i \in 1..Len(s) /\ j \in 1..Len(s) /\ i # j
    BY <1>1
  <2> QED BY <2>1, <2>2, <2>3 DEF OneOfAKey
<1> QED BY <1>0, <1>6, <1>7 DEF KeysApart

LEMMA ConsEntry ==
  ASSUME NEW t \in Seq(LruEntry), OneOfAKey(t), NEW e \in LruEntry,
         \A f \in ToSet(t) : f.key # e.key, NEW u, u = <<e>> \o t
  PROVE  /\ u \in Seq(LruEntry) /\ Len(u) = Len(t) + 1 /\ OneOfAKey(u)
         /\ ToSet(u) = {e} \cup ToSet(t)
<1>1. /\ Len(t) \in Nat /\ u \in Seq(LruEntry) /\ Len(u) = Len(t) + 1 /\ u[1] = e
      /\ \A i \in 2..(Len(t) + 1) : u[i] = t[i - 1]
  OBVIOUS
<1>2. ASSUME NEW i \in 2..(Len(t) + 1) PROVE i - 1 \in 1..Len(t)
  BY <1>1
<1>3. ASSUME NEW i \in 1..Len(t) PROVE i + 1 \in 2..(Len(t) + 1) /\ u[i + 1] = t[i]
  BY <1>1
<1>4. ASSUME NEW i \in 1..Len(u) PROVE i = 1 \/ i \in 2..(Len(t) + 1)
  BY <1>1
<1>5. ToSet(u) = {e} \cup ToSet(t)
  <2>1. ASSUME NEW x, x \in ToSet(u) PROVE x = e \/ x \in ToSet(t)
    <3>1. PICK i \in 1..Len(u) : x = u[i]
      <4>1. u \in Seq(LruEntry)
        BY <1>1
      <4> QED BY ONLY <2>1, <4>1, EntriesAre
    <3>2. i = 1 \/ (i \in 2..(Len(t) + 1) /\ i - 1 \in 1..Len(t))
      BY <1>2, <1>4
    <3>3. x = e \/ (i - 1 \in 1..Len(t) /\ x = t[i - 1])
      BY <1>1, <3>1, <3>2
    <3> QED BY <3>3, EntriesAre
  <2>2. ASSUME NEW x, x \in ToSet(t) PROVE x \in ToSet(u)
    <3>1. PICK i \in 1..Len(t) : x = t[i]
      BY <2>2, EntriesAre
    <3>2. i + 1 \in 1..Len(u) /\ x = u[i + 1]
      BY <1>1, <1>3, <3>1
    <3> QED BY <1>1, <3>2, EntriesAre
  <2>3. e \in ToSet(u)
    <3>1. 1 \in 1..Len(u)
      BY <1>1
    <3> QED BY <1>1, <3>1, EntriesAre
  <2> QED BY <2>1, <2>2, <2>3
<1>6. OneOfAKey(u)
  <2>1. SUFFICES ASSUME NEW i \in 1..Len(u), NEW j \in 1..Len(u), u[i].key = u[j].key PROVE i = j
    BY DEF OneOfAKey
  <2>2. ASSUME NEW k \in 2..(Len(t) + 1) PROVE u[k].key # e.key
    BY <1>1, <1>2, EntriesAre
  <2>3. CASE i = 1 \/ j = 1
    BY <1>1, <1>4, <2>1, <2>2, <2>3
  <2>4. CASE i # 1 /\ j # 1
    <3>1. i \in 2..(Len(t) + 1) /\ j \in 2..(Len(t) + 1)
      BY <1>4, <2>4
    <3>2. t[i - 1].key = t[j - 1].key
      BY <1>1, <2>1, <3>1
    <3>3. i - 1 = j - 1
      BY <1>2, <3>1, <3>2 DEF OneOfAKey
    <3> QED BY <1>1, <3>1, <3>3
  <2> QED BY <2>3, <2>4
<1> QED BY <1>1, <1>5, <1>6

LEMMA SubSeqIs ==
  ASSUME NEW S, NEW s \in Seq(S), NEW n \in Nat, 1 <= n, n <= Len(s)
  PROVE  /\ SubSeq(s, 1, n - 1) \in Seq(S) /\ Len(SubSeq(s, 1, n - 1)) = n - 1
         /\ \A i \in 1..(n - 1) : SubSeq(s, 1, n - 1)[i] = s[i]
         /\ SubSeq(s, n + 1, Len(s)) \in Seq(S) /\ Len(SubSeq(s, n + 1, Len(s))) = Len(s) - n
         /\ \A i \in 1..(Len(s) - n) : SubSeq(s, n + 1, Len(s))[i] = s[n + i]
<1>1. PICK a, b : a = SubSeq(s, 1, n - 1) /\ b = SubSeq(s, n + 1, Len(s))
  OBVIOUS
<1>2. a \in Seq(S) /\ Len(a) = n - 1 /\ \A i \in 1..(n - 1) : a[i] = s[i]
  BY <1>1
<1>3. b \in Seq(S) /\ Len(b) = Len(s) - n
  BY <1>1
<1>4. \A i \in 1..(Len(s) - n) : b[i] = s[n + i]
  BY <1>1
<1> QED BY <1>1, <1>2, <1>3, <1>4

LEMMA WithoutEntry ==
  ASSUME NEW s \in Seq(LruEntry), OneOfAKey(s), NEW k, NEW t, t = WithoutKey(s, k)
  PROVE  /\ t \in Seq(LruEntry) /\ OneOfAKey(t) /\ ToSet(t) = ToSet(s) \ OfKey(s, k)
         /\ OfKey(s, k) = {} => t = s
         /\ OfKey(s, k) # {} => Len(t) = Len(s) - 1
<1>1. CASE OfKey(s, k) = {}
  BY <1>1 DEF WithoutKey
<1>2. CASE OfKey(s, k) # {}
  <2>1. PICK n : n = CHOOSE i \in DOMAIN s : s[i].key = k
    OBVIOUS
  <2>2. DOMAIN s = 1..Len(s) /\ Len(s) \in Nat
    OBVIOUS
  <2>3. \E i \in 1..Len(s) : s[i].key = k
    BY <1>2, EntriesAre DEF OfKey
  <2>4. n \in 1..Len(s) /\ s[n].key = k
    BY <2>1, <2>2, <2>3
  <2>5. t = SubSeq(s, 1, n - 1) \o SubSeq(s, n + 1, Len(s))
    BY <1>2, <2>1 DEF WithoutKey, RemoveAt
  <2>6. /\ t \in Seq(LruEntry) /\ Len(t) = Len(s) - 1
        /\ \A i \in 1..(Len(s) - 1) : t[i] = IF i < n THEN s[i] ELSE s[i + 1]
    <3>1. PICK a, b : a = SubSeq(s, 1, n - 1) /\ b = SubSeq(s, n + 1, Len(s))
      OBVIOUS
    <3>2. n \in Nat /\ 1 <= n /\ n <= Len(s)
      BY <2>2, <2>4
    <3>3. a \in Seq(LruEntry) /\ Len(a) = n - 1 /\ \A i \in 1..(n - 1) : a[i] = s[i]
      BY <3>1, <3>2, SubSeqIs
    <3>4. /\ b \in Seq(LruEntry) /\ Len(b) = Len(s) - n
          /\ \A i \in 1..(Len(s) - n) : b[i] = s[n + i]
      BY <3>1, <3>2, SubSeqIs
    <3>5. t = a \o b
      BY <2>5, <3>1
    <3>7. t \in Seq(LruEntry) /\ Len(t) = Len(s) - 1
      <4>1. a \in Seq(LruEntry) /\ b \in Seq(LruEntry)
        BY <3>3, <3>4
      <4>2. a \o b \in Seq(LruEntry) /\ Len(a \o b) = Len(a) + Len(b)
        BY ONLY <4>1, ConcatProperties
      <4>3. Len(a) + Len(b) = Len(s) - 1
        BY <2>2, <3>2, <3>3, <3>4
      <4> QED BY ONLY <3>5, <4>2, <4>3
    <3>6. ASSUME NEW i \in 1..(Len(s) - 1) PROVE t[i] = IF i < n THEN s[i] ELSE s[i + 1]
      <4>1. CASE i < n
        BY <2>2, <3>2, <3>3, <3>4, <3>5, <3>7, <4>1
      <4>2. CASE ~(i < n)
        <5>1. i - (n - 1) \in 1..(Len(s) - n) /\ n + (i - (n - 1)) = i + 1
          BY <2>2, <3>2, <4>2
        <5>2. t[i] = b[i - (n - 1)]
          BY <2>2, <3>2, <3>3, <3>4, <3>5, <3>7, <4>2
        <5> QED BY <3>4, <4>2, <5>1, <5>2
      <4> QED BY <4>1, <4>2
    <3> QED BY <3>6, <3>7
  <2>7. PICK m \in Nat : m = Len(s)
    BY <2>2
  <2>8. n \in Nat /\ 1 <= n /\ n <= m
    BY <2>4, <2>7
  <2>9. OneOfAKey(t)
    <3>1. SUFFICES ASSUME NEW i \in 1..(m - 1), NEW j \in 1..(m - 1), t[i].key = t[j].key PROVE i = j
      BY <2>6, <2>7 DEF OneOfAKey
    <3>2. PICK x \in 1..m : t[i] = s[x] /\ x = IF i < n THEN i ELSE i + 1
      BY <2>6, <2>7, <2>8
    <3>3. PICK y \in 1..m : t[j] = s[y] /\ y = IF j < n THEN j ELSE j + 1
      BY <2>6, <2>7, <2>8
    <3>4. x = y
      BY <2>7, <3>1, <3>2, <3>3 DEF OneOfAKey
    <3> QED BY <2>8, <3>2, <3>3, <3>4
  <2>10. ASSUME NEW e PROVE e \in ToSet(t) <=> e \in ToSet(s) /\ e.key # k
    <3>1. ASSUME e \in ToSet(t) PROVE e \in ToSet(s) /\ e.key # k
      <4>1. PICK i \in 1..(m - 1) : e = t[i]
        BY <2>6, <2>7, <3>1, EntriesAre
      <4>2. PICK x \in 1..m : e = s[x] /\ x # n
        BY <2>6, <2>7, <2>8, <4>1
      <4>3. e.key # k
        BY <2>4, <2>7, <4>2 DEF OneOfAKey
      <4> QED BY <2>7, <4>2, <4>3, EntriesAre
    <3>2. ASSUME e \in ToSet(s), e.key # k PROVE e \in ToSet(t)
      <4>1. PICK x \in 1..m : e = s[x]
        BY <2>7, <3>2, EntriesAre
      <4>2. x # n
        BY <2>4, <3>2, <4>1
      <4>3. \E i \in 1..(m - 1) : t[i] = s[x]
        <5>1. CASE x < n
          BY <2>6, <2>7, <2>8, <5>1
        <5>2. CASE ~(x < n)
          <6>1. x - 1 \in 1..(m - 1) /\ ~(x - 1 < n) /\ (x - 1) + 1 = x
            BY <2>8, <4>2, <5>2
          <6> QED BY <2>6, <2>7, <6>1
        <5> QED BY <5>1, <5>2
      <4> QED BY <2>6, <2>7, <4>1, <4>3, EntriesAre
    <3> QED BY <3>1, <3>2
  <2>11. ToSet(t) = ToSet(s) \ OfKey(s, k)
    BY <2>10 DEF OfKey
  <2> QED BY <1>2, <2>6, <2>9, <2>11
<1> QED BY <1>1, <1>2

-----------------------------------------------------------------------------
LEMMA PopUntilIs ==
  ASSUME NEW s \in Seq(LruEntry), OneOfAKey(s), IsFiniteSet(Pieces(ToSet(s))),
         NEW lost \in Nat, NEW bytes, bytes = BytesOf(ToSet(s)) + lost, NEW room \in Int,
         NEW t, t = PopUntil(s, bytes, room)
  PROVE  /\ t \in Seq(LruEntry) /\ OneOfAKey(t) /\ Len(t) <= Len(s) /\ ToSet(t) \subseteq ToSet(s)
         /\ t # <<>> => BytesOf(ToSet(t)) + lost <= room
<1>0. PICK kept : kept = {n \in 1..Len(s) : bytes <= room + TotalBytes(SubSeq(s, n + 1, Len(s)))}
  OBVIOUS
<1>1. t = IF kept = {} THEN <<>> ELSE SubSeq(s, 1, CHOOSE n \in kept : \A m \in kept : m <= n)
  BY <1>0 DEF PopUntil
<1>2. CASE kept = {}
  <2>1. t = <<>>
    BY <1>1, <1>2
  <2>2. Len(s) \in Nat
    OBVIOUS
  <2>3. Len(t) = 0 /\ t \in Seq(LruEntry) /\ ToSet(t) = {}
    BY ONLY <2>1 DEF ToSet
  <2>4. OneOfAKey(t) /\ Len(t) <= Len(s)
    BY <2>2, <2>3 DEF OneOfAKey
  <2> QED BY <2>1, <2>3, <2>4
<1>3. CASE kept # {}
  <2>1. kept \subseteq 0..Len(s) /\ Len(s) \in Nat
    BY <1>0
  <2>2. PICK n : n = CHOOSE k \in kept : \A m \in kept : m <= k
    OBVIOUS
  <2>3. n \in kept /\ t = SubSeq(s, 1, n)
    <3>1. \E k \in kept : \A m \in kept : m <= k
      BY <1>3, <2>1, GreatestNumber
    <3> QED BY <1>1, <1>3, <2>2, <3>1
  <2>4. n \in 1..Len(s) /\ n \in 0..Len(s)
    BY <1>0, <2>1, <2>3
  <2>5. PICK u : u = SubSeq(s, n + 1, Len(s))
    OBVIOUS
  <2>6. bytes <= room + BytesOf(ToSet(u))
    BY <1>0, <2>3, <2>5 DEF TotalBytes
  <2>7. /\ t \in Seq(LruEntry) /\ Len(t) = n /\ OneOfAKey(t) /\ ToSet(t) \subseteq ToSet(s)
    BY <2>3, <2>4, PrefixOfEntries
  <2>8. /\ ToSet(s) = ToSet(t) \cup ToSet(u)
        /\ KeysApart(ToSet(t), ToSet(u))
    <3>1. s \in Seq(LruEntry) /\ OneOfAKey(s)
      OBVIOUS
    <3> QED BY <2>3, <2>4, <2>5, SplitEntries
  <2>9. ToSet(u) \subseteq ToSet(s)
    BY <2>8
  <2>10. IsFiniteSet(Pieces(ToSet(t))) /\ BytesOf(ToSet(t)) \in Nat
    BY <2>7, FewerBytes
  <2>11. IsFiniteSet(Pieces(ToSet(u))) /\ BytesOf(ToSet(u)) \in Nat
    BY <2>9, FewerBytes
  <2>12. BytesOf(ToSet(s)) = BytesOf(ToSet(t)) + BytesOf(ToSet(u))
    BY <2>8, <2>10, <2>11, BytesTogether
  <2>13. BytesOf(ToSet(t)) + lost <= room
    BY <2>6, <2>10, <2>11, <2>12
  <2>14. Len(t) <= Len(s)
    BY <2>1, <2>4, <2>7
  <2> QED BY <2>7, <2>13, <2>14
<1> QED BY <1>2, <1>3

-----------------------------------------------------------------------------
\* ByteCappedLru: the inductive invariant.

LruTyped ==
  /\ lruEntries \in Seq(LruEntry) /\ OneOfAKey(lruEntries)
  /\ IsFiniteSet(Pieces(ToSet(lruEntries)))
  /\ lruLimits \in LruLimits /\ lruLost \in Nat

Small(S, budget) == {e \in S : e.bytes < budget}

LruInv ==
  /\ LruTyped
  /\ lruBytes = BytesOf(ToSet(lruEntries)) + lruLost
  /\ BytesOf(Small(ToSet(lruEntries), lruLimits[2])) <= lruLimits[2]
  /\ Len(lruEntries) <= lruLimits[1]

LEMMA SatSubIs ==
  ASSUME NEW a \in Nat, NEW b \in Nat, b <= a
  PROVE  SatSub(a, b) = a - b /\ SatSub(a, b) \in Nat
  BY DEF SatSub

LEMMA LimitsAre ==
  ASSUME NEW limits \in LruLimits
  PROVE  limits[1] \in Nat \ {0} /\ limits[2] \in Nat
  BY LruAssumption DEF LruAssumption

\* What a new value of a key leaves of the entries, and the bytes the cap drops.
LeftBeside(p, k, cap, others, dropped) ==
  IF OfKey(p, k) = {} /\ Len(p) = cap
  THEN others = Front(p) /\ dropped = Last(p).bytes
  ELSE others = WithoutKey(p, k) /\ dropped = 0

LEMMA OthersAre ==
  ASSUME NEW p \in Seq(LruEntry), OneOfAKey(p), IsFiniteSet(Pieces(ToSet(p))),
         NEW k, NEW cap \in Nat \ {0}, Len(p) <= cap,
         NEW others, NEW dropped, LeftBeside(p, k, cap, others, dropped)
  PROVE  /\ others \in Seq(LruEntry) /\ OneOfAKey(others) /\ ToSet(others) \subseteq ToSet(p)
         /\ Len(others) + 1 <= cap /\ \A f \in ToSet(others) : f.key # k
         /\ dropped \in Nat /\ BytesOf(ToSet(others)) \in Nat /\ BytesOf(OfKey(p, k)) \in Nat
         /\ BytesOf(ToSet(p)) = BytesOf(ToSet(others)) + BytesOf(OfKey(p, k)) + dropped
<1>0. OfKey(p, k) \subseteq ToSet(p) /\ Len(p) \in Nat
  BY DEF OfKey
<1>1. IsFiniteSet(Pieces(OfKey(p, k))) /\ BytesOf(OfKey(p, k)) \in Nat
  BY <1>0, FewerBytes
<1>2. CASE OfKey(p, k) = {} /\ Len(p) = cap
  <2>1. others = Front(p) /\ dropped = Last(p).bytes
    BY <1>2 DEF LeftBeside
  <2>2. PICK n : n = Len(p) - 1
    OBVIOUS
  <2>3. n \in 0..Len(p) /\ n + 1 = Len(p) /\ n \in Nat
    BY <1>2, <2>2
  <2>4. others = SubSeq(p, 1, n)
    BY <2>1, <2>2 DEF Front
  <2>5. others \in Seq(LruEntry) /\ Len(others) = n /\ OneOfAKey(others) /\ ToSet(others) \subseteq ToSet(p)
    BY <2>3, <2>4, PrefixOfEntries
  <2>6. PICK u : u = SubSeq(p, n + 1, Len(p))
    OBVIOUS
  <2>7. ToSet(p) = ToSet(others) \cup ToSet(u) /\ KeysApart(ToSet(others), ToSet(u))
    BY <2>3, <2>4, <2>6, SplitEntries
  <2>8. ToSet(u) = {Last(p)} /\ Last(p) \in LruEntry
    <3>1. u \in Seq(LruEntry) /\ Len(u) = 1 /\ u[1] = p[Len(p)] /\ p[Len(p)] \in LruEntry
      BY <1>2, <2>3, <2>6
    <3>2. \A x : x \in ToSet(u) <=> x = u[1]
      <4>1. u \in Seq(LruEntry) /\ Len(u) = 1
        BY <3>1
      <4>2. DOMAIN u = {1}
        BY <4>1
      <4> QED BY <4>2 DEF ToSet
    <3>3. Last(p) = p[Len(p)]
      BY DEF Last
    <3> QED BY <3>1, <3>2, <3>3
  <2>9. dropped \in Nat
    BY <2>1, <2>8, LruAssumption DEF LruEntry, LruAssumption
  <2>10. IsFiniteSet(Pieces(ToSet(others))) /\ BytesOf(ToSet(others)) \in Nat
    BY <2>5, FewerBytes
  <2>11. IsFiniteSet(Pieces(ToSet(u))) /\ BytesOf(ToSet(u)) = dropped
    BY <2>1, <2>8, <2>9, BytesOfOne
  <2>12. BytesOf(ToSet(p)) = BytesOf(ToSet(others)) + dropped
    BY <2>7, <2>10, <2>11, BytesTogether
  <2>13. BytesOf(OfKey(p, k)) = 0
    BY <1>2, NoBytes
  <2>14. \A f \in ToSet(others) : f.key # k
    BY <1>2, <2>5 DEF OfKey
  <2>15. Len(others) + 1 <= cap
    BY <1>2, <2>3, <2>5
  <2> QED BY <2>5, <2>9, <2>10, <2>12, <2>13, <2>14, <2>15
<1>3. CASE ~(OfKey(p, k) = {} /\ Len(p) = cap)
  <2>1. others = WithoutKey(p, k) /\ dropped = 0
    BY <1>3 DEF LeftBeside
  <2>2. /\ others \in Seq(LruEntry) /\ OneOfAKey(others)
        /\ ToSet(others) = ToSet(p) \ OfKey(p, k)
        /\ OfKey(p, k) = {} => others = p
        /\ OfKey(p, k) # {} => Len(others) = Len(p) - 1
    BY <2>1, WithoutEntry
  <2>3. Len(others) + 1 <= cap
    BY <1>0, <1>3, <2>2
  <2>4. \A f \in ToSet(others) : f.key # k
    BY <2>2 DEF OfKey
  <2>5. IsFiniteSet(Pieces(ToSet(others))) /\ BytesOf(ToSet(others)) \in Nat
    BY <2>2, FewerBytes
  <2>6. KeysApart(ToSet(others), OfKey(p, k))
    BY <2>4 DEF KeysApart, OfKey
  <2>7. ToSet(p) = ToSet(others) \cup OfKey(p, k)
    BY <1>0, <2>2
  <2>8. BytesOf(ToSet(p)) = BytesOf(ToSet(others)) + BytesOf(OfKey(p, k))
    BY <1>1, <2>5, <2>6, <2>7, BytesTogether
  <2> QED BY <1>1, <2>1, <2>2, <2>3, <2>4, <2>5, <2>8
<1> QED BY <1>2, <1>3

\* The new entry in front of the others.
LEMMA FrontEntry ==
  ASSUME NEW t \in Seq(LruEntry), OneOfAKey(t), IsFiniteSet(Pieces(ToSet(t))), NEW e \in LruEntry,
         \A f \in ToSet(t) : f.key # e.key, NEW u, u = <<e>> \o t
  PROVE  /\ u \in Seq(LruEntry) /\ Len(u) = Len(t) + 1 /\ OneOfAKey(u)
         /\ ToSet(u) = {e} \cup ToSet(t) /\ IsFiniteSet(Pieces(ToSet(u)))
         /\ e.bytes \in Nat /\ BytesOf(ToSet(u)) = e.bytes + BytesOf(ToSet(t))
<1>1. /\ u \in Seq(LruEntry) /\ Len(u) = Len(t) + 1 /\ OneOfAKey(u)
      /\ ToSet(u) = {e} \cup ToSet(t)
  BY ConsEntry
<1>2. e.bytes \in Nat
  BY LruAssumption DEF LruEntry, LruAssumption
<1>3. IsFiniteSet(Pieces({e})) /\ BytesOf({e}) = e.bytes
  BY <1>2, BytesOfOne
<1>4. KeysApart({e}, ToSet(t))
  BY DEF KeysApart
<1>5. /\ IsFiniteSet(Pieces({e} \cup ToSet(t)))
      /\ BytesOf({e} \cup ToSet(t)) = BytesOf({e}) + BytesOf(ToSet(t))
  BY <1>3, <1>4, BytesTogether
<1> QED BY <1>1, <1>2, <1>3, <1>5

LEMMA SmallIs ==
  ASSUME NEW S, NEW T, NEW budget, T \subseteq S, IsFiniteSet(Pieces(S))
  PROVE  /\ BytesOf(Small(T, budget)) \in Nat /\ BytesOf(Small(S, budget)) \in Nat
         /\ BytesOf(Small(T, budget)) <= BytesOf(Small(S, budget))
         /\ BytesOf(Small(S, budget)) <= BytesOf(S) /\ BytesOf(S) \in Nat
<1>1. Small(T, budget) \subseteq Small(S, budget) /\ Small(S, budget) \subseteq S
  BY DEF Small
<1>2. /\ IsFiniteSet(Pieces(Small(S, budget))) /\ BytesOf(Small(S, budget)) <= BytesOf(S)
      /\ BytesOf(Small(S, budget)) \in Nat /\ BytesOf(S) \in Nat
  BY <1>1, FewerBytes
<1>3. BytesOf(Small(T, budget)) \in Nat /\ BytesOf(Small(T, budget)) <= BytesOf(Small(S, budget))
  BY <1>1, <1>2, FewerBytes
<1> QED BY <1>2, <1>3

LEMMA LruPutInv ==
  ASSUME LruInv, NEW k \in LruKey, NEW bytes \in LruCost, LruPut(k, bytes)
  PROVE  LruInv'
<1>0. PICK s, cap, budget, lost, new :
        /\ s = lruEntries /\ cap = lruLimits[1] /\ budget = lruLimits[2] /\ lost = lruLost
        /\ new = [key |-> k, bytes |-> bytes]
  OBVIOUS
<1>1. /\ s \in Seq(LruEntry) /\ OneOfAKey(s) /\ IsFiniteSet(Pieces(ToSet(s)))
      /\ lruLimits \in LruLimits /\ lost \in Nat /\ lruBytes = BytesOf(ToSet(s)) + lost
      /\ BytesOf(Small(ToSet(s), budget)) <= budget /\ Len(s) <= cap
  BY <1>0 DEF LruInv, LruTyped
<1>2. cap \in Nat \ {0} /\ budget \in Nat /\ bytes \in Nat /\ new \in LruEntry
      /\ new.key = k /\ new.bytes = bytes
  BY <1>0, <1>1, LimitsAre, LruAssumption DEF LruAssumption, LruEntry
<1>3. PICK p : p = IF bytes < budget THEN PopUntil(s, lruBytes, budget - bytes) ELSE s
  OBVIOUS
<1>4. PICK left : left = SatSub(lruBytes, TotalBytes(s) - TotalBytes(p))
  OBVIOUS
<1>5. PICK others, dropped : LeftBeside(p, k, cap, others, dropped)
  BY DEF LeftBeside
<1>6. /\ lruEntries' = <<new>> \o others
      /\ lruBytes' = SatSub(left, BytesOf(OfKey(p, k))) + bytes
      /\ lruLost' = lost + dropped /\ lruLimits' = lruLimits
  BY <1>0, <1>3, <1>4, <1>5 DEF LruPut, LeftBeside
<1>7. /\ p \in Seq(LruEntry) /\ OneOfAKey(p) /\ Len(p) <= Len(s) /\ ToSet(p) \subseteq ToSet(s)
      /\ bytes < budget /\ p # <<>> => BytesOf(ToSet(p)) + lost <= budget - bytes
  <2>1. CASE bytes < budget
    <3>1. p = PopUntil(s, lruBytes, budget - bytes) /\ budget - bytes \in Int
      BY <1>2, <1>3, <2>1
    <3> QED BY <1>1, <3>1, PopUntilIs
  <2>2. CASE ~(bytes < budget)
    <3>1. p = s
      BY <1>3, <2>2
    <3> QED BY <1>1, <2>2, <3>1
  <2> QED BY <2>1, <2>2
<1>8. /\ IsFiniteSet(Pieces(ToSet(p))) /\ BytesOf(ToSet(p)) \in Nat /\ BytesOf(ToSet(s)) \in Nat
      /\ BytesOf(ToSet(p)) <= BytesOf(ToSet(s))
  BY <1>1, <1>7, FewerBytes
<1>9. Len(p) <= cap
  <2>1. Len(p) \in Nat /\ Len(s) \in Nat
    BY <1>1, <1>7
  <2> QED BY <1>1, <1>2, <1>7, <2>1
<1>10. left = BytesOf(ToSet(p)) + lost
  <2>1. left = SatSub(lruBytes, BytesOf(ToSet(s)) - BytesOf(ToSet(p)))
    BY <1>4 DEF TotalBytes
  <2>2. lruBytes \in Nat /\ BytesOf(ToSet(s)) - BytesOf(ToSet(p)) \in Nat
        /\ BytesOf(ToSet(s)) - BytesOf(ToSet(p)) <= lruBytes
    BY <1>1, <1>8
  <2>3. left = lruBytes - (BytesOf(ToSet(s)) - BytesOf(ToSet(p)))
    BY <2>1, <2>2, SatSubIs
  <2> QED BY <1>1, <1>8, <2>3
<1>11. /\ others \in Seq(LruEntry) /\ OneOfAKey(others) /\ ToSet(others) \subseteq ToSet(p)
       /\ Len(others) + 1 <= cap /\ \A f \in ToSet(others) : f.key # k
       /\ dropped \in Nat /\ BytesOf(ToSet(others)) \in Nat /\ BytesOf(OfKey(p, k)) \in Nat
       /\ BytesOf(ToSet(p)) = BytesOf(ToSet(others)) + BytesOf(OfKey(p, k)) + dropped
  <2>1. /\ p \in Seq(LruEntry) /\ OneOfAKey(p) /\ IsFiniteSet(Pieces(ToSet(p)))
        /\ cap \in Nat \ {0} /\ Len(p) <= cap
    BY <1>2, <1>7, <1>8, <1>9
  <2> QED BY ONLY <1>5, <2>1, OthersAre
<1>12. IsFiniteSet(Pieces(ToSet(others)))
  BY <1>8, <1>11, FewerBytes
<1>13. PICK u : u = <<new>> \o others
  OBVIOUS
<1>14. /\ u \in Seq(LruEntry) /\ Len(u) = Len(others) + 1 /\ OneOfAKey(u)
       /\ ToSet(u) = {new} \cup ToSet(others) /\ IsFiniteSet(Pieces(ToSet(u)))
       /\ BytesOf(ToSet(u)) = bytes + BytesOf(ToSet(others))
  BY <1>2, <1>11, <1>12, <1>13, FrontEntry
<1>15. lruBytes' = BytesOf(ToSet(u)) + (lost + dropped)
  <2>1. left \in Nat /\ BytesOf(OfKey(p, k)) <= left
    <3>1. PICK a, b, c : a = BytesOf(ToSet(p)) /\ b = BytesOf(ToSet(others)) /\ c = BytesOf(OfKey(p, k))
      OBVIOUS
    <3>2. /\ b \in Nat /\ c \in Nat /\ lost \in Nat /\ dropped \in Nat
          /\ a = b + c + dropped /\ left = a + lost
      BY <1>1, <1>10, <1>11, <3>1
    <3>3. left \in Nat /\ c <= left
      BY ONLY <3>2
    <3> QED BY <3>1, <3>3
  <2>2. SatSub(left, BytesOf(OfKey(p, k))) = left - BytesOf(OfKey(p, k))
    BY <1>11, <2>1, SatSubIs
  <2>3. PICK a, b, c : a = BytesOf(ToSet(p)) /\ b = BytesOf(ToSet(others)) /\ c = BytesOf(OfKey(p, k))
    OBVIOUS
  <2>4. /\ b \in Nat /\ c \in Nat /\ lost \in Nat /\ dropped \in Nat /\ bytes \in Nat
        /\ a = b + c + dropped /\ left = a + lost /\ lruBytes' = (left - c) + bytes
    BY <1>1, <1>2, <1>6, <1>10, <1>11, <2>2, <2>3
  <2>5. lruBytes' = (bytes + b) + (lost + dropped)
    BY ONLY <2>4
  <2> QED BY <1>14, <2>3, <2>5
<1>16. BytesOf(Small(ToSet(u), budget)) <= budget
  <2>1. CASE bytes < budget
    <3>1. BytesOf(ToSet(u)) <= budget
      <4>1. CASE p # <<>>
        <5>1. PICK a, b, c : a = BytesOf(ToSet(p)) /\ b = BytesOf(ToSet(others)) /\ c = BytesOf(OfKey(p, k))
          OBVIOUS
        <5>2. /\ b \in Nat /\ c \in Nat /\ lost \in Nat /\ dropped \in Nat /\ bytes \in Nat
              /\ budget \in Nat /\ a = b + c + dropped /\ a + lost <= budget - bytes
          BY <1>1, <1>2, <1>7, <1>11, <2>1, <4>1, <5>1
        <5>3. bytes + b <= budget
          BY ONLY <5>2
        <5> QED BY <1>14, <5>1, <5>3
      <4>2. CASE p = <<>>
        <5>1. ToSet(p) = {}
          BY <4>2 DEF ToSet
        <5>2. ToSet(others) = {}
          BY <1>11, <5>1
        <5>3. BytesOf(ToSet(others)) = 0
          BY <5>2, NoBytes
        <5> QED BY <1>2, <1>14, <2>1, <5>3
      <4> QED BY <4>1, <4>2
    <3>2. BytesOf(Small(ToSet(u), budget)) <= BytesOf(ToSet(u))
          /\ BytesOf(Small(ToSet(u), budget)) \in Nat /\ BytesOf(ToSet(u)) \in Nat
      BY <1>14, SmallIs
    <3> QED BY <1>2, <3>1, <3>2
  <2>2. CASE ~(bytes < budget)
    <3>1. Small(ToSet(u), budget) = Small(ToSet(others), budget)
      BY <1>2, <1>14, <2>2 DEF Small
    <3>2. ToSet(others) \subseteq ToSet(s)
      BY <1>7, <1>11
    <3>3. /\ BytesOf(Small(ToSet(others), budget)) <= BytesOf(Small(ToSet(s), budget))
          /\ BytesOf(Small(ToSet(others), budget)) \in Nat /\ BytesOf(Small(ToSet(s), budget)) \in Nat
      BY <1>1, <3>2, SmallIs
    <3> QED BY <1>1, <1>2, <3>1, <3>3
  <2> QED BY <2>1, <2>2
<1>17. lruEntries' = u /\ lruLimits'[1] = cap /\ lruLimits'[2] = budget /\ lruLost' = lost + dropped
  BY <1>0, <1>6, <1>13
<1>18. LruTyped'
  <2>1. lruLost' \in Nat
    BY <1>1, <1>11, <1>17
  <2>2. lruLimits' \in LruLimits
    BY <1>1, <1>6
  <2>3. /\ lruEntries' \in Seq(LruEntry) /\ OneOfAKey(lruEntries')
        /\ IsFiniteSet(Pieces(ToSet(lruEntries')))
    BY <1>14, <1>17
  <2> QED BY <2>1, <2>2, <2>3 DEF LruTyped
<1>19. lruBytes' = BytesOf(ToSet(lruEntries')) + lruLost'
  BY <1>15, <1>17
<1>20. BytesOf(Small(ToSet(lruEntries'), lruLimits'[2])) <= lruLimits'[2]
  BY <1>16, <1>17
<1>21. Len(lruEntries') <= lruLimits'[1]
  BY <1>11, <1>14, <1>17
<1> QED BY <1>18, <1>19, <1>20, <1>21 DEF LruInv

LEMMA LruGetInv ==
  ASSUME LruInv, NEW k \in LruKey, LruGet(k)
  PROVE  LruInv'
<1>0. PICK s : s = lruEntries
  OBVIOUS
<1>1. /\ s \in Seq(LruEntry) /\ OneOfAKey(s) /\ IsFiniteSet(Pieces(ToSet(s)))
  BY <1>0 DEF LruInv, LruTyped
<1>2. PICK hit \in OfKey(s, k) :
        /\ lruEntries' = <<hit>> \o WithoutKey(s, k)
        /\ UNCHANGED <<lruLimits, lruBytes, lruLost>>
  BY <1>0 DEF LruGet
<1>3. PICK t, u : t = WithoutKey(s, k) /\ u = <<hit>> \o t
  OBVIOUS
<1>4. /\ t \in Seq(LruEntry) /\ OneOfAKey(t) /\ ToSet(t) = ToSet(s) \ OfKey(s, k)
      /\ Len(t) = Len(s) - 1
  BY <1>1, <1>2, <1>3, WithoutEntry
<1>5. hit \in ToSet(s) /\ hit.key = k /\ hit \in LruEntry
  <2>1. hit \in ToSet(s) /\ hit.key = k
    BY <1>2 DEF OfKey
  <2>2. PICK i \in 1..Len(s) : hit = s[i]
    BY <1>1, <2>1, EntriesAre
  <2> QED BY <1>1, <2>1, <2>2
<1>6. \A f \in ToSet(t) : f.key # hit.key
  BY <1>4, <1>5 DEF OfKey
<1>7. IsFiniteSet(Pieces(ToSet(t)))
  BY <1>1, <1>4, FewerBytes
<1>8. /\ u \in Seq(LruEntry) /\ Len(u) = Len(t) + 1 /\ OneOfAKey(u)
      /\ ToSet(u) = {hit} \cup ToSet(t) /\ IsFiniteSet(Pieces(ToSet(u)))
  BY <1>3, <1>4, <1>5, <1>6, <1>7, FrontEntry
<1>9. OfKey(s, k) = {hit}
  <2>1. \A e \in ToSet(s) : \E i \in 1..Len(s) : e = s[i]
    BY <1>1, EntriesAre
  <2>2. \A e \in OfKey(s, k) : e = hit
    <3>1. SUFFICES ASSUME NEW e \in OfKey(s, k) PROVE e = hit
      OBVIOUS
    <3>2. e \in ToSet(s) /\ e.key = k
      BY <3>1 DEF OfKey
    <3>3. PICK i \in 1..Len(s), j \in 1..Len(s) : e = s[i] /\ hit = s[j]
      BY <1>5, <2>1, <3>2
    <3>4. i = j
      BY <1>1, <1>5, <3>2, <3>3 DEF OneOfAKey
    <3> QED BY <3>3, <3>4
  <2> QED BY <1>2, <2>2
<1>10. ToSet(u) = ToSet(s)
  BY <1>4, <1>5, <1>8, <1>9
<1>11. Len(u) = Len(s)
  BY <1>1, <1>4, <1>8
<1>12. lruEntries' = u
  BY <1>2, <1>3
<1> QED BY <1>0, <1>2, <1>8, <1>10, <1>11, <1>12 DEF LruInv, LruTyped

LEMMA LruPopInv ==
  ASSUME LruInv, NEW k \in LruKey, LruPop(k)
  PROVE  LruInv'
<1>0. PICK s, t, lost, budget : /\ s = lruEntries /\ t = WithoutKey(s, k) /\ lost = lruLost
                                /\ budget = lruLimits[2]
  OBVIOUS
<1>1. /\ s \in Seq(LruEntry) /\ OneOfAKey(s) /\ IsFiniteSet(Pieces(ToSet(s)))
      /\ lruLimits \in LruLimits /\ lost \in Nat /\ lruBytes = BytesOf(ToSet(s)) + lost
      /\ BytesOf(Small(ToSet(s), budget)) <= budget /\ Len(s) <= lruLimits[1]
  BY <1>0 DEF LruInv, LruTyped
<1>2. /\ lruEntries' = t /\ lruBytes' = SatSub(lruBytes, BytesOf(OfKey(s, k)))
      /\ lruLimits' = lruLimits /\ lruLost' = lost
  BY <1>0 DEF LruPop
<1>3. /\ t \in Seq(LruEntry) /\ OneOfAKey(t) /\ ToSet(t) = ToSet(s) \ OfKey(s, k)
      /\ OfKey(s, k) = {} => t = s
      /\ OfKey(s, k) # {} => Len(t) = Len(s) - 1
  BY <1>0, <1>1, WithoutEntry
<1>4. OfKey(s, k) \subseteq ToSet(s)
  BY DEF OfKey
<1>5. /\ IsFiniteSet(Pieces(ToSet(t))) /\ BytesOf(ToSet(t)) \in Nat
      /\ IsFiniteSet(Pieces(OfKey(s, k))) /\ BytesOf(OfKey(s, k)) \in Nat
  BY <1>1, <1>3, <1>4, FewerBytes
<1>6. BytesOf(ToSet(s)) = BytesOf(ToSet(t)) + BytesOf(OfKey(s, k))
  <2>1. ToSet(s) = ToSet(t) \cup OfKey(s, k)
    BY <1>3, <1>4
  <2>2. KeysApart(ToSet(t), OfKey(s, k))
    BY <1>3 DEF KeysApart, OfKey
  <2> QED BY <1>5, <2>1, <2>2, BytesTogether
<1>7. lruBytes' = BytesOf(ToSet(t)) + lost
  <2>1. lruBytes \in Nat /\ BytesOf(OfKey(s, k)) <= lruBytes
    BY <1>1, <1>5, <1>6
  <2>2. lruBytes' = lruBytes - BytesOf(OfKey(s, k))
    BY <1>2, <1>5, <2>1, SatSubIs
  <2> QED BY <1>1, <1>5, <1>6, <2>2
<1>8. BytesOf(Small(ToSet(t), budget)) <= budget
  <2>1. /\ BytesOf(Small(ToSet(t), budget)) <= BytesOf(Small(ToSet(s), budget))
        /\ BytesOf(Small(ToSet(t), budget)) \in Nat /\ BytesOf(Small(ToSet(s), budget)) \in Nat
    BY <1>1, <1>3, SmallIs
  <2>2. budget \in Nat
    BY <1>0, <1>1, LimitsAre
  <2> QED BY <1>1, <2>1, <2>2
<1>9. Len(t) <= lruLimits[1]
  <2>1. Len(t) \in Nat /\ Len(s) \in Nat /\ Len(t) <= Len(s) /\ lruLimits[1] \in Nat
    BY <1>1, <1>3, LimitsAre
  <2> QED BY <1>1, <2>1
<1> QED BY <1>0, <1>1, <1>2, <1>3, <1>5, <1>7, <1>8, <1>9 DEF LruInv, LruTyped

LEMMA LruResizeInv ==
  ASSUME LruInv, NEW limits \in LruLimits, LruResize(limits)
  PROVE  LruInv'
<1>0. PICK s, lost : s = lruEntries /\ lost = lruLost
  OBVIOUS
<1>1. /\ s \in Seq(LruEntry) /\ OneOfAKey(s) /\ IsFiniteSet(Pieces(ToSet(s)))
      /\ lost \in Nat /\ lruBytes = BytesOf(ToSet(s)) + lost /\ Len(s) \in Nat
  BY <1>0 DEF LruInv, LruTyped
<1>2. limits[1] \in Nat \ {0} /\ limits[2] \in Nat
  BY LimitsAre
<1>3. PICK n : n = IF limits[1] < Len(s) THEN limits[1] ELSE Len(s)
  OBVIOUS
<1>4. n \in 0..Len(s) /\ n <= limits[1] /\ n \in Nat
  BY <1>1, <1>2, <1>3
<1>5. PICK capped, kept : capped = SubSeq(s, 1, n) /\ kept = PopUntil(capped, lruBytes, limits[2])
  OBVIOUS
<1>6. /\ lruLimits' = limits /\ lruEntries' = kept
      /\ lruBytes' = SatSub(lruBytes, BytesOf(ToSet(capped)) - BytesOf(ToSet(kept)))
      /\ lruLost' = lost + (BytesOf(ToSet(s)) - BytesOf(ToSet(capped)))
  BY <1>0, <1>3, <1>5 DEF LruResize, TotalBytes
<1>7. /\ capped \in Seq(LruEntry) /\ Len(capped) = n /\ OneOfAKey(capped)
      /\ ToSet(capped) \subseteq ToSet(s)
  BY <1>1, <1>4, <1>5, PrefixOfEntries
<1>8. /\ IsFiniteSet(Pieces(ToSet(capped))) /\ BytesOf(ToSet(capped)) \in Nat
      /\ BytesOf(ToSet(s)) \in Nat /\ BytesOf(ToSet(capped)) <= BytesOf(ToSet(s))
  BY <1>1, <1>7, FewerBytes
<1>9. PICK more : more = lost + (BytesOf(ToSet(s)) - BytesOf(ToSet(capped)))
  OBVIOUS
<1>10. more \in Nat /\ lruBytes = BytesOf(ToSet(capped)) + more /\ limits[2] \in Int
  BY <1>1, <1>2, <1>8, <1>9
<1>11. /\ kept \in Seq(LruEntry) /\ OneOfAKey(kept) /\ Len(kept) <= Len(capped)
       /\ ToSet(kept) \subseteq ToSet(capped)
       /\ kept # <<>> => BytesOf(ToSet(kept)) + more <= limits[2]
  <2>1. /\ capped \in Seq(LruEntry) /\ OneOfAKey(capped) /\ IsFiniteSet(Pieces(ToSet(capped)))
        /\ more \in Nat /\ lruBytes = BytesOf(ToSet(capped)) + more /\ limits[2] \in Int
        /\ kept = PopUntil(capped, lruBytes, limits[2])
    BY <1>5, <1>7, <1>8, <1>10
  <2> QED BY ONLY <2>1, PopUntilIs
<1>12. /\ IsFiniteSet(Pieces(ToSet(kept))) /\ BytesOf(ToSet(kept)) \in Nat
       /\ BytesOf(ToSet(kept)) <= BytesOf(ToSet(capped))
  BY <1>8, <1>11, FewerBytes
<1>13. lruBytes' = BytesOf(ToSet(kept)) + more
  <2>1. lruBytes \in Nat /\ BytesOf(ToSet(capped)) - BytesOf(ToSet(kept)) \in Nat
        /\ BytesOf(ToSet(capped)) - BytesOf(ToSet(kept)) <= lruBytes
    BY <1>8, <1>10, <1>12
  <2>2. lruBytes' = lruBytes - (BytesOf(ToSet(capped)) - BytesOf(ToSet(kept)))
    BY <1>6, <2>1, SatSubIs
  <2> QED BY <1>8, <1>10, <1>12, <2>2
<1>14. BytesOf(Small(ToSet(kept), limits[2])) <= limits[2]
  <2>1. BytesOf(ToSet(kept)) <= limits[2]
    <3>1. CASE kept # <<>>
      BY <1>2, <1>10, <1>11, <1>12, <3>1
    <3>2. CASE kept = <<>>
      <4>1. ToSet(kept) = {}
        BY <3>2 DEF ToSet
      <4> QED BY <1>2, <4>1, NoBytes
    <3> QED BY <3>1, <3>2
  <2>2. BytesOf(Small(ToSet(kept), limits[2])) <= BytesOf(ToSet(kept))
        /\ BytesOf(Small(ToSet(kept), limits[2])) \in Nat
    BY <1>12, SmallIs
  <2> QED BY <1>2, <1>12, <2>1, <2>2
<1>15. Len(kept) <= limits[1]
  <2>1. Len(kept) \in Nat
    BY <1>11
  <2> QED BY <1>2, <1>4, <1>7, <1>11, <2>1
<1>16. lruLost' = more
  BY <1>6, <1>9
<1> QED BY <1>6, <1>10, <1>11, <1>12, <1>13, <1>14, <1>15, <1>16 DEF LruInv, LruTyped

LEMMA LruInitInv ==
  ASSUME LruInit
  PROVE  LruInv
<1>1. lruEntries = <<>> /\ lruLimits \in LruLimits /\ lruBytes = 0 /\ lruLost = 0
  BY DEF LruInit
<1>2. lruEntries \in Seq(LruEntry) /\ Len(lruEntries) = 0 /\ ToSet(lruEntries) = {}
  BY <1>1 DEF ToSet
<1>3. IsFiniteSet(Pieces(ToSet(lruEntries))) /\ BytesOf(ToSet(lruEntries)) = 0
  BY <1>2, NoBytes
<1>4. OneOfAKey(lruEntries)
  BY <1>2 DEF OneOfAKey
<1>5. lruLimits[1] \in Nat /\ lruLimits[2] \in Nat
  BY <1>1, LimitsAre
<1>6. BytesOf(Small(ToSet(lruEntries), lruLimits[2])) <= lruLimits[2]
  <2>1. Small(ToSet(lruEntries), lruLimits[2]) = {}
    BY <1>2 DEF Small
  <2> QED BY <1>5, <2>1, NoBytes
<1> QED BY <1>1, <1>2, <1>3, <1>4, <1>5, <1>6 DEF LruInv, LruTyped

LEMMA LruStepInv ==
  ASSUME LruInv, [LruNext]_lruVars
  PROVE  LruInv'
<1>1. ASSUME NEW k \in LruKey, NEW bytes \in LruCost, LruPut(k, bytes) PROVE LruInv'
  BY <1>1, LruPutInv
<1>2. ASSUME NEW k \in LruKey, LruGet(k) PROVE LruInv'
  BY <1>2, LruGetInv
<1>3. ASSUME NEW k \in LruKey, LruPop(k) PROVE LruInv'
  BY <1>3, LruPopInv
<1>4. ASSUME NEW limits \in LruLimits, LruResize(limits) PROVE LruInv'
  BY <1>4, LruResizeInv
<1>5. CASE UNCHANGED lruVars
  BY <1>5 DEF lruVars, LruInv, LruTyped
<1> QED BY <1>1, <1>2, <1>3, <1>4, <1>5 DEF LruNext

\* The counter of bytes is what is cached plus what the cap of entries pushed
\* out, and never less: no subtraction saturates (util/byte_capped_lru.rs).
THEOREM LruInvariant == LruSpec => []LruInv
  BY LruInitInv, LruStepInv, PTL DEF LruSpec

\* The cache keeps both its limits for any calls, costs and resizes, and its
\* counter is off by exactly what the cap of entries pushed out.
THEOREM LruIsSound == LruSpec => []LruSound
<1>1. LruInv => LruSound
  <2>1. SUFFICES ASSUME LruInv PROVE LruAccounting /\ BudgetHonoured
    BY DEF LruSound
  <2>2. LruAccounting
    BY <2>1 DEF LruInv, LruAccounting, TotalBytes
  <2>3. BytesOf({e \in ToSet(lruEntries) : e.bytes < lruLimits[2]}) <= lruLimits[2]
    BY <2>1 DEF LruInv, Small
  <2>4. DOMAIN lruEntries = 1..Len(lruEntries)
    BY <2>1 DEF LruInv, LruTyped
  <2> QED BY <2>1, <2>2, <2>3, <2>4 DEF LruInv, LruTyped, OneOfAKey, BudgetHonoured
<1> QED BY <1>1, LruInvariant, PTL
=============================================================================
