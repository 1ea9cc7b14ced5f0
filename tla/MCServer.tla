------------------------------- MODULE MCServer -------------------------------
(***************************************************************************)
(* The components around the three queues, on small instances.  They share *)
(* no state, so a behaviour runs one of them (part) and leaves the others  *)
(* as they begin: the state spaces add up instead of multiplying.          *)
(***************************************************************************)
EXTENDS ArtifactStore, ReleaseFiles, ByteCappedLru, IngestAdmission, AlertRules,
        Migrations, LeaseHeartbeat, ChunkCollector, NativeFrames, MinidumpUpload,
        EventGrouping, EnvelopeItems

CONSTANTS k1, k2, k3   \* keys of a cache

VARIABLE part

------------------------------------------------------------------------------
(* Artifacts: a zip of the symbol route with an entry that does not        *)
(* convert, an assembly that names an age, and one that competes with both *)
(* and with a row of an older version.                                     *)

Binary(id, arch, quality, hash, unwind) ==
  [id |-> id, arch |-> arch, quality |-> quality, hash |-> hash, tables |-> unwind,
   sources |-> FALSE, parses |-> TRUE, anonymous |-> FALSE, converts |-> TRUE]
Guid(age) == <<"guid", age>>
Objects(objects) == [is |-> "objects", objects |-> objects]
Unconvertible(object) == [object EXCEPT !.converts = FALSE]

MCUploadFile ==
  ("zip" :> [is |-> "zip", objects |-> <<>>,
             entries |-> << [is |-> "directory"],
                            Objects(<<Binary(Guid(1), "x64", 1, 2, 6),
                                      Unconvertible(Binary(Guid(1), "arm", 1, 7, NoTables))>>) >>])
  @@ ("pair" :> Objects(<<Binary(Guid(1), "arm", 1, 5, NoTables),
                          Binary(Guid(2), "x64", 2, 4, 1)>>))
  @@ ("one" :> Objects(<<Binary(Guid(1), "arm", 1, 8, NoTables)>>))
MCHint == ("zip" :> NoHint) @@ ("pair" :> Guid(1)) @@ ("one" :> NoHint)
MCRoute == ("zip" :> "dsym") @@ ("pair" :> "assemble") @@ ("one" :> "assemble")
MCLegacy == {[debug |-> Guid(1), kind |-> "native", arch |-> "x64", quality |-> 1, hash |-> 3]}

------------------------------------------------------------------------------
(* A release: one field set, a map uploaded and deleted.                   *)

MCSanitizedPath == ("app.js.map" :> "p") @@ ("app?js.map" :> "p")
Operation(op, fields, name, content) ==
  [op |-> op, fields |-> fields, name |-> name, dist |-> "", content |-> content]
MCCallOp ==
  ("set url" :> Operation("update", {"url"}, "app.js.map", "a"))
  @@ ("upload" :> Operation("upload", {}, "app.js.map", "a"))
  @@ ("delete" :> Operation("delete", {}, "app.js.map", "a"))

MCLruLimits == {<<2, 4>>, <<3, 3>>}

------------------------------------------------------------------------------
(* Ingest: three keys that are counted, with room for two, and one that is *)
(* not; a browser that is allowed, one that is not and a crash handler.    *)

Sender(header, query, origin, route, body) ==
  [header |-> header, authorization |-> NoKey, query |-> query, project |-> "p1",
   origin |-> origin, route |-> route, body |-> body]
MCSends ==
  ("app" :> Sender("key1", "key2", "o1", "envelope", "ok"))
  @@ ("site" :> Sender("key1", NoKey, "o2", "envelope", "bomb"))
  @@ ("crash" :> Sender(NoKey, "key2", NoOrigin, "minidump", "garbled"))
MCKeyLimit == ("key1" :> 1) @@ ("key2" :> 2) @@ ("key3" :> 1) @@ ("free" :> 0)
MCKeyProject == [k \in DOMAIN MCKeyLimit |-> "p1"]

------------------------------------------------------------------------------
(* Alerts: a rule on an attribute and on two events in a window that is     *)
(* edited, deleted and created again on the way; events of the server's     *)
(* time and of a client whose clock is late.                                *)

MCAlertConditions ==
  {[kind |-> "threshold", threshold |-> 2, window |-> 2],
   [kind |-> "attribute", attribute |-> "level", match |-> "contains", value |-> <<"r", "r">>]}
MCFirstRules ==
  << [enabled |-> TRUE, frequency |-> 1, lastFired |-> Never,
      conditions |-> MCAlertConditions, actions |-> <<"webhook">>] >>
MCAlertInput ==
  ("create" :> [op |-> "create", rule |-> 1,
                fields |-> [frequency |-> 1, actions |-> <<>>, conditions |-> MCAlertConditions]])
  @@ ("update" :> [op |-> "update", rule |-> 1,
                   fields |-> [frequency |-> 2, actions |-> <<"webhook", "mail">>]])
  @@ ("delete" :> [op |-> "delete", rule |-> 1, fields |-> <<>>])
MCAlertEvents ==
  {[isNew |-> FALSE, isRegression |-> FALSE, attributes |-> [level |-> <<"e", "r", "r">>],
    timestamp |-> t] : t \in {<<>>, <<-1>>, <<-3>>}}

MCStatements == <<2, 1, 2>>

\* Two parts of one chunk, and one whose bytes are not what it claims.
MCChunkUpload ==
  ("first" :> [claims |-> 1, has |-> 1]) @@ ("again" :> [claims |-> 1, has |-> 1])
  @@ ("wrong" :> [claims |-> 2, has |-> 1])

------------------------------------------------------------------------------
(* Native frames: every way a client may report the addresses of a call    *)
(* path, and traces whose symbols are not on file.                         *)

Line(function, line) == [function |-> function, file |-> "a.c", line |-> line]
Guess(function) == [function |-> function, file |-> NoText, line |-> 0]
Program(arch) ==
  [arch |-> arch,
   ranges |-> << [from |-> 0, locations |-> <<Line("main", 1)>>],
                 [from |-> 4, locations |-> <<Line("main", 2)>>],
                 [from |-> 6, locations |-> <<Line("inlined", 7), Line("main", 3)>>],
                 [from |-> 8, locations |-> <<>>],
                 [from |-> 10, locations |-> <<Line("leaf", 4)>>] >>]
SymbolTable(arch) ==
  [arch |-> arch, ranges |-> << [from |-> 0, locations |-> <<Guess("main")>>],
                                [from |-> 8, locations |-> <<Guess("tail")>>] >>]
MCStoredCache ==
  ("debug" :> (("x64" :> Program("x64")) @@ ("arm" :> Program("arm"))))
  @@ ("old" :> ("" :> Program("x64"))) @@ ("symbols" :> ("x64" :> SymbolTable("x64")))
MCAlignment == ("x64" :> 1) @@ ("arm" :> 2)

ImageOf(id, arch, base) ==
  [index |-> 1, id |-> id, arch |-> arch, base |-> base, size |-> 20, system |-> FALSE]
NativeFrame(addr, mode, adjust, context, function) ==
  [addr |-> addr, mode |-> mode, adjust |-> adjust, context |-> context,
   function |-> function, file |-> NoText, line |-> 0, inApp |-> <<>>]
NativeTrace(frames, adjust, register) ==
  [frames |-> frames, adjust |-> adjust, register |-> register]
CrashEvent(traces, image, signal, program, calls) ==
  [traces |-> traces, images |-> <<ImageOf(NoText, "x64", 100), image>>, signal |-> signal,
   program |-> program, calls |-> calls, sent |-> [t \in DOMAIN traces |-> traces[t].frames]]

Reports == {"auto", "none", "all", "all_but_first", "adjusted", "innermost", "context", "register"}
Base == 16

\* The frames whose addresses are exact; the others' are return addresses.
SentExact(how, i, n) ==
  \/ how \in {"none", "adjusted"}
  \/ how \in {"auto", "all_but_first", "innermost"} /\ i = n
  \/ how = "context" /\ i \in {1, n}

ReportedFrames(how, mode, arch, path) ==
  [i \in DOMAIN path |->
     NativeFrame((IF mode = <<"absolute">> THEN Base ELSE 0) + path[i]
                   + (IF SentExact(how, i, Len(path)) THEN 0 ELSE MCAlignment[arch]),
                 mode,
                 CASE how = "adjusted" -> <<FALSE>>
                   [] how = "innermost" /\ i = Len(path) -> <<FALSE>>
                   [] OTHER -> <<>>,
                 how = "context" /\ i = 1, NoText)]
Reported(how, mode, arch, path) ==
  CrashEvent(<<NativeTrace(ReportedFrames(how, mode, arch, path),
                           IF how \in {"none", "all", "all_but_first"} THEN how ELSE "",
                           IF how = "register" THEN 1 ELSE NoAddress)>>,
             ImageOf("debug", arch, Base), IF how = "register" THEN "crash" ELSE "none",
             Program(arch), <<path>>)

OneFrame(adjust, addr, mode, function) ==
  NativeTrace(<<NativeFrame(addr, mode, adjust, FALSE, function)>>, "", NoAddress)
LeftAlone(image, traces) ==
  CrashEvent(traces, image, "none", NoCache, [t \in DOMAIN traces |-> <<>>])

MCNativeEvents ==
  {Reported(how, mode, "x64", <<3, 7, 10>>) :
     how \in Reports, mode \in {<<"absolute">>, <<"id", "debug">>, <<"index", 1>>}}
  \cup {Reported(how, <<"absolute">>, "arm", <<4, 6, 10>>) : how \in Reports}
  \cup {CrashEvent(<<OneFrame(<<>>, 6, <<"id", "old">>, NoText),
                     OneFrame(<<TRUE>>, 11, <<"id", "old">>, "client")>>,
                   ImageOf("old", "x64", NoBase), "none", Program("x64"), << <<6>>, <<11>> >>),
        LeftAlone(ImageOf("debug", AnyArch, Base),
                  <<OneFrame(<<>>, Base + 3, <<"absolute">>, "client")>>),
        LeftAlone(ImageOf("old", "arm", Base),
                  <<OneFrame(<<>>, Base + 3, <<"absolute">>, "client")>>),
        LeftAlone(ImageOf("symbols", "x64", Base),
                  <<OneFrame(<<>>, Base + 3, <<"absolute">>, "client"),
                    OneFrame(<<>>, Base + 12, <<"absolute">>, NoText),
                    OneFrame(<<>>, Base + 3, <<"index", 0>>, NoText),
                    OneFrame(<<>>, BadAddress, <<"absolute">>, NoText)>>),
        LeftAlone(ImageOf("unknown", "x64", Base),
                  <<OneFrame(<<>>, Base + 3, <<"absolute">>, NoText)>>),
        LeftAlone(ImageOf("debug", "x64", Base),
                  <<OneFrame(<<>>, NoAddress, <<"absolute">>, NoText)>>)}

------------------------------------------------------------------------------
(* Minidumps: with both of a client's files, with a field in the place of  *)
(* its event, and without a dump.                                          *)

CrumbPart(n) == [name |-> "breadcrumb", file |-> n]
Event(is, id, level) ==
  [is |-> is, id |-> id, level |-> level, crumbs |-> <<>>, extra |-> << <<"guid", "own">> >>,
   exceptions |-> << [type |-> "sent", frames |-> <<>>] >>]
MCPartLists ==
  {<<CrumbPart(1), [name |-> "event", event |-> Event("object", "e1", "error")], CrumbPart(2),
     [name |-> "dump"], [name |-> "file", bytes |-> 1], [name |-> "file", bytes |-> 2]>>,
   <<CrumbPart(2), [name |-> "dump"], CrumbPart(1),
     [name |-> "sentry", event |-> Event("other", NoId, NoLevel)],
     [name |-> "field", field |-> <<"guid", "crashpad">>]>>,
   <<[name |-> "file", bytes |-> 2]>>}
MCDumps ==
  {[parts |-> parts, threads |-> << <<3, 2, 1>>, <<5, 4>> >>, requesting |-> crashed,
    cpu |-> cpu, dumpBytes |-> 3, eventBytes |-> bytes,
    modules |-> <<[debug |-> "m1", code |-> "c1"], [debug |-> NilId, code |-> NilId],
                  [debug |-> "m2", code |-> NilId]>>] :
     parts \in MCPartLists, crashed \in {0, 2}, cpu \in {"amd64", NoFamily}, bytes \in {2, 4}}
MCCfiRows ==
  {[row |-> 1, debug |-> "m1", family |-> "arm64", path |-> "arm64"],
   [row |-> 2, debug |-> "m1", family |-> "amd64", path |-> "amd64"],
   [row |-> 3, debug |-> "m2", family |-> "amd64", path |-> "other amd64"]}

------------------------------------------------------------------------------
(* Grouping: four causes of hangs under different waits, errors with and   *)
(* without a stack, obfuscated builds, messages, fingerprints of clients.  *)

HangStackFrame(image, function, inApp) ==
  [image |-> image, function |-> function, file |-> <<"a.c">>, inApp |-> inApp]
Redacted(image) == HangStackFrame(<<image>>, <<"<redacted>">>, FALSE)
EngineFrame(function) == HangStackFrame(<<"engine">>, <<function>>, FALSE)
MainFrame == HangStackFrame(<<"app">>, <<"main">>, TRUE)

ErrorOf(cause, type, value, frames) ==
  [cause |-> cause, fingerprint |-> <<>>, mechanism |-> "", sdk |-> "", images |-> {},
   exceptions |-> << [type |-> type, value |-> value, frames |-> frames] >>,
   message |-> Nothing, logger |-> Nothing, level |-> Nothing, platform |-> Nothing,
   transaction |-> <<"/">>]
HangOf(cause, frames) ==
  [ErrorOf(cause, <<"Hang">>, <<"2 s">>, frames) EXCEPT !.mechanism = "AppHang"]
DartError(cause, build, symbol) ==
  [ErrorOf(cause, <<symbol>>, <<"Instance of", symbol>>, <<>>) EXCEPT
     !.sdk = "sentry.dart", !.images = {build}]
MessageOf(text) == [ErrorOf(text, Nothing, Nothing, <<>>) EXCEPT !.exceptions = <<>>,
                                                                 !.message = <<text>>]
HangStacks ==
  ("draw" :> <<MainFrame, Redacted("AppKit"), EngineFrame("draw")>>)
  @@ ("quit" :> <<MainFrame, EngineFrame("quit"), Redacted("AppKit")>>)
  @@ ("window" :> <<MainFrame, HangStackFrame(Nothing, Nothing, FALSE), Redacted("SkyLight")>>)
  @@ ("load" :> <<MainFrame, HangStackFrame(<<"app">>, <<"load">>, TRUE)>>)
Waits == {<<>>, <<Redacted("libdispatch")>>, <<EngineFrame("poll"), Redacted("libdispatch")>>}
LibraryFrame(name) == HangStackFrame(Nothing, <<name>>, FALSE)
AppFrame(name) == HangStackFrame(Nothing, <<name>>, TRUE)

MCGroupEvents ==
  {HangOf(cause, HangStacks[cause] \o wait) : cause \in DOMAIN HangStacks, wait \in Waits}
  \cup {ErrorOf("save", <<"Error">>, <<value>>, <<LibraryFrame(library), AppFrame("save")>>) :
          value \in {"a", "b"}, library \in {"old", "new"}}
  \cup {ErrorOf("open", <<"Error">>, <<"a">>, <<LibraryFrame("old"), AppFrame("open")>>),
        DartError("StateError", "build1", "aB"), DartError("StateError", "build2", "xY"),
        DartError("RangeError", "build2", "aB"),
        MessageOf("hello"),
        [MessageOf("hello") EXCEPT !.fingerprint = << <<"{{ default }}">> >>],
        [MessageOf("custom") EXCEPT !.fingerprint = << <<"custom">> >>],
        [MessageOf("none") EXCEPT !.message = Nothing]}
MCDartMaps ==
  {[debug |-> "build1", pairs |-> << <<"StateError", "aB">> >>],
   [debug |-> "build2", pairs |-> << <<"RangeError", "aB">>, <<"StateError", "xY">> >>]}
MCWaitImages == {<<"libdispatch">>}
MCWaitFunctions == {<<"poll">>}

------------------------------------------------------------------------------
(* The items of three envelopes: values of one key beyond its cap, two tags *)
(* that read the same when joined, items that cannot be parsed.            *)

EventItem(id, tags, release, hour) ==
  [is |-> "event", parses |-> TRUE,
   event |-> [id |-> id, tags |-> tags, auto |-> << << <<"release">>, release >> >>,
              hour |-> hour]]
TransactionItem(from, to, status) ==
  [is |-> "transaction", parses |-> TRUE, group |-> "GET /", start |-> from, end |-> to,
   status |-> status]
Unparseable(item) == [item EXCEPT !.parses = FALSE]
Tag(value) == << <<"k">>, value >>

MCItemsOf ==
  ("mixed" :> <<TransactionItem(1, 3, "ok"),
                EventItem("ev1", <<Tag(<<"a">>), Tag(<<"c", ":", "d">>), Tag(NotText),
                                   << <<"k", ":", "c">>, <<"d">> >>>>, NoTag, 1),
                Unparseable(TransactionItem(0, 0, "ok")), [is |-> "user_report"]>>)
  @@ ("skewed" :> <<EventItem("ev2", <<Tag(<<"b">>), Tag(<<"a">>), Tag(<<>>)>>, <<"v1">>, 2),
                    TransactionItem(2, 1, "aborted")>>)
  @@ ("broken" :> <<Unparseable(EventItem("ev3", <<>>, NoTag, 1))>>)

------------------------------------------------------------------------------
(* One component at a time.                                                *)

ServerVars ==
  <<artifactVars, releaseVars, lruVars, ingestVars, alertVars, migrationVars, heartbeatVars,
    chunkVars, nativeVars, minidumpVars, grouped, itemVars, part>>

\* The first state of a component that does not run, where it has several.
Elsewhere(name, condition) == part # name => condition

\* The lease task of a job that is over.
JobOver ==
  /\ writerQueue = <<>>
  /\ conversion = "finished"
  /\ leaseTask = "returned"
  /\ leaseHeld = TRUE
  /\ leaseResult = "result"
  /\ storesLeft = 0
  /\ beatsLeft = 0

ServerInit ==
  /\ part \in {"artifacts", "release", "cache", "limiter", "ingest", "alerts", "migrations",
               "heartbeat", "chunks", "native", "minidump", "grouping", "items"}
  /\ ArtifactInit /\ ReleaseInit /\ AlertInit /\ MigrationInit /\ GroupingInit /\ ItemInit
  /\ LruInit /\ Elsewhere("cache", lruLimits = <<2, 4>>)
  /\ IngestInit /\ Elsewhere("ingest", \A p \in Project : allowed[p] = {})
  /\ ChunkInit /\ Elsewhere("chunks", \A h \in ChunkHash : chunkFile[h] = Gone)
  /\ IF part = "heartbeat" THEN HeartbeatInit ELSE JobOver
  /\ NativeInit /\ Elsewhere("native", nativeEvent = CHOOSE e \in NativeEvent : TRUE)
  /\ MinidumpInit /\ Elsewhere("minidump", /\ dump.case = CHOOSE c \in DumpCase : TRUE
                                           /\ cfiCache = {})

Runs(name) == part = name /\ UNCHANGED part

ServerNext ==
  \/ /\ Runs("artifacts") /\ ArtifactNext
     /\ UNCHANGED <<releaseVars, lruVars, ingestVars, alertVars, migrationVars, heartbeatVars,
                    chunkVars, nativeVars, minidumpVars, grouped, itemVars>>
  \/ /\ Runs("release") /\ ReleaseNext
     /\ UNCHANGED <<artifactVars, lruVars, ingestVars, alertVars, migrationVars, heartbeatVars,
                    chunkVars, nativeVars, minidumpVars, grouped, itemVars>>
  \/ /\ Runs("cache") /\ LruNext
     /\ UNCHANGED <<artifactVars, releaseVars, ingestVars, alertVars, migrationVars,
                    heartbeatVars, chunkVars, nativeVars, minidumpVars, grouped, itemVars>>
  \/ /\ Runs("limiter") /\ RateNext
     /\ UNCHANGED <<artifactVars, releaseVars, lruVars, alertVars, migrationVars, heartbeatVars,
                    chunkVars, nativeVars, minidumpVars, grouped, itemVars, keyActive, allowed,
                    originCache, ingest, pastLists, ingestEdits>>
  \/ /\ Runs("ingest") /\ IngestNext
     /\ UNCHANGED <<artifactVars, releaseVars, lruVars, alertVars, migrationVars, heartbeatVars,
                    chunkVars, nativeVars, minidumpVars, grouped, itemVars>>
  \/ /\ Runs("alerts") /\ AlertNext
     /\ UNCHANGED <<artifactVars, releaseVars, lruVars, ingestVars, migrationVars, heartbeatVars,
                    chunkVars, nativeVars, minidumpVars, grouped, itemVars>>
  \/ /\ Runs("migrations") /\ MigrationNext
     /\ UNCHANGED <<artifactVars, releaseVars, lruVars, ingestVars, alertVars, heartbeatVars,
                    chunkVars, nativeVars, minidumpVars, grouped, itemVars>>
  \/ /\ Runs("heartbeat") /\ HeartbeatNext
     /\ UNCHANGED <<artifactVars, releaseVars, lruVars, ingestVars, alertVars, migrationVars,
                    chunkVars, nativeVars, minidumpVars, grouped, itemVars>>
  \/ /\ Runs("chunks") /\ ChunkNext
     /\ UNCHANGED <<artifactVars, releaseVars, lruVars, ingestVars, alertVars, migrationVars,
                    heartbeatVars, nativeVars, minidumpVars, grouped, itemVars>>
  \/ /\ Runs("native") /\ NativeNext
     /\ UNCHANGED <<artifactVars, releaseVars, lruVars, ingestVars, alertVars, migrationVars,
                    heartbeatVars, chunkVars, minidumpVars, grouped, itemVars>>
  \/ /\ Runs("minidump") /\ MinidumpNext
     /\ UNCHANGED <<artifactVars, releaseVars, lruVars, ingestVars, alertVars, migrationVars,
                    heartbeatVars, chunkVars, nativeVars, grouped, itemVars>>
  \/ /\ Runs("grouping") /\ GroupingNext
     /\ UNCHANGED <<artifactVars, releaseVars, lruVars, ingestVars, alertVars, migrationVars,
                    heartbeatVars, chunkVars, nativeVars, minidumpVars, itemVars>>
  \/ /\ Runs("items") /\ ItemNext
     /\ UNCHANGED <<artifactVars, releaseVars, lruVars, ingestVars, alertVars, migrationVars,
                    heartbeatVars, chunkVars, nativeVars, minidumpVars, grouped>>

\* Only the heartbeat has a property of progress.
ServerSpec == ServerInit /\ [][ServerNext]_ServerVars /\ HeartbeatFairness

\* The types of every component: the state that each module's own invariants,
\* and its code, rely on.
ServerTypeOK ==
  /\ ArtifactTypeOK /\ ReleaseTypeOK /\ LruTypeOK /\ RateTypeOK /\ IngestTypeOK
  /\ AlertTypeOK /\ MigrationTypeOK /\ HeartbeatTypeOK /\ ChunkTypeOK /\ NativeTypeOK
  /\ MinidumpTypeOK /\ GroupingTypeOK /\ ItemTypeOK
=============================================================================
