--------------------------- MODULE MinidumpUpload ---------------------------
(***************************************************************************)
(* A native crash from the client's last breadcrumb to the envelope the    *)
(* worker gets: ingest/minidump.rs, the unwind tables of ingest/cfi.rs and *)
(* build_envelope of api/minidump.rs.                                      *)
(*                                                                         *)
(* The client (external, as the module's documentation describes it) keeps *)
(* its breadcrumbs in two files that it fills in turn, and dies in between *)
(* or in the middle of one.  The server gets the files, the dump and what  *)
(* else the client sent as the parts of one request, in any order.  The    *)
(* stack walk itself is external: a dump is its walked threads.            *)
(***************************************************************************)
EXTENDS Integers, FiniteSets, Sequences, SequencesExt, TLC

CONSTANTS
  DumpCase,     \* crashes: [parts, threads, requesting, cpu, modules, dumpBytes, eventBytes]
  CfiRows,      \* rows of kind cfi: [row, debug, family, path]
  CrumbLimit,   \* breadcrumbs of one file
  MaxCrumbs,    \* bound: breadcrumbs a client writes
  MaxEnvelope   \* max_envelope_bytes

NilId == "nil"          \* a module without a debug identifier
NoFamily == "other"     \* a processor no tables are kept for
NoLevel == ""
NoId == ""

MinidumpAssumption ==
  /\ CrumbLimit \in Nat \ {0}
  /\ MaxEnvelope \in Nat
  /\ \A c \in DumpCase :
       /\ c.requesting \in 0..Len(c.threads)
       /\ c.dumpBytes \in Nat /\ c.eventBytes \in Nat
       /\ c.parts \in Seq(ToSet(c.parts))
       /\ \A part \in ToSet(c.parts) :
            /\ part.name \in {"dump", "event", "breadcrumb", "sentry", "file", "field"}
            /\ part.name = "breadcrumb" => part.file \in 1..2
            /\ part.name = "file" => part.bytes \in Nat
ASSUME MinidumpAssumption

VARIABLES
  crumbFiles,    \* the client's two files, a breadcrumb being its timestamp
  crumbActive,   \* the one it appends to
  crumbsWritten, \* breadcrumbs so far; also the time
  dump,          \* the crash that is coming, and its request: [case, step, next]
  upload,        \* MinidumpUpload, as far as it is parsed
  tables,        \* debug ids whose tables the walk may use
  cfiCache,      \* paths of parsed tables
  dumpEvent,     \* the synthesized event, or none
  envelope       \* what is persisted: the parts kept beside the event

crumbVars == <<crumbFiles, crumbActive, crumbsWritten>>
minidumpVars == <<crumbVars, dump, upload, tables, cfiCache, dumpEvent, envelope>>

NoSidecar == [is |-> "none"]
EmptyUpload == [dump |-> FALSE, sidecar |-> NoSidecar, crumbs |-> << <<>>, <<>> >>,
                attachments |-> <<>>, extra |-> <<>>]
NoEvent == <<>>

------------------------------------------------------------------------------
(* The client.                                                             *)

MinidumpInit ==
  /\ crumbFiles = << <<>>, <<>> >>
  /\ crumbActive = 1
  /\ crumbsWritten = 0
  /\ dump \in {[case |-> c, step |-> "running", next |-> 1] : c \in DumpCase}
  /\ upload = EmptyUpload
  /\ tables = {}
  /\ cfiCache \in SUBSET {r.path : r \in CfiRows}
  /\ dumpEvent = NoEvent
  /\ envelope = <<>>

MinidumpTypeOK ==
  /\ crumbActive \in 1..2
  /\ \A n \in 1..2 : Len(crumbFiles[n]) <= CrumbLimit
  /\ dump.step \in {"running", "parsing", "parsed", "loading", "loaded", "walked",
                    "stored", "rejected"}
  /\ tables \subseteq {r.debug : r \in CfiRows}
  /\ cfiCache \subseteq {r.path : r \in CfiRows}
  /\ Len(dumpEvent) <= 1

\* A full file makes the client start the other one over.
WriteCrumb ==
  LET full == Len(crumbFiles[crumbActive]) = CrumbLimit
      target == IF full THEN 3 - crumbActive ELSE crumbActive
  IN
  /\ dump.step = "running"
  /\ crumbsWritten < MaxCrumbs
  /\ crumbsWritten' = crumbsWritten + 1
  /\ crumbActive' = target
  /\ crumbFiles' = [crumbFiles EXCEPT ![target] =
                      Append(IF full THEN <<>> ELSE @, crumbsWritten + 1)]
  /\ UNCHANGED <<dump, upload, tables, cfiCache, dumpEvent, envelope>>

\* The process dies; what it was writing is cut off and is not decoded.  Its
\* request passes the checks of IngestAdmission.
ClientCrashes ==
  /\ dump.step = "running"
  /\ dump' = [dump EXCEPT !.step = "parsing"]
  /\ UNCHANGED <<crumbVars, upload, tables, cfiCache, dumpEvent, envelope>>

------------------------------------------------------------------------------
(* parse_multipart.                                                        *)

\* The sentry field is a client's older form of the event, used when no other
\* has come; what it holds is not checked.
ReadPart(up, part) ==
  CASE part.name = "dump" -> [up EXCEPT !.dump = TRUE]
    [] part.name = "event" ->
         [up EXCEPT !.sidecar = IF part.event.is = "object" THEN part.event ELSE NoSidecar]
    [] part.name = "breadcrumb" -> [up EXCEPT !.crumbs[part.file] = crumbFiles[part.file]]
    [] part.name = "sentry" ->
         [up EXCEPT !.sidecar = IF @ = NoSidecar THEN part.event ELSE @]
    [] part.name = "file" -> [up EXCEPT !.attachments = Append(@, part.bytes)]
    [] part.name = "field" -> [up EXCEPT !.extra = Append(@, part.field)]

ParsePart ==
  /\ dump.step = "parsing"
  /\ dump.next <= Len(dump.case.parts)
  /\ upload' = ReadPart(upload, dump.case.parts[dump.next])
  /\ dump' = [dump EXCEPT !.next = @ + 1]
  /\ UNCHANGED <<crumbVars, tables, cfiCache, dumpEvent, envelope>>

\* A request without a dump is refused.
EndParts ==
  /\ dump.step = "parsing"
  /\ dump.next > Len(dump.case.parts)
  /\ dump' = [dump EXCEPT !.step = IF upload.dump THEN "parsed" ELSE "rejected"]
  /\ UNCHANGED <<crumbVars, upload, tables, cfiCache, dumpEvent, envelope>>

------------------------------------------------------------------------------
(* DumpCfi::load.                                                          *)

\* Tables name registers: only those of the dump's processor family fit.  A
\* module without an identifier selects nothing.
FittingRows ==
  {r \in CfiRows :
     /\ r.family = dump.case.cpu
     /\ \E m \in ToSet(dump.case.modules) : m.debug # NilId /\ m.debug = r.debug}

\* select_rows: the first row of each module.
SelectedRows ==
  {r \in FittingRows : \A s \in FittingRows : s.debug = r.debug => r.row <= s.row}

\* A lookup that fails or exceeds the budget, or an unknown processor, leaves the
\* walk without tables.
LookUpTables ==
  /\ dump.step = "parsed"
  /\ \/ /\ tables' = {r.debug : r \in {s \in SelectedRows : s.path \in cfiCache}}
        /\ dump' = [dump EXCEPT !.step =
             IF SelectedRows = {} \/ dump.case.cpu = NoFamily THEN "loaded" ELSE "loading"]
     \/ tables' = {} /\ dump' = [dump EXCEPT !.step = "loaded"]
  /\ UNCHANGED <<crumbVars, upload, cfiCache, dumpEvent, envelope>>

\* What is not cached is parsed on a blocking thread.  Parsing that misses the
\* budget goes on and warms the cache; this walk does without it.
ParseTables ==
  /\ dump.step = "loading"
  /\ \E readable \in SUBSET {r \in SelectedRows : r.path \notin cfiCache} :
       /\ cfiCache' = cfiCache \cup {r.path : r \in readable}
       /\ \/ tables' = tables \cup {r.debug : r \in readable}
          \/ tables' = tables
  /\ dump' = [dump EXCEPT !.step = "loaded"]
  /\ UNCHANGED <<crumbVars, upload, dumpEvent, envelope>>

------------------------------------------------------------------------------
(* synthesize_event.                                                       *)

LastCrumb(crumbs) == IF crumbs = <<>> THEN 0 ELSE Last(crumbs)

AppendBreadcrumbs(first, second) == \* mutant: the files are taken in their order
  LET kept == IF Len(first) > Len(second) THEN Len(first) ELSE Len(second)
      all == first \o second
  IN  SubSeq(all, Len(all) - kept + 1, Len(all))

\* The file with the older end comes first; as many of the newest are kept as the
\* longer file holds.
MergeBreadcrumbs(first, second) ==
  LET all == IF LastCrumb(first) > LastCrumb(second) THEN second \o first ELSE first \o second
      kept == IF Len(first) > Len(second) THEN Len(first) ELSE Len(second)
  IN  SubSeq(all, Len(all) - kept + 1, Len(all))

\* The crashed thread's stack is on the exception, and nowhere else; the walker
\* yields the innermost frame first.
ThreadFrames(c, t) == Reverse(c.threads[t])
DumpThread(c, t) ==
  [crashed |-> t = c.requesting,
   frames |-> IF t = c.requesting THEN <<>> ELSE ThreadFrames(c, t)]
DumpException(c) ==
  [type |-> "minidump",
   frames |-> IF c.requesting = 0 THEN <<>> ELSE ThreadFrames(c, c.requesting)]

\* Modules without any identifier are no images.
DumpImages(c) == SelectSeq(c.modules, LAMBDA m : m.debug # NilId \/ m.code # NilId)

Sidecar(up) ==
  IF up.sidecar = NoSidecar
  THEN [is |-> "object", id |-> NoId, level |-> NoLevel, exceptions |-> <<>>, crumbs |-> <<>>,
        extra |-> <<>>]
  ELSE up.sidecar

\* The client's values stay, where they are; the first of equal fields wins.
FieldsOf(fields) ==
  [name \in {f[1] : f \in ToSet(fields)} |->
     LET same == SelectSeq(fields, LAMBDA f : f[1] = name) IN same[1][2]]

SynthesizedEvent(c, up) ==
  LET side == Sidecar(up) IN
  [id |-> IF side.id = NoId THEN "fresh" ELSE side.id,
   level |-> IF side.level = NoLevel THEN "fatal" ELSE side.level,
   exceptions |-> <<DumpException(c)>> \o side.exceptions,
   threads |-> [t \in DOMAIN c.threads |-> DumpThread(c, t)],
   images |-> DumpImages(c),
   crumbs |-> IF side.crumbs = <<>> THEN MergeBreadcrumbs(up.crumbs[1], up.crumbs[2])
              ELSE side.crumbs,
   extra |-> FieldsOf(side.extra \o up.extra)]

\* A dump that does not parse is refused; an event that is no object ends the
\* blocking task.
SynthesizeEvent ==
  /\ dump.step = "loaded"
  /\ \/ /\ Sidecar(upload).is = "object"
        /\ dumpEvent' = << SynthesizedEvent(dump.case, upload) >>
        /\ dump' = [dump EXCEPT !.step = "walked"]
     \/ dump' = [dump EXCEPT !.step = "rejected"] /\ UNCHANGED dumpEvent
  /\ UNCHANGED <<crumbVars, upload, tables, cfiCache, envelope>>

------------------------------------------------------------------------------
(* build_envelope.                                                         *)

DumpParts == <<dump.case.dumpBytes>> \o upload.attachments

\* The bytes of an event and the first of its parts.
EnvelopeBytes(event, parts, count) ==
  LET bytes[n \in 0..count] == IF n = 0 THEN event ELSE bytes[n - 1] + parts[n]
  IN  bytes[count]

\* The last part is dropped until the rest fits; the event stays in any case.
KeptParts(event, parts) ==
  LET kept[n \in 0..Len(parts)] ==
        IF n = 0 \/ EnvelopeBytes(event, parts, n) <= MaxEnvelope THEN n ELSE kept[n - 1]
  IN  kept[Len(parts)]

BuildEnvelope ==
  /\ dump.step = "walked"
  /\ envelope' = <<KeptParts(dump.case.eventBytes, DumpParts)>>
  /\ dump' = [dump EXCEPT !.step = "stored"]
  /\ UNCHANGED <<crumbVars, upload, tables, cfiCache, dumpEvent>>

MinidumpNext ==
  \/ WriteCrumb \/ ClientCrashes \/ ParsePart \/ EndParts \/ LookUpTables \/ ParseTables
  \/ SynthesizeEvent \/ BuildEnvelope

MinidumpSpec == MinidumpInit /\ [][MinidumpNext]_minidumpVars

------------------------------------------------------------------------------
(* Properties.                                                             *)

SendsBreadcrumbs ==
  \A n \in 1..2 : \E part \in ToSet(dump.case.parts) : part.name = "breadcrumb" /\ part.file = n

\* The event ends with the last thing the client did: its breadcrumbs are the
\* newest ones in order and without a gap, at least a file's worth of them,
\* wherever in its rotation the client died.
NewestBreadcrumbs ==
  dumpEvent # NoEvent /\ SendsBreadcrumbs /\ Sidecar(upload).crumbs = <<>> =>
    LET crumbs == dumpEvent[1].crumbs
        least == IF crumbsWritten < CrumbLimit THEN crumbsWritten ELSE CrumbLimit
    IN  /\ Len(crumbs) >= least
        /\ \A i \in DOMAIN crumbs : crumbs[i] = crumbsWritten - Len(crumbs) + i

\* The walk never uses tables of another processor family or of a module that is
\* not in the dump, also when tables were cached by earlier dumps.
TablesFitTheDump ==
  \A id \in tables :
    /\ \E m \in ToSet(dump.case.modules) : m.debug = id
    /\ \E r \in SelectedRows : r.debug = id /\ r.family = dump.case.cpu

\* The envelope fits its limit unless the event alone does not, and nothing was
\* dropped that would have fitted with what is before it; the dump goes last.
EnvelopeFits ==
  envelope # <<>> =>
    LET Bytes(count) == EnvelopeBytes(dump.case.eventBytes, DumpParts, count) IN
    /\ envelope[1] > 0 => Bytes(envelope[1]) <= MaxEnvelope
    /\ envelope[1] < Len(DumpParts) => Bytes(envelope[1] + 1) > MaxEnvelope

\* A crash reaches the worker as it happened: the newest breadcrumbs in order,
\* walked with tables of its own modules, in an envelope that the queue accepts
\* and that lost no more than it had to.
CrashReported == NewestBreadcrumbs /\ TablesFitTheDump /\ EnvelopeFits
=============================================================================
