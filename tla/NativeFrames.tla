---------------------------- MODULE NativeFrames ----------------------------
(***************************************************************************)
(* Symbolication of native stack traces, worker/native_symbolication.rs.   *)
(*                                                                         *)
(* A stack trace arrives caller first, with the addresses its client saw:  *)
(* the callers' are return addresses, one instruction behind the call,     *)
(* unless the client says otherwise.  Each frame is looked up in the       *)
(* symbol cache of its image and replaced by one frame per inlined call.   *)
(* A symbol cache is the sequence of its ranges: the lookup of an address  *)
(* finds the last range that begins at or before it.                       *)
(***************************************************************************)
EXTENDS Integers, FiniteSets, Sequences, SequencesExt

CONSTANTS
  NativeEvent,  \* events: [traces, images, signal], and what ran: [program, calls, sent]
  StoredCache,  \* StoredCache[id][arch]: the cache a row names, or NoCache
  Alignment,    \* Alignment[arch]: size of an instruction of an architecture
  FirstPage     \* addresses below are never code

NoCache == [arch |-> "none", ranges |-> <<>>]
NoAddress == -1       \* the frame has no address
BadAddress == -2      \* it has one that is no number
NoBase == -1          \* the image is not loaded at an address
NoText == ""
AnyArch == ""         \* a row or an image without an architecture

VARIABLES
  nativeEvent,   \* the event: its traces are replaced one by one
  nativeTrace,   \* the trace to be symbolicated next
  nativeRows,    \* what load_dif_rows read: <<>> before
  nativeOutcome  \* [state, resolved, total]

nativeVars == <<nativeEvent, nativeTrace, nativeRows, nativeOutcome>>

HasAddress(f) == f.addr # NoAddress

------------------------------------------------------------------------------
(* Where a frame is looked up.                                             *)

\* parse_images passes over images without a debug id but keeps the positions.
ParsedImages(images) == {i \in DOMAIN images : images[i].id # NoText}

InImage(addr, image) ==
  /\ image.base # NoBase
  /\ addr >= image.base
  /\ image.size = 0 \/ addr < image.base + image.size

\* The first of some images, and the address in it.
FirstImage(images, Test(_), relative(_)) ==
  LET found == {i \in ParsedImages(images) : Test(images[i])}
      first == images[CHOOSE i \in found : \A j \in found : i <= j]
  IN  IF found = {} THEN <<>> ELSE << [image |-> first, relative |-> relative(first)] >>

\* locate: the reference of an address mode is tried as a debug id, then as a
\* position; one that is neither leaves the address absolute.
Locate(f, images) ==
  LET ByReference(image) == \/ f.mode[1] = "id" /\ image.id = f.mode[2]
                            \/ f.mode[1] = "index" /\ image.index = f.mode[2]
      referred == FirstImage(images, ByReference, LAMBDA image : f.addr)
  IN  IF referred # <<>> \/ f.mode[1] = "index" THEN referred
      ELSE FirstImage(images, LAMBDA image : InImage(f.addr, image),
                      LAMBDA image : f.addr - image.base)

\* Without an architecture no slice is preferred to another.
CandidateCache(rows, image) ==
  IF image.id \notin DOMAIN rows THEN NoCache
  ELSE LET caches == rows[image.id] IN
       CASE image.arch # AnyArch /\ image.arch \in DOMAIN caches -> caches[image.arch]
         [] image.arch # AnyArch /\ image.arch \notin DOMAIN caches
              /\ AnyArch \in DOMAIN caches -> caches[AnyArch]
         [] image.arch = AnyArch /\ Cardinality(DOMAIN caches) = 1 ->
              caches[CHOOSE arch \in DOMAIN caches : TRUE]
         [] OTHER -> NoCache

\* The cache must be of the image's architecture, whatever its row says.
UsableCache(cache, image) ==
  cache # NoCache /\ (image.arch # AnyArch => cache.arch = image.arch)

------------------------------------------------------------------------------
(* Return addresses.                                                       *)

Innermost(frames) ==
  LET addressed == {i \in DOMAIN frames : HasAddress(frames[i])} IN
  IF addressed = {} THEN 0 ELSE CHOOSE i \in addressed : \A j \in addressed : j <= i

\* What the client says of a frame: <<>> or <<whether to adjust it>>.
ExplicitAdjustment(trace, i) ==
  CASE trace.adjust = "none" -> <<FALSE>>
    [] trace.adjust = "all" /\ i = Innermost(trace.frames) -> <<TRUE>>
    [] trace.adjust = "all_but_first" /\ i = Innermost(trace.frames) -> <<FALSE>>
    [] OTHER -> trace.frames[i].adjust

\* caller_adjustments: as soon as one frame says something, the others are
\* return addresses.
CallerAdjustment(trace, i) ==
  LET explicit == ExplicitAdjustment(trace, i) IN
  CASE explicit = <<TRUE>> -> "yes"
    [] explicit = <<FALSE>> -> "no"
    [] OTHER -> IF \E j \in DOMAIN trace.frames :
                     HasAddress(trace.frames[j]) /\ ExplicitAdjustment(trace, j) # <<>>
                THEN "yes" ELSE "auto"

\* A context frame holds the exact program counter wherever it is.
IsCrashing(trace, i) == i = Innermost(trace.frames) \/ trace.frames[i].context

AlignedAddress(addr, arch) == addr - (addr % Alignment[arch])
PreviousAddress(addr, arch) == AlignedAddress(addr, arch) - Alignment[arch]

AutoCaller(addr, arch, crashing, signal, register) == \* mutant: every frame is a caller
  PreviousAddress(addr, arch)

\* InstructionInfo::caller_address: the crashing frame is exact, unless a crash
\* signal came with another program counter in the registers.
AutoAddress(addr, arch, crashing, signal, register) ==
  IF crashing /\ ~(signal = "crash" /\ register # NoAddress /\ register # addr)
  THEN AlignedAddress(addr, arch) ELSE PreviousAddress(addr, arch)

\* caller_lookup_addr: an image without a load address gives no absolute address
\* to adjust.
LookupAddress(cache, image, relative, trace, i, signal) ==
  LET absolute == image.base + relative
      crashing == IsCrashing(trace, i)
      adjusted == CASE CallerAdjustment(trace, i) = "yes" -> PreviousAddress(absolute, cache.arch)
                    [] CallerAdjustment(trace, i) = "no" -> AlignedAddress(absolute, cache.arch)
                    [] OTHER -> AutoAddress(absolute, cache.arch, crashing, signal,
                                            trace.register)
  IN  IF image.base \in {NoBase, 0} \/ absolute < FirstPage THEN relative
      ELSE adjusted - image.base

------------------------------------------------------------------------------
(* Symbols.                                                                *)

\* The locations of an address, the innermost inlined call first.
LookupSymbols(cache, addr) ==
  LET before == SelectSeq(cache.ranges, LAMBDA range : range.from <= addr) IN
  IF before = <<>> THEN <<>> ELSE Last(before).locations

HasDebugInfo(locations) ==
  \/ Len(locations) > 1
  \/ \E i \in DOMAIN locations : locations[i].line > 0 \/ locations[i].file # NoText

HasClientFunction(f) == f.function \notin {NoText, "<redacted>"}

\* An unsized last symbol claims every address behind it.
InOpenTail(cache, hit) ==
  LET tail == Last(cache.ranges).locations IN
  tail # <<>> /\ tail[1].function = hit.function

\* A name from a symbol table is a guess: no better than the client's.
Trusted(f, cache, locations) ==
  /\ locations # <<>>
  /\ \/ HasDebugInfo(locations)
     \/ ~HasClientFunction(f) /\ ~InOpenTail(cache, locations[1])

\* resolve_frame: <<>> or << [image, locations] >>.
ResolveFrame(trace, i, images, rows, signal) ==
  LET f == trace.frames[i]
      located == Locate(f, images)
  IN  IF f.addr = BadAddress \/ located = <<>> THEN <<>>
      ELSE LET image == located[1].image
               cache == CandidateCache(rows, image)
           IN  IF ~UsableCache(cache, image) THEN <<>>
               ELSE LET found == LookupSymbols(cache, LookupAddress(cache, image,
                                   located[1].relative, trace, i, signal))
                    IN  IF Trusted(f, cache, found)
                        THEN << [image |-> image, locations |-> found] >> ELSE <<>>

\* The client's file and line go with the name it guessed.
ApplyLocation(f, location, image) ==
  [f EXCEPT !.function = location.function, !.file = location.file, !.line = location.line,
            !.inApp = IF @ = <<>> THEN <<~image.system>> ELSE @]

\* push_resolved: the outermost function first, the innermost call in the place
\* of the frame.
ExpandFrame(trace, i, images, rows, signal) ==
  LET found == IF HasAddress(trace.frames[i])
               THEN ResolveFrame(trace, i, images, rows, signal) ELSE <<>>
  IN  IF found = <<>> THEN <<trace.frames[i]>>
      ELSE [n \in DOMAIN found[1].locations |->
              ApplyLocation(trace.frames[i], Reverse(found[1].locations)[n], found[1].image)]

\* symbolicate_stacktrace
SymbolicateTrace(trace, images, rows, signal) ==
  [trace EXCEPT !.frames =
     FlattenSeq([i \in DOMAIN trace.frames |-> ExpandFrame(trace, i, images, rows, signal)])]

ResolvedIn(trace, images, rows, signal) ==
  Cardinality({i \in DOMAIN trace.frames :
    HasAddress(trace.frames[i]) /\ ResolveFrame(trace, i, images, rows, signal) # <<>>})

------------------------------------------------------------------------------
(* symbolicate_native.                                                     *)

AddressedFrames(e) ==
  {at \in UNION {{t} \X DOMAIN e.traces[t].frames : t \in DOMAIN e.traces} :
     HasAddress(e.traces[at[1]].frames[at[2]])}

Attempted(e) == ParsedImages(e.images) # {} /\ AddressedFrames(e) # {}

Pending == [state |-> "pending", resolved |-> 0, total |-> 0]

NativeInit ==
  /\ nativeEvent \in NativeEvent
  /\ nativeTrace = 1
  /\ nativeRows = <<>>
  /\ nativeOutcome = Pending

NativeTypeOK ==
  /\ nativeTrace \in 1..(Len(nativeEvent.traces) + 1)
  /\ Len(nativeRows) <= 1
  /\ nativeOutcome.state \in {"pending", "not attempted", "missing map", "ok"}
  /\ nativeOutcome.resolved \in 0..nativeOutcome.total

\* Without an image or an address nothing is read; a query that fails counts as
\* not attempted.
RejectNative ==
  /\ nativeOutcome = Pending /\ nativeRows = <<>>
  /\ nativeOutcome' = [Pending EXCEPT !.state = "not attempted"]
  /\ UNCHANGED <<nativeEvent, nativeTrace, nativeRows>>

\* load_dif_rows reads every image's rows at once.
LoadDifRows ==
  LET ids == {nativeEvent.images[i].id : i \in ParsedImages(nativeEvent.images)}
               \cap DOMAIN StoredCache
  IN
  /\ nativeOutcome = Pending /\ nativeRows = <<>>
  /\ Attempted(nativeEvent)
  /\ nativeRows' = << [id \in ids |-> StoredCache[id]] >>
  /\ nativeOutcome' = IF ids = {} THEN [Pending EXCEPT !.state = "missing map"] ELSE Pending
  /\ UNCHANGED <<nativeEvent, nativeTrace>>

\* lookup_frames: exceptions, then threads, one trace after the other.
LookupFrames ==
  LET trace == nativeEvent.traces[nativeTrace]
      images == nativeEvent.images
      rows == nativeRows[1]
  IN
  /\ nativeOutcome.state = "pending" /\ nativeRows # <<>>
  /\ nativeTrace <= Len(nativeEvent.traces)
  /\ nativeEvent' = [nativeEvent EXCEPT !.traces[nativeTrace] =
       SymbolicateTrace(trace, images, rows, nativeEvent.signal)]
  /\ nativeTrace' = nativeTrace + 1
  /\ nativeOutcome' = [state |-> IF nativeTrace = Len(nativeEvent.traces) THEN "ok" ELSE "pending",
       resolved |-> nativeOutcome.resolved + ResolvedIn(trace, images, rows, nativeEvent.signal),
       total |-> nativeOutcome.total
                   + Cardinality({i \in DOMAIN trace.frames : HasAddress(trace.frames[i])})]
  /\ UNCHANGED nativeRows

NativeNext == RejectNative \/ LoadDifRows \/ LookupFrames

NativeSpec == NativeInit /\ [][NativeNext]_nativeVars

------------------------------------------------------------------------------
(* External: how clients report what ran.                                  *)

\* The addresses of a trace are those of its calls, or return addresses but for
\* the innermost one's, or all return addresses, or what the default rule says.
ReportKind == {"exact", "innermost", "return", "auto"}

SaysSo(how, trace) ==
  LET last == Len(trace.frames)
      Says(i) == trace.frames[i].adjust
      OnlyFrames == trace.adjust = NoText
      OthersReturn == \A i \in 1..(last - 1) : Says(i) # <<FALSE>>
  IN
  \/ how = "exact" /\ (trace.adjust = "none" \/ (OnlyFrames /\ \A i \in 1..last : Says(i) = <<FALSE>>))
  \/ how = "innermost" /\ OthersReturn
       /\ (trace.adjust = "all_but_first" \/ (OnlyFrames /\ Says(last) = <<FALSE>>))
  \/ how = "return" /\ OthersReturn /\ (trace.adjust = "all" \/ (OnlyFrames /\ Says(last) = <<TRUE>>))
  \/ how = "auto" /\ OnlyFrames /\ \A i \in 1..last : Says(i) = <<>>

\* By default the innermost frame and the contexts are exact, unless the registers
\* of a crash show that the client has cut its own frames off.
Exact(how, trace, i, signal, absolute) ==
  \/ how = "exact"
  \/ how = "innermost" /\ i = Len(trace.frames)
  \/ /\ how = "auto"
     /\ i = Len(trace.frames) \/ trace.frames[i].context
     /\ signal = "crash" => trace.register \in {NoAddress, absolute}

\* The image is the first that the frame's reference or its address means.
Means(f, images, h) ==
  LET Named(i) == \/ f.mode[1] = "id" /\ images[i].id = f.mode[2]
                  \/ f.mode[1] = "index" /\ images[i].index = f.mode[2]
                  \/ f.mode[1] = "absolute" /\ InImage(f.addr, images[i])
  IN  Named(h) /\ \A i \in ParsedImages(images) : i < h => ~Named(i)

\* A return address is one instruction behind its call, where the image has an
\* address to count from; in an image without one only calls are reported.
FrameReported(e, t, i, how) ==
  LET trace == e.traces[t]
      f == trace.frames[i]
      call == e.calls[t][i]
      size == Alignment[e.program.arch]
      symbols == LookupSymbols(e.program, call)
  IN
  \E h \in ParsedImages(e.images) :
    LET image == e.images[h]
        relative == IF f.mode[1] = "absolute" THEN f.addr - image.base ELSE f.addr
        absolute == image.base + relative
    IN
    /\ e.program.arch \in DOMAIN Alignment
    /\ f.addr \in Nat /\ Means(f, e.images, h)
    /\ image.id \in DOMAIN StoredCache
    /\ CandidateCache(StoredCache, image) = e.program /\ UsableCache(e.program, image)
    /\ symbols \in Seq(ToSet(symbols)) /\ HasDebugInfo(symbols)
    /\ IF image.base \in {NoBase, 0} \/ absolute < FirstPage THEN relative = call
       ELSE /\ (image.base + call) % size = 0
            /\ relative = IF Exact(how, trace, i, e.signal, absolute) THEN call ELSE call + size

\* A trace with calls has them reported in one of the ways; of one without calls
\* the symbols are not on file.
TraceReported(e, t) ==
  LET trace == e.traces[t] IN
  IF e.calls[t] # <<>>
  THEN /\ Len(e.calls[t]) = Len(trace.frames)
       /\ \E how \in ReportKind :
            SaysSo(how, trace) /\ \A i \in DOMAIN trace.frames : FrameReported(e, t, i, how)
  ELSE \A i \in DOMAIN trace.frames :
         HasAddress(trace.frames[i]) => ResolveFrame(trace, i, e.images, StoredCache, e.signal) = <<>>

NativeAssumption ==
  /\ FirstPage \in Nat
  /\ \A arch \in DOMAIN Alignment : Alignment[arch] \in Nat \ {0}
  /\ \A e \in NativeEvent :
       /\ \A i \in DOMAIN e.images : e.images[i].size \in Nat /\ e.images[i].base \in Int
       /\ e.images \in Seq(ToSet(e.images))
       /\ {"traces", "images", "signal", "program", "calls", "sent"} \subseteq DOMAIN e
       /\ e.traces \in Seq(ToSet(e.traces))
       /\ \A t \in DOMAIN e.traces :
            LET frames == e.traces[t].frames IN
            /\ {"frames", "adjust", "register"} \subseteq DOMAIN e.traces[t]
            /\ frames \in Seq(ToSet(frames)) /\ e.sent[t] = frames
            /\ e.calls[t] \in Seq(Nat)
            /\ \A f \in ToSet(frames) :
                 /\ {"function", "file", "line", "inApp"} \subseteq DOMAIN f
                 /\ f.adjust \in {<<>>, <<FALSE>>, <<TRUE>>} /\ f.context \in BOOLEAN
            /\ TraceReported(e, t)
ASSUME NativeAssumption

------------------------------------------------------------------------------
(* Properties.                                                             *)

\* What really ran: the program's locations at each call of the event, the
\* caller's first and, within a call, the function before what it inlined.
CallStack(e, t) ==
  FlattenSeq([n \in DOMAIN e.calls[t] |-> Reverse(LookupSymbols(e.program, e.calls[t][n]))])

Shown(lines) ==
  [i \in DOMAIN lines |-> <<lines[i].function, lines[i].file, lines[i].line>>]

\* The frames of a trace whose program has its symbols on file are the calls that
\* ran, line by line: whether the client sent return addresses or adjusted ones,
\* absolute or relative to an image, and whichever frame it said so of.  A trace
\* without them - they are another architecture's, one of several slices', or a
\* guess beside the client's own names - is left as it was sent.
FramesAreTheCalls ==
  \A t \in DOMAIN nativeEvent.traces : t < nativeTrace =>
    Shown(nativeEvent.traces[t].frames) =
      Shown(IF nativeEvent.calls[t] = <<>> THEN nativeEvent.sent[t]
            ELSE CallStack(nativeEvent, t))
=============================================================================
