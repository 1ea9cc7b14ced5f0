---------------------------- MODULE EventGrouping ----------------------------
(***************************************************************************)
(* Which issue an event belongs to and what it is called: the steps of     *)
(* process_inner (worker/processor.rs) between symbolication and the       *)
(* upsert of IssueLifecycle - normalize (worker/normalizer.rs), the names  *)
(* of obfuscated Dart builds (worker/dart_symbol_map.rs), fingerprint,     *)
(* title and culprit (worker/fingerprint.rs).                              *)
(*                                                                         *)
(* A string is the sequence of its words; the digest of a fingerprint is   *)
(* its text, the parts joined by a bar.  An event's message stands for its *)
(* log entry's too, which is used where there is no message.               *)
(***************************************************************************)
EXTENDS Integers, FiniteSets, Sequences, SequencesExt

CONSTANTS
  GroupEvent,   \* events as received, each with the cause it was made from
  DartMaps,     \* stored symbol maps: [debug, pairs], pairs of <<name, symbol>>
  WaitImages,   \* WAIT_IMAGES
  WaitFunctions,\* the functions is_wait_function holds of
  MaxGrouped    \* bound: events grouped

GroupingAssumption ==
  /\ MaxGrouped \in Nat
  /\ \A m \in DartMaps : /\ m.pairs \in Seq(ToSet(m.pairs))
                          /\ \A i \in DOMAIN m.pairs : Len(m.pairs[i]) = 2
  /\ \A e \in GroupEvent : {"fingerprint", "exceptions"} \subseteq DOMAIN e
ASSUME GroupingAssumption

VARIABLE
  grouped       \* what was stored: [event, named, key, title, culprit]

Nothing == <<>>   \* an absent or empty string

LastOf(indices) == CHOOSE i \in indices : \A j \in indices : j <= i

JoinWith(parts, separator) ==
  FlattenSeq([i \in DOMAIN parts |-> IF i = 1 THEN parts[i] ELSE <<separator>> \o parts[i]])

\* fingerprint_hash
FingerprintText(parts) == JoinWith(parts, "|")

------------------------------------------------------------------------------
(* Before grouping.                                                        *)

\* normalize: a client's fingerprint that only asks for the default is none.
NormalizedEvent(e) ==
  IF \A i \in DOMAIN e.fingerprint : e.fingerprint[i] = <<"{{ default }}">>
  THEN [e EXCEPT !.fingerprint = <<>>] ELSE e

IsDart(e) == e.sdk \in {"sentry.dart", "sentry.dart.flutter"}

\* The last of the pairs of a symbol; a name the map does not know stays.
Deobfuscated(pairs, symbol) ==
  LET known == {i \in DOMAIN pairs : pairs[i][2] = symbol} IN
  IF known = {} THEN symbol ELSE pairs[LastOf(known)][1]

\* In a value only the words after "Instance of" are names.
RewrittenValue(pairs, value) ==
  [i \in DOMAIN value |->
     IF i > 1 /\ value[i - 1] = "Instance of" THEN Deobfuscated(pairs, value[i]) ELSE value[i]]

\* deobfuscate_dart_event: the map of any image of the event; without one, or
\* when it cannot be read, the event stays as it is.
MapsOf(e) == {m \in DartMaps : IsDart(e) /\ e.exceptions # <<>> /\ m.debug \in e.images}

NamedBy(e, pairs) ==
  [e EXCEPT !.exceptions = [n \in DOMAIN e.exceptions |->
     [e.exceptions[n] EXCEPT
        !.type = IF Len(@) = 1 THEN <<Deobfuscated(pairs, @[1])>> ELSE @,
        !.value = RewrittenValue(pairs, @)]]]

------------------------------------------------------------------------------
(* App hangs.                                                              *)

NamedFrame(f) == f.function # Nothing /\ f.function # <<"<redacted>">>

\* Frames that show the main thread waiting and never why.
WaitsOnly(f) ==
  \/ f.image \in WaitImages
  \/ NamedFrame(f) /\ f.function \in WaitFunctions

\* The outermost frame of the app is its entry point, on every stack.
EntryPoint(frames) ==
  LET inApp == {i \in DOMAIN frames : frames[i].inApp} IN
  IF inApp = {} THEN 0 ELSE CHOOSE i \in inApp : \A j \in inApp : i <= j

HangTop(frames) == \* mutant: the innermost frame, whether it only waits or not
  LET functions == {i \in DOMAIN frames : NamedFrame(frames[i])}
      images == {i \in DOMAIN frames : frames[i].image # Nothing}
  IN  CASE functions # {} ->
             << [image |-> frames[LastOf(functions)].image,
                 function |-> frames[LastOf(functions)].function] >>
        [] functions = {} /\ images # {} ->
             << [image |-> frames[LastOf(images)].image, function |-> Nothing] >>
        [] OTHER -> <<>>

\* hang_frame: <<>> or << [image, function] >>; the innermost named frame, else
\* the innermost image.
HangFrame(frames) ==
  LET causes == {i \in DOMAIN frames : ~WaitsOnly(frames[i])}
      functions == {i \in causes : NamedFrame(frames[i]) /\ i # EntryPoint(frames)}
      images == {i \in causes : frames[i].image # Nothing}
  IN  CASE functions # {} ->
             << [image |-> frames[LastOf(functions)].image,
                 function |-> frames[LastOf(functions)].function] >>
        [] functions = {} /\ images # {} ->
             << [image |-> frames[LastOf(images)].image, function |-> Nothing] >>
        [] OTHER -> <<>>

Hang(e) ==
  IF e.exceptions # <<>> /\ e.mechanism = "AppHang" THEN HangFrame(e.exceptions[1].frames)
  ELSE <<>>

OrElse(text, default) == IF text = Nothing THEN <<default>> ELSE text

HangFingerprint(e, hang) ==
  LET type == OrElse(e.exceptions[1].type, "Error") IN
  IF hang.function = Nothing THEN FingerprintText(<< <<"app-hang">>, type, hang.image >>)
  ELSE FingerprintText(<< <<"app-hang">>, type, hang.image, hang.function >>)

HangTitle(e, hang) ==
  OrElse(e.exceptions[1].type, "Error") \o <<"in">>
    \o (IF hang.function = Nothing THEN hang.image ELSE hang.function)

HangCulprit(hang) ==
  CASE hang.function = Nothing -> hang.image
    [] hang.image = Nothing -> hang.function
    [] OTHER -> hang.image \o <<"in">> \o hang.function

------------------------------------------------------------------------------
(* Every event.                                                            *)

InAppFrames(frames) == SelectSeq(frames, LAMBDA f : f.inApp)

ExceptionFingerprint(x) ==
  LET inApp == InAppFrames(x.frames)
      FrameText(f) == OrElse(f.function, "?") \o <<":">> \o OrElse(f.file, "?")
  IN  IF inApp # <<>>
      THEN FingerprintText(<<x.type, JoinWith([i \in DOMAIN inApp |-> FrameText(inApp[i])], "|")>>)
      ELSE FingerprintText(<<x.type, x.value>>)

\* An exception without a type and without a frame of the app says nothing.
Telling(x) == InAppFrames(x.frames) # <<>> \/ x.type # Nothing

\* compute_fingerprint
Fingerprint(e) ==
  CASE e.fingerprint # <<>> -> FingerprintText(e.fingerprint)
    [] e.fingerprint = <<>> /\ Hang(e) # <<>> -> HangFingerprint(e, Hang(e)[1])
    [] OTHER ->
         IF e.exceptions # <<>> /\ Telling(e.exceptions[1])
         THEN ExceptionFingerprint(e.exceptions[1])
         ELSE IF e.message # Nothing THEN FingerprintText(<<e.message, e.logger>>)
         ELSE FingerprintText(<< <<"unknown">>, OrElse(e.level, "error"),
                                 OrElse(e.platform, "other") >>)

\* derive_title
Title(e) ==
  CASE Hang(e) # <<>> -> HangTitle(e, Hang(e)[1])
    [] Hang(e) = <<>> /\ e.exceptions # <<>> ->
         OrElse(e.exceptions[1].type, "Error")
           \o (IF e.exceptions[1].value = Nothing THEN <<>> ELSE <<":">> \o e.exceptions[1].value)
    [] OTHER -> OrElse(e.message, "<untitled>")

\* derive_culprit: the innermost frame of the app, of the first exception that
\* has one.
Culprit(e) ==
  LET inApp == SelectSeq(e.exceptions, LAMBDA x : InAppFrames(x.frames) # <<>>) IN
  CASE Hang(e) # <<>> -> HangCulprit(Hang(e)[1])
    [] Hang(e) = <<>> /\ inApp # <<>> ->
         LET f == Last(InAppFrames(inApp[1].frames)) IN
         OrElse(f.file, "?") \o <<"in">> \o OrElse(f.function, "?")
    [] OTHER -> e.transaction

------------------------------------------------------------------------------
(* process_inner, between symbolication and the upsert.                    *)

GroupingInit == grouped = {}

GroupingTypeOK ==
  \A g \in grouped : g.event \in GroupEvent /\ g.named \in BOOLEAN /\ g.key # Nothing

Store(e, named, result) ==
  grouped' = grouped \cup
    {[event |-> e, named |-> named, key |-> Fingerprint(result), title |-> Title(result),
      culprit |-> Culprit(result)]}

GroupNamed(e) ==
  /\ Cardinality(grouped) < MaxGrouped
  /\ \E m \in MapsOf(e) : Store(e, TRUE, NamedBy(NormalizedEvent(e), m.pairs))

\* There is no map, or its query or its file fails.
GroupUnnamed(e) ==
  /\ Cardinality(grouped) < MaxGrouped
  /\ Store(e, MapsOf(e) = {}, NormalizedEvent(e))

GroupingNext == \E e \in GroupEvent : GroupNamed(e) \/ GroupUnnamed(e)

GroupingSpec == GroupingInit /\ [][GroupingNext]_grouped

------------------------------------------------------------------------------
(* Properties.                                                             *)

\* Events are in one issue exactly when they have one cause: whatever waits are on
\* top of a hang, however its system frames are hidden, whichever build and
\* obfuscation it comes from, and whatever differs in an exception's value and
\* outside of the app - and different causes are never merged.
OneIssuePerCause ==
  \A g, h \in grouped : g.named /\ h.named =>
    (g.key = h.key <=> g.event.cause = h.event.cause)

\* A hang's title and culprit say what it is grouped by.
HangsNameTheirGroup ==
  \A g, h \in grouped :
    Hang(NormalizedEvent(g.event)) # <<>> /\ Hang(NormalizedEvent(h.event)) # <<>>
      /\ g.event.fingerprint = <<>> /\ h.event.fingerprint = <<>> =>
        (g.key = h.key <=> <<g.title, g.culprit>> = <<h.title, h.culprit>>)

\* Grouping and titles agree about causes: one issue per cause, and two hangs look
\* alike exactly when they are one issue.
GroupsSound == OneIssuePerCause /\ HangsNameTheirGroup
=============================================================================
