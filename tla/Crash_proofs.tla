---------------------------- MODULE Crash_proofs ----------------------------
(***************************************************************************)
(* Theorems about MinidumpUpload and NativeFrames: a crash reaches the     *)
(* worker as it happened, for any requests, breadcrumb files, unwind       *)
(* tables and sizes, and its traces become the calls that ran, for any     *)
(* images, symbol caches and ways of reporting addresses.                  *)
(***************************************************************************)
EXTENDS MinidumpUpload, NativeFrames, Subsequences_proofs

-----------------------------------------------------------------------------
\* The size of an envelope.

LEMMA BytesAreSums ==
  ASSUME NEW event \in Nat, NEW parts \in Seq(Nat), NEW count \in 0..Len(parts)
  PROVE  EnvelopeBytes(event, parts, count) \in Nat
<1>1. count \in Nat /\ Len(parts) \in Nat /\ \A i \in 1..count : parts[i] \in Nat
  OBVIOUS
<1>2. PICK f : f = CHOOSE g : Sums(g, event, parts, count)
  OBVIOUS
<1>3. Sums(f, event, parts, count)
  BY <1>1, <1>2, SumsExist
<1>4. EnvelopeBytes(event, parts, count) = f[count]
  BY <1>2 DEF EnvelopeBytes, Sums
<1>5. PICK T : T = {n \in Nat : n <= count => f[n] \in Nat}
  OBVIOUS
<1>6. 0 \in T
  BY <1>1, <1>3, <1>5 DEF Sums
<1>7. ASSUME NEW n \in Nat, n \in T PROVE n + 1 \in T
  <2>1. ASSUME n + 1 <= count PROVE f[n + 1] \in Nat
    <3>1. n + 1 \in 0..count /\ n + 1 \in 1..count /\ n + 1 # 0 /\ (n + 1) - 1 = n /\ n <= count
      BY <1>1, <2>1
    <3>2. f[n + 1] = f[n] + parts[n + 1]
      BY <1>3, <3>1 DEF Sums
    <3> QED BY <1>1, <1>5, <1>7, <3>1, <3>2
  <2> QED BY <1>5, <2>1
<1>8. count \in T
  BY <1>1, <1>6, <1>7, AllNumbers
<1> QED BY <1>1, <1>4, <1>5, <1>8

\* The loop that drops parts, from n parts on.
Fits(event, parts, n) == n = 0 \/ EnvelopeBytes(event, parts, n) <= MaxEnvelope

KeptFrom(f, event, parts, n) ==
  f = [i \in 0..n |-> IF Fits(event, parts, i) THEN i ELSE f[i - 1]]

LEMMA KeptFromExists ==
  ASSUME NEW event, NEW parts
  PROVE  \A n \in Nat : \E f : KeptFrom(f, event, parts, n)
<1> DEFINE T == {n \in Nat : \E f : KeptFrom(f, event, parts, n)}
<1>0. Fits(event, parts, 0)
  BY DEF Fits
<1>1. 0 \in T
  <2>1. PICK f : f = [i \in 0..0 |-> i]
    OBVIOUS
  <2>2. f = [i \in 0..0 |-> IF Fits(event, parts, i) THEN i ELSE f[i - 1]]
    BY <1>0, <2>1
  <2> QED BY <2>2 DEF KeptFrom
<1>2. ASSUME NEW n \in Nat, n \in T PROVE n + 1 \in T
  <2>1. PICK f : f = [i \in 0..n |-> IF Fits(event, parts, i) THEN i ELSE f[i - 1]]
    BY <1>2 DEF KeptFrom
  <2>2. PICK g : g = [i \in 0..(n + 1) |-> IF i \in 0..n THEN f[i]
                                           ELSE IF Fits(event, parts, i) THEN i ELSE f[n]]
    OBVIOUS
  <2>3. ASSUME NEW i \in 0..(n + 1)
        PROVE  g[i] = IF Fits(event, parts, i) THEN i ELSE g[i - 1]
    <3>1. CASE i = 0
      BY <1>0, <2>1, <2>2, <3>1
    <3>2. CASE i \in 1..n
      <4>1. i \in 0..n /\ i - 1 \in 0..n /\ i - 1 \in 0..(n + 1)
        BY <3>2
      <4>2. g[i] = f[i] /\ g[i - 1] = f[i - 1]
        BY <2>2, <4>1
      <4> QED BY <2>1, <4>1, <4>2
    <3>3. CASE i = n + 1
      <4>1. i \notin 0..n /\ i - 1 = n /\ n \in 0..n /\ n \in 0..(n + 1)
        BY <3>3
      <4>2. g[i - 1] = f[n]
        BY <2>2, <4>1
      <4> QED BY <2>2, <4>1, <4>2
    <3> QED BY <3>1, <3>2, <3>3
  <2>4. g = [i \in 0..(n + 1) |-> IF Fits(event, parts, i) THEN i ELSE g[i - 1]]
    BY <2>2, <2>3
  <2> QED BY <2>4 DEF KeptFrom
<1> HIDE DEF T
<1>3. \A n \in Nat : n \in T
  BY <1>1, <1>2, AllNumbers
<1> QED BY <1>3 DEF T

\* What the loop keeps fits, and with one part more it would not.
LEMMA KeptPartsFit ==
  ASSUME NEW event \in Nat, NEW parts \in Seq(Nat), NEW k, k = KeptParts(event, parts)
  PROVE  /\ k \in 0..Len(parts)
         /\ k > 0 => EnvelopeBytes(event, parts, k) <= MaxEnvelope
         /\ k < Len(parts) => EnvelopeBytes(event, parts, k + 1) > MaxEnvelope
<1>1. PICK n : n = Len(parts)
  OBVIOUS
<1>2. n \in Nat /\ MaxEnvelope \in Nat
  BY <1>1, MinidumpAssumption DEF MinidumpAssumption
<1>3. PICK f : f = CHOOSE g : KeptFrom(g, event, parts, n)
  OBVIOUS
<1>4. KeptFrom(f, event, parts, n)
  BY <1>2, <1>3, KeptFromExists
<1>5. k = f[n]
  BY <1>1, <1>3 DEF KeptParts, KeptFrom, Fits
<1> DEFINE Right(m) == /\ f[m] \in 0..m
                       /\ Fits(event, parts, f[m])
                       /\ \A j \in (f[m] + 1)..m : ~Fits(event, parts, j)
<1>6. PICK T : T = {m \in Nat : m <= n => Right(m)}
  OBVIOUS
<1>7. 0 \in T
  <2>1. f[0] = 0 /\ Fits(event, parts, 0)
    BY <1>2, <1>4 DEF KeptFrom, Fits
  <2> QED BY <1>6, <2>1
<1>8. ASSUME NEW m \in Nat, m \in T PROVE m + 1 \in T
  <2> SUFFICES ASSUME m + 1 <= n PROVE Right(m + 1)
    BY <1>6
  <2>1. m + 1 \in 0..n /\ (m + 1) - 1 = m /\ m <= n
    BY <1>2
  <2>2. f[m + 1] = IF Fits(event, parts, m + 1) THEN m + 1 ELSE f[m]
    BY <1>4, <2>1 DEF KeptFrom
  <2>3. CASE Fits(event, parts, m + 1)
    BY <2>2, <2>3
  <2>4. CASE ~Fits(event, parts, m + 1)
    <3>1. f[m + 1] = f[m] /\ Right(m)
      BY <1>6, <1>8, <2>1, <2>2, <2>4
    <3>2. \A j \in (f[m] + 1)..(m + 1) : j \in (f[m] + 1)..m \/ j = m + 1
      BY <3>1
    <3> QED BY <2>4, <3>1, <3>2
  <2> QED BY <2>3, <2>4
<1>9. n \in T
  BY <1>2, <1>7, <1>8, AllNumbers
<1>10. /\ k \in 0..n /\ Fits(event, parts, k)
       /\ \A j \in (k + 1)..n : ~Fits(event, parts, j)
  BY <1>2, <1>5, <1>6, <1>9
<1>11. ASSUME k < n PROVE EnvelopeBytes(event, parts, k + 1) > MaxEnvelope
  <2>1. k + 1 \in (k + 1)..n /\ k + 1 \in 0..n
    BY <1>2, <1>10, <1>11
  <2>2. EnvelopeBytes(event, parts, k + 1) \in Nat
    BY <1>1, <2>1, BytesAreSums
  <2>3. ~(EnvelopeBytes(event, parts, k + 1) <= MaxEnvelope)
    BY <1>10, <2>1 DEF Fits
  <2> QED BY <1>2, <2>2, <2>3
<1> QED BY <1>1, <1>10, <1>11 DEF Fits

-----------------------------------------------------------------------------
\* The client's two files.

\* Breadcrumbs in order and without a gap, the last of which is the end.
Contiguous(crumbs, end) == \A i \in 1..Len(crumbs) : crumbs[i] = end - Len(crumbs) + i

\* One file is full and the other continues it, or nothing was full yet.
Rotation(new, old, written) ==
  /\ Len(new) <= CrumbLimit
  /\ Contiguous(new, written)
  /\ \/ Len(old) = 0 /\ Len(new) = written
     \/ /\ Len(old) = CrumbLimit /\ Len(new) >= 1
        /\ Contiguous(old, written - Len(new))

LEMMA JoinedFiles ==
  ASSUME NEW new \in Seq(Nat), NEW old \in Seq(Nat), NEW written \in Nat,
         Rotation(new, old, written), NEW all, all = old \o new
  PROVE  all \in Seq(Nat) /\ Len(all) = Len(old) + Len(new) /\ Contiguous(all, written)
<1>1. /\ all \in Seq(Nat) /\ Len(all) = Len(old) + Len(new)
      /\ Len(old) \in Nat /\ Len(new) \in Nat
      /\ \A i \in 1..Len(all) : all[i] = IF i <= Len(old) THEN old[i] ELSE new[i - Len(old)]
  OBVIOUS
<1>2. ASSUME NEW i \in 1..Len(all) PROVE all[i] = written - Len(all) + i
  <2>1. CASE i <= Len(old)
    <3>1. i \in 1..Len(old) /\ Contiguous(old, written - Len(new))
      BY <1>1, <2>1 DEF Rotation
    <3>2. old[i] = written - Len(new) - Len(old) + i
      BY <3>1 DEF Contiguous
    <3> QED BY <1>1, <2>1, <3>2
  <2>2. CASE ~(i <= Len(old))
    <3>1. i - Len(old) \in 1..Len(new)
      BY <1>1, <2>2
    <3>2. new[i - Len(old)] = written - Len(new) + (i - Len(old))
      BY <3>1 DEF Rotation, Contiguous
    <3> QED BY <1>1, <2>2, <3>2
  <2> QED BY <2>1, <2>2
<1> QED BY <1>1, <1>2 DEF Contiguous

\* The last of a joined sequence are its end.
LEMMA NewestOfJoined ==
  ASSUME NEW all \in Seq(Nat), NEW written \in Nat, Contiguous(all, written),
         NEW kept \in 0..Len(all), NEW crumbs,
         crumbs = SubSeq(all, Len(all) - kept + 1, Len(all))
  PROVE  Len(crumbs) = kept /\ DOMAIN crumbs = 1..kept /\ Contiguous(crumbs, written)
<1>1. PICK n : n = Len(all)
  OBVIOUS
<1>2. n \in Nat /\ kept \in Nat /\ kept <= n
  BY <1>1
<1>3. crumbs \in Seq(Nat) /\ Len(crumbs) = kept /\ DOMAIN crumbs = 1..kept
      /\ \A i \in 1..kept : crumbs[i] = all[(n - kept + 1) + i - 1]
  <2>1. PICK from : from = n - kept + 1
    OBVIOUS
  <2>2. from \in Int /\ n - from + 1 = kept /\ (IF from <= n THEN n - from + 1 ELSE 0) = kept
        /\ from..n \subseteq 1..n
    BY <1>2, <2>1
  <2>3. crumbs = SubSeq(all, from, n) /\ n \in Int
    BY <1>1, <1>2, <2>1
  <2>4. \A i \in 1..n : all[i] \in Nat
    BY <1>1
  <2>5. \A i \in from..n : all[i] \in Nat
    BY <2>2, <2>4
  <2>6. /\ SubSeq(all, from, n) \in Seq(Nat)
        /\ Len(SubSeq(all, from, n)) = IF from <= n THEN n - from + 1 ELSE 0
        /\ \A i \in 1..(n - from + 1) : SubSeq(all, from, n)[i] = all[from + i - 1]
    BY ONLY <2>2, <2>3, <2>5, SubSeqProperties
  <2>7. /\ crumbs \in Seq(Nat) /\ Len(crumbs) = kept
        /\ \A i \in 1..kept : crumbs[i] = all[from + i - 1]
    BY <2>2, <2>3, <2>6
  <2>8. DOMAIN crumbs = 1..kept
    BY <2>7
  <2> QED BY <2>1, <2>7, <2>8
<1>4. ASSUME NEW i \in 1..kept PROVE crumbs[i] = written - kept + i
  <2>1. (n - kept + 1) + i - 1 \in 1..n
    BY <1>2
  <2>2. all[(n - kept + 1) + i - 1] = written - n + ((n - kept + 1) + i - 1)
    BY <1>1, <2>1 DEF Contiguous
  <2> QED BY <1>2, <1>3, <2>2
<1> QED BY <1>3, <1>4 DEF Contiguous

\* The end of what was written, a file's worth of it.
Newest(crumbs, written) ==
  /\ Len(crumbs) >= IF written < CrumbLimit THEN written ELSE CrumbLimit
  /\ \A i \in DOMAIN crumbs : crumbs[i] = written - Len(crumbs) + i

\* Whichever file is the first, the merge ends with the newest breadcrumb and
\* holds a file's worth.
LEMMA MergedAreNewest ==
  ASSUME NEW new \in Seq(Nat), NEW old \in Seq(Nat), NEW written \in Nat,
         Rotation(new, old, written), NEW first, NEW second,
         \/ first = new /\ second = old
         \/ first = old /\ second = new,
         NEW crumbs, crumbs = MergeBreadcrumbs(first, second)
  PROVE  Newest(crumbs, written)
<1>1. PICK all, kept : /\ all = old \o new
                       /\ kept = IF Len(first) > Len(second) THEN Len(first) ELSE Len(second)
  OBVIOUS
<1>2. /\ all \in Seq(Nat) /\ Len(all) = Len(old) + Len(new) /\ Contiguous(all, written)
      /\ Len(old) \in Nat /\ Len(new) \in Nat /\ CrumbLimit \in Nat \ {0}
  <2>1. all \in Seq(Nat) /\ Len(all) = Len(old) + Len(new) /\ Contiguous(all, written)
    BY <1>1, JoinedFiles
  <2>2. CrumbLimit \in Nat \ {0}
    BY MinidumpAssumption DEF MinidumpAssumption
  <2> QED BY <2>1, <2>2
<1>3. kept \in 0..Len(all)
  BY <1>1, <1>2
<1>4. kept >= IF written < CrumbLimit THEN written ELSE CrumbLimit
  <2>1. kept >= Len(old) /\ kept >= Len(new) /\ kept \in Nat
    BY <1>1, <1>2
  <2>2. (Len(old) = 0 /\ Len(new) = written) \/ Len(old) = CrumbLimit
    BY DEF Rotation
  <2> QED BY <1>2, <2>1, <2>2
<1>5. all = IF LastCrumb(first) > LastCrumb(second) THEN second \o first ELSE first \o second
  <2>1. CASE Len(old) = 0
    <3>1. old = <<>>
      BY <1>2, <2>1
    <3>2. old \o new = new /\ new \o old = new
      BY <3>1
    <3> QED BY <1>1, <3>2
  <2>2. CASE Len(old) # 0
    <3>1. /\ Len(old) = CrumbLimit /\ Len(new) >= 1 /\ Contiguous(old, written - Len(new))
          /\ Contiguous(new, written)
      BY <1>2, <2>2 DEF Rotation
    <3>2. Len(old) \in 1..Len(old) /\ Len(new) \in 1..Len(new)
      BY <1>2, <2>2, <3>1
    <3>3. old[Len(old)] = written - Len(new) /\ new[Len(new)] = written
      <4>1. old[Len(old)] = (written - Len(new)) - Len(old) + Len(old)
        BY <3>1, <3>2 DEF Contiguous
      <4>2. new[Len(new)] = written - Len(new) + Len(new)
        BY <3>1, <3>2 DEF Contiguous
      <4> QED BY <1>2, <4>1, <4>2
    <3>4. LastCrumb(old) = written - Len(new) /\ LastCrumb(new) = written
      BY <3>2, <3>3 DEF LastCrumb, Last
    <3>5. LastCrumb(new) > LastCrumb(old) /\ ~(LastCrumb(old) > LastCrumb(new))
      BY <1>2, <3>1, <3>4
    <3> QED BY <1>1, <3>5
  <2> QED BY <2>1, <2>2
<1>6. crumbs = SubSeq(all, Len(all) - kept + 1, Len(all))
  BY <1>1, <1>5 DEF MergeBreadcrumbs
<1>7. Len(crumbs) = kept /\ DOMAIN crumbs = 1..kept /\ Contiguous(crumbs, written)
  BY <1>2, <1>3, <1>6, NewestOfJoined
<1> QED BY <1>4, <1>7 DEF Contiguous, Newest

-----------------------------------------------------------------------------
\* The inductive invariant.

DumpSteps == {"running", "parsing", "parsed", "loading", "loaded", "walked", "stored", "rejected"}
UploadFields == {"dump", "sidecar", "crumbs", "attachments", "extra"}

CrashTyped ==
  /\ crumbFiles \in [1..2 -> Seq(Nat)]
  /\ crumbActive \in 1..2
  /\ crumbsWritten \in Nat
  /\ dump \in [case : DumpCase, step : DumpSteps, next : Nat \ {0}]
  /\ DOMAIN upload = UploadFields
  /\ upload.crumbs \in [1..2 -> Seq(Nat)]
  /\ upload.attachments \in Seq(Nat)
  /\ cfiCache \subseteq {r.path : r \in CfiRows}

CrumbsRotate == Rotation(crumbFiles[crumbActive], crumbFiles[3 - crumbActive], crumbsWritten)

\* The parts before the next one are read, and a file's part gave what the client
\* had left in it.
PartsRead ==
  /\ dump.step = "running" => dump.next = 1
  /\ dump.step \notin {"running", "parsing", "rejected"} => dump.next = Len(dump.case.parts) + 1
  /\ dump.next <= Len(dump.case.parts) + 1
  /\ \A j \in 1..(dump.next - 1) :
       dump.case.parts[j].name = "breadcrumb" =>
         upload.crumbs[dump.case.parts[j].file] = crumbFiles[dump.case.parts[j].file]

SelectedTables == tables \subseteq {r.debug : r \in SelectedRows}

\* What is made of the request is made after its last part.
MadeFromUpload ==
  /\ dumpEvent # NoEvent => /\ dump.step \in {"walked", "stored"}
                            /\ dumpEvent = << SynthesizedEvent(dump.case, upload) >>
  /\ envelope # <<>> => /\ dump.step = "stored"
                        /\ envelope = << KeptParts(dump.case.eventBytes, DumpParts) >>

CrashInv == CrashTyped /\ CrumbsRotate /\ PartsRead /\ SelectedTables /\ MadeFromUpload

-----------------------------------------------------------------------------
LEMMA CrashInitInv == MinidumpInit => CrashInv
<1> SUFFICES ASSUME MinidumpInit PROVE CrashInv
  OBVIOUS
<1>1. PICK c \in DumpCase : dump = [case |-> c, step |-> "running", next |-> 1]
  BY DEF MinidumpInit
<1>2. c.parts \in Seq(ToSet(c.parts)) /\ CrumbLimit \in Nat \ {0}
  BY MinidumpAssumption DEF MinidumpAssumption
<1>3. CrashTyped
  <2>1. << <<>>, <<>> >> \in [1..2 -> Seq(Nat)]
    <3>1. ASSUME NEW s \in Seq(Nat) PROVE <<s, s>> \in [1..2 -> Seq(Nat)]
      OBVIOUS
    <3>2. <<>> \in Seq(Nat)
      OBVIOUS
    <3> QED BY <3>1, <3>2
  <2>2. dump \in [case : DumpCase, step : DumpSteps, next : Nat \ {0}]
    BY <1>1 DEF DumpSteps
  <2>3. /\ DOMAIN upload = UploadFields /\ upload.crumbs = << <<>>, <<>> >>
        /\ upload.attachments = <<>>
    BY DEF MinidumpInit, EmptyUpload, UploadFields
  <2>4. /\ crumbFiles = << <<>>, <<>> >> /\ crumbActive = 1 /\ crumbsWritten = 0
        /\ cfiCache \subseteq {r.path : r \in CfiRows}
    BY DEF MinidumpInit
  <2> QED BY <2>1, <2>2, <2>3, <2>4 DEF CrashTyped
<1>4. CrumbsRotate
  BY <1>2 DEF MinidumpInit, CrumbsRotate, Rotation, Contiguous
<1>5. PartsRead
  BY <1>1, <1>2 DEF PartsRead
<1>6. SelectedTables /\ MadeFromUpload
  BY DEF MinidumpInit, SelectedTables, MadeFromUpload
<1> QED BY <1>3, <1>4, <1>5, <1>6 DEF CrashInv

\* The client's case and its parts.
LEMMA PartsAre ==
  ASSUME CrashTyped, NEW parts, parts = dump.case.parts
  PROVE  /\ parts \in Seq(ToSet(parts)) /\ Len(parts) \in Nat
         /\ \A j \in 1..Len(parts) :
              /\ parts[j].name \in {"dump", "event", "breadcrumb", "sentry", "file", "field"}
              /\ parts[j].name = "breadcrumb" => parts[j].file \in 1..2
              /\ parts[j].name = "file" => parts[j].bytes \in Nat
<1>1. dump.case \in DumpCase
  BY DEF CrashTyped
<1>2. /\ parts \in Seq(ToSet(parts))
      /\ \A part \in ToSet(parts) :
            /\ part.name \in {"dump", "event", "breadcrumb", "sentry", "file", "field"}
            /\ part.name = "breadcrumb" => part.file \in 1..2
            /\ part.name = "file" => part.bytes \in Nat
  BY <1>1, MinidumpAssumption DEF MinidumpAssumption
<1>3. \A j \in 1..Len(parts) : parts[j] \in ToSet(parts)
  BY <1>2
<1> QED BY <1>2, <1>3

\* The rows are selected by the dump, and what is made by the dump and its request.
LEMMA SelectedStay ==
  ASSUME dump'.case = dump.case
  PROVE  SelectedRows' = SelectedRows
BY DEF SelectedRows, FittingRows

LEMMA MadeStays ==
  ASSUME MadeFromUpload, dump'.case = dump.case, UNCHANGED <<upload, dumpEvent, envelope>>,
         dumpEvent # NoEvent => dump'.step \in {"walked", "stored"},
         envelope # <<>> => dump'.step = "stored"
  PROVE  MadeFromUpload'
<1>1. DumpParts' = DumpParts
  BY DEF DumpParts
<1> QED BY <1>1 DEF MadeFromUpload

LEMMA WriteCrumbInv == CrashInv /\ WriteCrumb => CrashInv'
<1> SUFFICES ASSUME CrashInv, WriteCrumb PROVE CrashInv'
  OBVIOUS
<1>1. PICK new, old, written, full, target :
        /\ new = crumbFiles[crumbActive] /\ old = crumbFiles[3 - crumbActive]
        /\ written = crumbsWritten /\ full = (Len(new) = CrumbLimit)
        /\ target = IF full THEN 3 - crumbActive ELSE crumbActive
  OBVIOUS
<1>2. /\ crumbsWritten' = written + 1 /\ crumbActive' = target
      /\ crumbFiles' = [crumbFiles EXCEPT ![target] =
                          Append(IF full THEN <<>> ELSE @, written + 1)]
      /\ dump.step = "running"
      /\ UNCHANGED <<dump, upload, tables, cfiCache, dumpEvent, envelope>>
  BY <1>1 DEF WriteCrumb
<1>3. /\ new \in Seq(Nat) /\ old \in Seq(Nat) /\ written \in Nat /\ CrumbLimit \in Nat \ {0}
      /\ crumbFiles \in [1..2 -> Seq(Nat)] /\ crumbActive \in 1..2
      /\ Rotation(new, old, written)
  <2>1. CrumbLimit \in Nat \ {0}
    BY MinidumpAssumption DEF MinidumpAssumption
  <2> QED BY <1>1, <2>1 DEF CrashInv, CrashTyped, CrumbsRotate
<1>4. target \in 1..2 /\ 3 - target \in 1..2 /\ 3 - target # target
  BY <1>1, <1>3
<1>5. crumbFiles' \in [1..2 -> Seq(Nat)] /\ crumbFiles'[3 - target] = crumbFiles[3 - target]
  <2>1. ASSUME NEW s \in Seq(Nat) PROVE Append(s, written + 1) \in Seq(Nat)
    BY <1>3
  <2>2. crumbFiles[target] \in Seq(Nat) /\ <<>> \in Seq(Nat)
    BY <1>3, <1>4
  <2> QED BY <1>2, <1>3, <1>4, <2>1, <2>2
<1>6. CrashTyped'
  BY <1>2, <1>3, <1>4, <1>5 DEF CrashInv, CrashTyped
<1>7. CrumbsRotate'
  <2>1. CASE full
    <3>1. crumbFiles'[target] = <<written + 1>> /\ crumbFiles'[3 - target] = new
      <4>1. target = 3 - crumbActive /\ 3 - target = crumbActive
        BY <1>1, <1>3, <2>1
      <4>2. crumbFiles'[target] = Append(<<>>, written + 1)
        BY <1>2, <1>3, <1>4, <2>1
      <4> QED BY <1>1, <1>5, <4>1, <4>2
    <3>2. Contiguous(<<written + 1>>, written + 1)
      BY <1>3 DEF Contiguous
    <3>3. Len(new) = CrumbLimit /\ Contiguous(new, (written + 1) - 1)
      <4>1. (written + 1) - 1 = written
        BY <1>3
      <4> QED BY <1>1, <1>3, <2>1, <4>1 DEF Rotation
    <3>4. Rotation(<<written + 1>>, new, written + 1)
      BY <1>3, <3>2, <3>3 DEF Rotation
    <3> QED BY <1>2, <3>1, <3>4 DEF CrumbsRotate
  <2>2. CASE ~full
    <3>1. PICK more : more = Append(new, written + 1)
      OBVIOUS
    <3>2. crumbFiles'[target] = more /\ crumbFiles'[3 - target] = old /\ target = crumbActive
      BY <1>1, <1>2, <1>3, <1>4, <1>5, <2>2, <3>1
    <3>3. /\ Len(more) = Len(new) + 1 /\ Len(new) \in Nat
          /\ \A i \in 1..(Len(new) + 1) :
               more[i] = IF i = Len(new) + 1 THEN written + 1 ELSE new[i]
      BY <1>3, <3>1
    <3>4. Contiguous(more, written + 1)
      <4>1. ASSUME NEW i \in 1..Len(more) PROVE more[i] = (written + 1) - Len(more) + i
        <5>1. i \in 1..Len(new) => new[i] = written - Len(new) + i
          BY <1>3 DEF Rotation, Contiguous
        <5>2. Len(more) = Len(new) + 1 /\ Len(new) \in Nat /\ i \in 1..(Len(new) + 1)
          BY <3>3
        <5>3. CASE i = Len(new) + 1
          BY <1>3, <3>3, <5>2, <5>3
        <5>4. CASE i \in 1..Len(new)
          <6>1. more[i] = new[i]
            BY <3>3, <5>2, <5>4
          <6> QED BY <1>3, <5>1, <5>2, <5>4, <6>1
        <5> QED BY <5>2, <5>3, <5>4
      <4> QED BY <4>1 DEF Contiguous
    <3>5. Len(more) <= CrumbLimit
      <4>1. Len(new) # CrumbLimit
        BY <1>1, <2>2
      <4>2. Len(new) <= CrumbLimit
        BY <1>3 DEF Rotation
      <4> QED BY <1>3, <3>3, <4>1, <4>2
    <3>6. (written + 1) - Len(more) = written - Len(new)
      BY <1>3, <3>3
    <3>7. Rotation(more, old, written + 1)
      <4>1. CASE Len(old) = 0 /\ Len(new) = written
        BY <3>3, <3>4, <3>5, <4>1 DEF Rotation
      <4>2. CASE Len(old) = CrumbLimit /\ Len(new) >= 1 /\ Contiguous(old, written - Len(new))
        <5>1. Len(more) >= 1
          BY <3>3
        <5> QED BY <3>4, <3>5, <3>6, <4>2, <5>1 DEF Rotation
      <4> QED BY <1>3, <4>1, <4>2 DEF Rotation
    <3> QED BY <1>2, <3>2, <3>7 DEF CrumbsRotate
  <2> QED BY <1>1, <2>1, <2>2
<1>8. PartsRead'
  BY <1>2 DEF CrashInv, PartsRead
<1>9. SelectedTables'
  BY <1>2, SelectedStay DEF CrashInv, SelectedTables
<1>10. MadeFromUpload'
  BY <1>2, MadeStays DEF CrashInv, MadeFromUpload
<1> QED BY <1>6, <1>7, <1>8, <1>9, <1>10 DEF CrashInv

\* A step that leaves the client and the request alone.
LEMMA QuietTyped ==
  ASSUME CrashTyped, CrumbsRotate, NEW step \in DumpSteps,
         dump' = [dump EXCEPT !.step = step], UNCHANGED <<crumbVars, upload>>,
         cfiCache' \subseteq {r.path : r \in CfiRows}
  PROVE  /\ CrashTyped' /\ CrumbsRotate'
         /\ dump'.step = step /\ dump'.case = dump.case /\ dump'.next = dump.next
<1>1. /\ dump' \in [case : DumpCase, step : DumpSteps, next : Nat \ {0}]
      /\ dump'.step = step /\ dump'.case = dump.case /\ dump'.next = dump.next
  BY DEF CrashTyped
<1>2. CrashTyped' /\ CrumbsRotate'
  BY <1>1 DEF CrashTyped, CrumbsRotate, crumbVars
<1> QED BY <1>1, <1>2

\* A step after the request was read.
LEMMA LaterPartsRead ==
  ASSUME PartsRead, dump'.case = dump.case, dump'.next = dump.next,
         UNCHANGED <<crumbFiles, upload>>, dump'.step # "running",
         dump.step \notin {"running", "parsing", "rejected"}
           \/ dump'.step \in {"parsing", "rejected"}
           \/ dump.next = Len(dump.case.parts) + 1
  PROVE  PartsRead'
BY DEF PartsRead

LEMMA ClientCrashesInv == CrashInv /\ ClientCrashes => CrashInv'
<1> SUFFICES ASSUME CrashInv, ClientCrashes PROVE CrashInv'
  OBVIOUS
<1>1. /\ dump.step = "running" /\ dump' = [dump EXCEPT !.step = "parsing"]
      /\ UNCHANGED <<crumbVars, crumbFiles, upload, tables, cfiCache, dumpEvent, envelope>>
  BY DEF ClientCrashes, crumbVars
<1>2. /\ CrashTyped' /\ CrumbsRotate'
      /\ dump'.step = "parsing" /\ dump'.case = dump.case /\ dump'.next = dump.next
  <2>1. "parsing" \in DumpSteps /\ cfiCache' \subseteq {r.path : r \in CfiRows}
    BY <1>1 DEF DumpSteps, CrashInv, CrashTyped
  <2> QED BY <1>1, <2>1, QuietTyped DEF CrashInv
<1>3. PartsRead'
  BY <1>1, <1>2, LaterPartsRead DEF CrashInv
<1>4. SelectedTables'
  BY <1>1, <1>2, SelectedStay DEF CrashInv, SelectedTables
<1>5. MadeFromUpload'
  BY <1>1, <1>2, MadeStays DEF CrashInv, MadeFromUpload
<1> QED BY <1>2, <1>3, <1>4, <1>5 DEF CrashInv

\* What a part changes of the request.
LEMMA ReadPartTyped ==
  ASSUME CrashTyped, NEW part,
         part.name \in {"dump", "event", "breadcrumb", "sentry", "file", "field"},
         part.name = "breadcrumb" => part.file \in 1..2,
         part.name = "file" => part.bytes \in Nat,
         NEW up, up = ReadPart(upload, part)
  PROVE  /\ DOMAIN up = UploadFields
         /\ up.crumbs \in [1..2 -> Seq(Nat)]
         /\ up.attachments \in Seq(Nat)
         /\ \A n \in 1..2 : up.crumbs[n] = IF part.name = "breadcrumb" /\ part.file = n
                                           THEN crumbFiles[n] ELSE upload.crumbs[n]
<1>1. /\ DOMAIN upload = UploadFields /\ upload.crumbs \in [1..2 -> Seq(Nat)]
      /\ upload.attachments \in Seq(Nat) /\ crumbFiles \in [1..2 -> Seq(Nat)]
  BY DEF CrashTyped
<1>2. CASE part.name = "dump"
  <2>1. up = [upload EXCEPT !.dump = TRUE]
    BY <1>2 DEF ReadPart
  <2> QED BY <1>1, <1>2, <2>1 DEF UploadFields
<1>3. CASE part.name = "event"
  <2>1. PICK side : up = [upload EXCEPT !.sidecar = side]
    BY <1>3 DEF ReadPart
  <2> QED BY <1>1, <1>3, <2>1 DEF UploadFields
<1>4. CASE part.name = "breadcrumb"
  <2>1. up = [upload EXCEPT !.crumbs[part.file] = crumbFiles[part.file]]
    BY <1>4 DEF ReadPart
  <2>2. /\ DOMAIN up = UploadFields /\ up.attachments = upload.attachments
        /\ up.crumbs = [upload.crumbs EXCEPT ![part.file] = crumbFiles[part.file]]
    BY <1>1, <2>1 DEF UploadFields
  <2> QED BY <1>1, <1>4, <2>2
<1>5. CASE part.name = "sentry"
  <2>1. PICK side : up = [upload EXCEPT !.sidecar = side]
    BY <1>5 DEF ReadPart
  <2> QED BY <1>1, <1>5, <2>1 DEF UploadFields
<1>6. CASE part.name = "file"
  <2>1. up = [upload EXCEPT !.attachments = Append(upload.attachments, part.bytes)]
    BY <1>6 DEF ReadPart
  <2>2. Append(upload.attachments, part.bytes) \in Seq(Nat)
    BY <1>1, <1>6
  <2> QED BY <1>1, <1>6, <2>1, <2>2 DEF UploadFields
<1>7. CASE part.name = "field"
  <2>1. PICK extra : up = [upload EXCEPT !.extra = extra]
    BY <1>7 DEF ReadPart
  <2> QED BY <1>1, <1>7, <2>1 DEF UploadFields
<1> QED BY <1>2, <1>3, <1>4, <1>5, <1>6, <1>7

LEMMA ParsePartInv == CrashInv /\ ParsePart => CrashInv'
<1> SUFFICES ASSUME CrashInv, ParsePart PROVE CrashInv'
  OBVIOUS
<1>1. PICK parts, n : parts = dump.case.parts /\ n = dump.next
  OBVIOUS
<1>2. /\ dump.step = "parsing" /\ n <= Len(parts)
      /\ upload' = ReadPart(upload, parts[n])
      /\ dump' = [dump EXCEPT !.next = n + 1]
      /\ UNCHANGED <<crumbVars, crumbFiles, crumbActive, crumbsWritten, tables, cfiCache,
                     dumpEvent, envelope>>
  BY <1>1 DEF ParsePart, crumbVars
<1>3. /\ Len(parts) \in Nat
      /\ \A j \in 1..Len(parts) :
           /\ parts[j].name \in {"dump", "event", "breadcrumb", "sentry", "file", "field"}
           /\ parts[j].name = "breadcrumb" => parts[j].file \in 1..2
           /\ parts[j].name = "file" => parts[j].bytes \in Nat
  BY <1>1, PartsAre DEF CrashInv
<1>4. n \in Nat /\ n \in 1..Len(parts)
  <2>1. n \in Nat \ {0}
    BY <1>1 DEF CrashInv, CrashTyped
  <2> QED BY <1>2, <1>3, <2>1
<1>5. /\ DOMAIN upload' = UploadFields
      /\ upload'.crumbs \in [1..2 -> Seq(Nat)]
      /\ upload'.attachments \in Seq(Nat)
      /\ \A m \in 1..2 : upload'.crumbs[m] = IF parts[n].name = "breadcrumb" /\ parts[n].file = m
                                             THEN crumbFiles[m] ELSE upload.crumbs[m]
  BY <1>2, <1>3, <1>4, ReadPartTyped DEF CrashInv
<1>6. /\ dump' \in [case : DumpCase, step : DumpSteps, next : Nat \ {0}]
      /\ dump'.step = "parsing" /\ dump'.case = dump.case /\ dump'.next = n + 1
  <2>1. dump \in [case : DumpCase, step : DumpSteps, next : Nat \ {0}]
    BY DEF CrashInv, CrashTyped
  <2>2. n + 1 \in Nat \ {0} /\ dump.step = "parsing" /\ dump' = [dump EXCEPT !.next = n + 1]
    BY <1>2, <1>4
  <2> QED BY ONLY <2>1, <2>2
<1>7. CrashTyped'
  BY <1>2, <1>5, <1>6 DEF CrashInv, CrashTyped
<1>8. CrumbsRotate'
  BY <1>2 DEF CrashInv, CrumbsRotate
<1>9. PartsRead'
  <2>1. ASSUME NEW j \in 1..n, parts[j].name = "breadcrumb"
        PROVE  upload'.crumbs[parts[j].file] = crumbFiles[parts[j].file]
    <3>1. parts[j].file \in 1..2
      BY <1>3, <1>4, <2>1
    <3>2. CASE j = n
      BY <1>5, <2>1, <3>1, <3>2
    <3>3. CASE j \in 1..(n - 1)
      <4>1. upload.crumbs[parts[j].file] = crumbFiles[parts[j].file]
        BY <1>1, <2>1, <3>3 DEF CrashInv, PartsRead
      <4> QED BY <1>5, <3>1, <4>1
    <3> QED BY <1>4, <3>2, <3>3
  <2>2. (n + 1) - 1 = n /\ n + 1 <= Len(parts) + 1
    BY <1>3, <1>4
  <2> QED BY <1>1, <1>2, <1>6, <2>1, <2>2 DEF PartsRead
<1>10. SelectedTables'
  BY <1>2, <1>6, SelectedStay DEF CrashInv, SelectedTables
<1>11. MadeFromUpload'
  BY <1>2 DEF CrashInv, MadeFromUpload
<1> QED BY <1>7, <1>8, <1>9, <1>10, <1>11 DEF CrashInv

LEMMA EndPartsInv == CrashInv /\ EndParts => CrashInv'
<1> SUFFICES ASSUME CrashInv, EndParts PROVE CrashInv'
  OBVIOUS
<1>1. PICK step : step = IF upload.dump THEN "parsed" ELSE "rejected"
  OBVIOUS
<1>2. /\ dump.step = "parsing" /\ dump' = [dump EXCEPT !.step = step]
      /\ dump.next > Len(dump.case.parts)
      /\ UNCHANGED <<crumbVars, crumbFiles, upload, tables, cfiCache, dumpEvent, envelope>>
  BY <1>1 DEF EndParts, crumbVars
<1>3. /\ CrashTyped' /\ CrumbsRotate'
      /\ dump'.step = step /\ dump'.case = dump.case /\ dump'.next = dump.next
  <2>1. step \in DumpSteps /\ cfiCache' \subseteq {r.path : r \in CfiRows}
    BY <1>1, <1>2 DEF DumpSteps, CrashInv, CrashTyped
  <2> QED BY <1>2, <2>1, QuietTyped DEF CrashInv
<1>4. dump.next = Len(dump.case.parts) + 1
  <2>1. Len(dump.case.parts) \in Nat /\ dump.next \in Nat
    BY PartsAre DEF CrashInv, CrashTyped
  <2> QED BY <1>2, <2>1 DEF CrashInv, PartsRead
<1>5. PartsRead'
  BY <1>1, <1>2, <1>3, <1>4, LaterPartsRead DEF CrashInv
<1>6. SelectedTables'
  BY <1>2, <1>3, SelectedStay DEF CrashInv, SelectedTables
<1>7. MadeFromUpload'
  BY <1>2, <1>3, MadeStays DEF CrashInv, MadeFromUpload
<1> QED BY <1>3, <1>5, <1>6, <1>7 DEF CrashInv

\* Tables are those of selected rows, cached or parsed.
LEMMA LookUpTablesInv == CrashInv /\ LookUpTables => CrashInv'
<1> SUFFICES ASSUME CrashInv, LookUpTables PROVE CrashInv'
  OBVIOUS
<1>1. PICK step \in {"loaded", "loading"} :
        /\ dump' = [dump EXCEPT !.step = step]
        /\ dump.step = "parsed" /\ tables' \subseteq {r.debug : r \in SelectedRows}
        /\ UNCHANGED <<crumbVars, crumbFiles, upload, cfiCache, dumpEvent, envelope>>
  <2>1. tables' = {r.debug : r \in {s \in SelectedRows : s.path \in cfiCache}} \/ tables' = {}
    BY DEF LookUpTables
  <2>2. tables' \subseteq {r.debug : r \in SelectedRows}
    BY <2>1
  <2>3. UNCHANGED <<crumbVars, crumbFiles, upload, cfiCache, dumpEvent, envelope>>
    BY DEF LookUpTables, crumbVars
  <2>4. \/ dump' = [dump EXCEPT !.step = "loaded"]
        \/ dump' = [dump EXCEPT !.step = "loading"]
    BY DEF LookUpTables
  <2>5. dump.step = "parsed"
    BY DEF LookUpTables
  <2> QED BY <2>2, <2>3, <2>4, <2>5
<1>2. /\ CrashTyped' /\ CrumbsRotate'
      /\ dump'.step = step /\ dump'.case = dump.case /\ dump'.next = dump.next
  <2>1. step \in DumpSteps /\ cfiCache' \subseteq {r.path : r \in CfiRows}
    BY <1>1 DEF DumpSteps, CrashInv, CrashTyped
  <2> QED BY <1>1, <2>1, QuietTyped DEF CrashInv
<1>3. PartsRead'
  BY <1>1, <1>2, LaterPartsRead DEF CrashInv
<1>4. SelectedTables'
  BY <1>1, <1>2, SelectedStay DEF SelectedTables
<1>5. MadeFromUpload'
  BY <1>1, <1>2, MadeStays DEF CrashInv, MadeFromUpload
<1> QED BY <1>2, <1>3, <1>4, <1>5 DEF CrashInv

LEMMA ParseTablesInv == CrashInv /\ ParseTables => CrashInv'
<1> SUFFICES ASSUME CrashInv, ParseTables PROVE CrashInv'
  OBVIOUS
<1>1. PICK readable \in SUBSET {r \in SelectedRows : r.path \notin cfiCache} :
        /\ cfiCache' = cfiCache \cup {r.path : r \in readable}
        /\ \/ tables' = tables \cup {r.debug : r \in readable}
           \/ tables' = tables
  BY DEF ParseTables
<1>2. /\ dump.step = "loading" /\ dump' = [dump EXCEPT !.step = "loaded"]
      /\ UNCHANGED <<crumbVars, crumbFiles, upload, dumpEvent, envelope>>
  BY DEF ParseTables, crumbVars
<1>3. readable \subseteq SelectedRows /\ SelectedRows \subseteq CfiRows
  BY DEF SelectedRows, FittingRows
<1>4. /\ CrashTyped' /\ CrumbsRotate'
      /\ dump'.step = "loaded" /\ dump'.case = dump.case /\ dump'.next = dump.next
  <2>1. cfiCache \subseteq {r.path : r \in CfiRows}
    BY DEF CrashInv, CrashTyped
  <2>2. cfiCache' \subseteq {r.path : r \in CfiRows}
    BY <1>1, <1>3, <2>1
  <2>3. "loaded" \in DumpSteps
    BY DEF DumpSteps
  <2> QED BY <1>2, <2>2, <2>3, QuietTyped DEF CrashInv
<1>5. PartsRead'
  BY <1>2, <1>4, LaterPartsRead DEF CrashInv
<1>6. SelectedTables'
  <2>1. tables \subseteq {r.debug : r \in SelectedRows}
    BY DEF CrashInv, SelectedTables
  <2>2. tables' \subseteq {r.debug : r \in SelectedRows}
    BY <1>1, <1>3, <2>1
  <2> QED BY <1>4, <2>2, SelectedStay DEF SelectedTables
<1>7. MadeFromUpload'
  BY <1>2, <1>4, MadeStays DEF CrashInv, MadeFromUpload
<1> QED BY <1>4, <1>5, <1>6, <1>7 DEF CrashInv

\* The event is made once, of the whole request.
LEMMA SynthesizeEventInv == CrashInv /\ SynthesizeEvent => CrashInv'
<1> SUFFICES ASSUME CrashInv, SynthesizeEvent PROVE CrashInv'
  OBVIOUS
<1>1. /\ dump.step = "loaded" /\ UNCHANGED <<crumbVars, crumbFiles, upload, tables, cfiCache, envelope>>
  BY DEF SynthesizeEvent, crumbVars
<1>2. envelope = <<>> /\ dumpEvent = NoEvent
  BY <1>1 DEF CrashInv, MadeFromUpload
<1>3. PICK step \in {"walked", "rejected"} :
        /\ dump' = [dump EXCEPT !.step = step]
        /\ \/ step = "walked" /\ dumpEvent' = << SynthesizedEvent(dump.case, upload) >>
           \/ step = "rejected" /\ dumpEvent' = dumpEvent
  BY DEF SynthesizeEvent
<1>4. /\ CrashTyped' /\ CrumbsRotate'
      /\ dump'.step = step /\ dump'.case = dump.case /\ dump'.next = dump.next
  <2>1. step \in DumpSteps /\ cfiCache' \subseteq {r.path : r \in CfiRows}
    BY <1>1 DEF DumpSteps, CrashInv, CrashTyped
  <2> QED BY <1>1, <1>3, <2>1, QuietTyped DEF CrashInv
<1>5. PartsRead'
  BY <1>1, <1>4, LaterPartsRead DEF CrashInv
<1>6. SelectedTables'
  BY <1>1, <1>4, SelectedStay DEF CrashInv, SelectedTables
<1>7. MadeFromUpload'
  <2>1. envelope' = <<>>
    BY <1>1, <1>2
  <2>2. CASE step = "walked"
    <3>1. SynthesizedEvent(dump.case, upload)' = SynthesizedEvent(dump.case, upload)
      BY <1>1, <1>4 DEF SynthesizedEvent
    <3> QED BY <1>1, <1>3, <1>4, <2>1, <2>2, <3>1 DEF MadeFromUpload
  <2>3. CASE step = "rejected"
    BY <1>2, <1>3, <2>1, <2>3 DEF MadeFromUpload, NoEvent
  <2> QED BY <1>3, <2>2, <2>3
<1> QED BY <1>4, <1>5, <1>6, <1>7 DEF CrashInv

LEMMA BuildEnvelopeInv == CrashInv /\ BuildEnvelope => CrashInv'
<1> SUFFICES ASSUME CrashInv, BuildEnvelope PROVE CrashInv'
  OBVIOUS
<1>1. /\ dump.step = "walked" /\ dump' = [dump EXCEPT !.step = "stored"]
      /\ envelope' = << KeptParts(dump.case.eventBytes, DumpParts) >>
      /\ UNCHANGED <<crumbVars, crumbFiles, upload, tables, cfiCache, dumpEvent>>
  BY DEF BuildEnvelope, crumbVars
<1>2. /\ CrashTyped' /\ CrumbsRotate'
      /\ dump'.step = "stored" /\ dump'.case = dump.case /\ dump'.next = dump.next
  <2>1. "stored" \in DumpSteps /\ cfiCache' \subseteq {r.path : r \in CfiRows}
    BY <1>1 DEF DumpSteps, CrashInv, CrashTyped
  <2> QED BY <1>1, <2>1, QuietTyped DEF CrashInv
<1>3. PartsRead'
  BY <1>1, <1>2, LaterPartsRead DEF CrashInv
<1>4. SelectedTables'
  BY <1>1, <1>2, SelectedStay DEF CrashInv, SelectedTables
<1>5. MadeFromUpload'
  <2>1. DumpParts' = DumpParts
    BY <1>1, <1>2 DEF DumpParts
  <2> QED BY <1>1, <1>2, <2>1 DEF CrashInv, MadeFromUpload
<1> QED BY <1>2, <1>3, <1>4, <1>5 DEF CrashInv

LEMMA CrashStepInv == CrashInv /\ [MinidumpNext]_minidumpVars => CrashInv'
<1> SUFFICES ASSUME CrashInv, [MinidumpNext]_minidumpVars PROVE CrashInv'
  OBVIOUS
<1>1. CASE UNCHANGED minidumpVars
  <2>1. /\ UNCHANGED <<crumbFiles, crumbActive, crumbsWritten, dump, upload, tables, cfiCache,
                       dumpEvent, envelope>>
    BY <1>1 DEF minidumpVars, crumbVars
  <2>2. CrashTyped' /\ CrumbsRotate' /\ PartsRead'
    BY <2>1 DEF CrashInv, CrashTyped, CrumbsRotate, PartsRead
  <2>3. SelectedTables'
    BY <2>1, SelectedStay DEF CrashInv, SelectedTables
  <2>4. MadeFromUpload'
    BY <2>1, MadeStays DEF CrashInv, MadeFromUpload
  <2> QED BY <2>2, <2>3, <2>4 DEF CrashInv
<1> QED
  BY <1>1, WriteCrumbInv, ClientCrashesInv, ParsePartInv, EndPartsInv, LookUpTablesInv,
     ParseTablesInv, SynthesizeEventInv, BuildEnvelopeInv DEF MinidumpNext

\* The inductive invariant holds in every state of every request.
THEOREM CrashInvariant == MinidumpSpec => []CrashInv
BY CrashInitInv, CrashStepInv, PTL DEF MinidumpSpec

-----------------------------------------------------------------------------
\* What follows from it.

LEMMA NewestAreSent == CrashInv => NewestBreadcrumbs
<1> SUFFICES ASSUME CrashInv, dumpEvent # NoEvent, SendsBreadcrumbs, Sidecar(upload).crumbs = <<>>
             PROVE  LET crumbs == dumpEvent[1].crumbs
                        least == IF crumbsWritten < CrumbLimit THEN crumbsWritten ELSE CrumbLimit
                    IN  /\ Len(crumbs) >= least
                        /\ \A i \in DOMAIN crumbs : crumbs[i] = crumbsWritten - Len(crumbs) + i
  BY DEF NewestBreadcrumbs
<1>1. PICK parts : parts = dump.case.parts
  OBVIOUS
<1>2. /\ parts \in Seq(ToSet(parts)) /\ Len(parts) \in Nat
      /\ dump.next = Len(parts) + 1
      /\ dumpEvent = << SynthesizedEvent(dump.case, upload) >>
  <2>1. dump.step \in {"walked", "stored"} /\ dumpEvent = << SynthesizedEvent(dump.case, upload) >>
    BY DEF CrashInv, MadeFromUpload
  <2>2. dump.next = Len(parts) + 1
    BY <1>1, <2>1 DEF CrashInv, PartsRead
  <2>3. parts \in Seq(ToSet(parts)) /\ Len(parts) \in Nat
    BY <1>1, PartsAre DEF CrashInv
  <2> QED BY <2>1, <2>2, <2>3
<1>3. ASSUME NEW n \in 1..2 PROVE upload.crumbs[n] = crumbFiles[n]
  <2>1. PICK part \in ToSet(parts) : part.name = "breadcrumb" /\ part.file = n
    BY <1>1 DEF SendsBreadcrumbs
  <2>2. PICK j \in 1..Len(parts) : part = parts[j]
    BY <1>2, <2>1 DEF ToSet
  <2>3. j \in 1..(dump.next - 1)
    BY <1>2
  <2> QED BY <1>1, <2>1, <2>2, <2>3 DEF CrashInv, PartsRead
<1>4. PICK new, old, crumbs :
        /\ new = crumbFiles[crumbActive] /\ old = crumbFiles[3 - crumbActive]
        /\ crumbs = MergeBreadcrumbs(crumbFiles[1], crumbFiles[2])
  OBVIOUS
<1>5. dumpEvent[1].crumbs = crumbs
  <2>1. dumpEvent[1] = SynthesizedEvent(dump.case, upload)
    BY <1>2
  <2>2. dumpEvent[1].crumbs = MergeBreadcrumbs(upload.crumbs[1], upload.crumbs[2])
    BY <2>1 DEF SynthesizedEvent
  <2> QED BY <1>3, <1>4, <2>2
<1>6. /\ new \in Seq(Nat) /\ old \in Seq(Nat) /\ crumbsWritten \in Nat
      /\ Rotation(new, old, crumbsWritten)
      /\ \/ crumbFiles[1] = new /\ crumbFiles[2] = old
         \/ crumbFiles[1] = old /\ crumbFiles[2] = new
  BY <1>4 DEF CrashInv, CrashTyped, CrumbsRotate
<1>7. Newest(crumbs, crumbsWritten)
  BY <1>4, <1>6, MergedAreNewest
<1> QED BY <1>5, <1>7 DEF Newest

LEMMA TablesAreSelected == CrashInv => TablesFitTheDump
<1> SUFFICES ASSUME CrashInv, NEW id \in tables
             PROVE  /\ \E m \in ToSet(dump.case.modules) : m.debug = id
                    /\ \E r \in SelectedRows : r.debug = id /\ r.family = dump.case.cpu
  BY DEF TablesFitTheDump
<1>1. PICK r \in SelectedRows : r.debug = id
  BY DEF CrashInv, SelectedTables
<1>2. r.family = dump.case.cpu /\ \E m \in ToSet(dump.case.modules) : m.debug = r.debug
  BY DEF SelectedRows, FittingRows
<1> QED BY <1>1, <1>2

LEMMA EnvelopeIsKept == CrashInv => EnvelopeFits
<1> SUFFICES ASSUME CrashInv, envelope # <<>> PROVE EnvelopeFits
  BY DEF EnvelopeFits
<1>1. PICK event, parts, k :
        event = dump.case.eventBytes /\ parts = DumpParts /\ k = KeptParts(event, parts)
  OBVIOUS
<1>2. envelope = <<k>>
  BY <1>1 DEF CrashInv, MadeFromUpload
<1>3. event \in Nat /\ parts \in Seq(Nat)
  <2>1. dump.case \in DumpCase /\ upload.attachments \in Seq(Nat)
    BY DEF CrashInv, CrashTyped
  <2>2. dump.case.dumpBytes \in Nat /\ dump.case.eventBytes \in Nat
    BY <2>1, MinidumpAssumption DEF MinidumpAssumption
  <2> QED BY <1>1, <2>1, <2>2 DEF DumpParts
<1>4. /\ k \in 0..Len(parts)
      /\ k > 0 => EnvelopeBytes(event, parts, k) <= MaxEnvelope
      /\ k < Len(parts) => EnvelopeBytes(event, parts, k + 1) > MaxEnvelope
  BY <1>1, <1>3, KeptPartsFit
<1>5. envelope[1] = k
  BY <1>2
<1> QED BY <1>1, <1>4, <1>5 DEF EnvelopeFits

LEMMA CrashIsTyped == CrashInv => MinidumpTypeOK
<1> SUFFICES ASSUME CrashInv PROVE MinidumpTypeOK
  OBVIOUS
<1>1. crumbActive \in 1..2 /\ dump.step \in DumpSteps /\ cfiCache \subseteq {r.path : r \in CfiRows}
  BY DEF CrashInv, CrashTyped
<1>2. ASSUME NEW n \in 1..2 PROVE Len(crumbFiles[n]) <= CrumbLimit
  <2>1. CrumbLimit \in Nat \ {0}
    BY MinidumpAssumption DEF MinidumpAssumption
  <2>2. n = crumbActive \/ n = 3 - crumbActive
    BY <1>1
  <2>3. /\ Len(crumbFiles[crumbActive]) <= CrumbLimit
        /\ Len(crumbFiles[3 - crumbActive]) <= CrumbLimit
    BY <2>1 DEF CrashInv, CrumbsRotate, Rotation
  <2> QED BY <2>2, <2>3
<1>3. tables \subseteq {r.debug : r \in CfiRows}
  BY DEF CrashInv, SelectedTables, SelectedRows, FittingRows
<1>4. Len(dumpEvent) <= 1
  <2>1. PICK event : event = SynthesizedEvent(dump.case, upload)
    OBVIOUS
  <2>2. dumpEvent = <<>> \/ dumpEvent = <<event>>
    BY <2>1 DEF CrashInv, MadeFromUpload, NoEvent
  <2>3. PICK length : length = Len(dumpEvent)
    OBVIOUS
  <2>4. length = 0 \/ length = 1
    <3>1. CASE dumpEvent = <<>>
      BY <2>3, <3>1
    <3>2. CASE dumpEvent = <<event>>
      BY <2>3, <3>2
    <3> QED BY <2>2, <3>1, <3>2
  <2>5. length <= 1
    BY ONLY <2>4
  <2> QED BY <2>3, <2>5
<1> QED BY <1>1, <1>2, <1>3, <1>4 DEF MinidumpTypeOK, DumpSteps

\* The types of the crash's state, of which the files' lengths and the tables'
\* identifiers take the rotation and the selection.
THEOREM MinidumpTypeCorrect == MinidumpSpec => []MinidumpTypeOK
BY CrashInvariant, CrashIsTyped, PTL

\* Whatever crashes, whatever the request's parts and their order (parse_multipart,
\* ingest/minidump.rs): the event ends with the client's newest breadcrumbs
\* (merge_breadcrumbs), the walk used tables of the dump's own modules and
\* processor only (ingest/cfi.rs), and the envelope lost no part it had room for
\* (build_envelope, api/minidump.rs).
THEOREM CrashIsReported == MinidumpSpec => []CrashReported
<1>1. CrashInv => CrashReported
  BY NewestAreSent, TablesAreSelected, EnvelopeIsKept DEF CrashReported
<1> QED BY <1>1, CrashInvariant, PTL

-----------------------------------------------------------------------------
\* Native frames: where a frame is looked up.

\* What the client sent, as the assumption on the constants has it.
LEMMA EventsAre ==
  ASSUME NEW e \in NativeEvent
  PROVE  /\ {"traces", "images", "signal", "program", "calls", "sent"} \subseteq DOMAIN e
         /\ DOMAIN e.images = 1..Len(e.images) /\ Len(e.images) \in Nat
         /\ DOMAIN e.traces = 1..Len(e.traces) /\ Len(e.traces) \in Nat
         /\ \A i \in DOMAIN e.images : e.images[i].size \in Nat /\ e.images[i].base \in Int
<1>1. /\ {"traces", "images", "signal", "program", "calls", "sent"} \subseteq DOMAIN e
      /\ e.images \in Seq(ToSet(e.images)) /\ e.traces \in Seq(ToSet(e.traces))
      /\ \A i \in DOMAIN e.images : e.images[i].size \in Nat /\ e.images[i].base \in Int
  BY NativeAssumption DEF NativeAssumption
<1>2. /\ DOMAIN e.images = 1..Len(e.images) /\ Len(e.images) \in Nat
      /\ DOMAIN e.traces = 1..Len(e.traces) /\ Len(e.traces) \in Nat
  BY <1>1
<1> QED BY <1>1, <1>2

WellSent(frames) ==
  \A i \in DOMAIN frames :
    /\ {"function", "file", "line", "inApp"} \subseteq DOMAIN frames[i]
    /\ frames[i].adjust \in {<<>>, <<FALSE>>, <<TRUE>>} /\ frames[i].context \in BOOLEAN

LEMMA TracesAre ==
  ASSUME NEW e \in NativeEvent, NEW t \in DOMAIN e.traces, NEW trace, trace = e.traces[t]
  PROVE  /\ {"frames", "adjust", "register"} \subseteq DOMAIN trace
         /\ trace.frames \in Seq(ToSet(trace.frames)) /\ Len(trace.frames) \in Nat
         /\ DOMAIN trace.frames = 1..Len(trace.frames) /\ e.sent[t] = trace.frames
         /\ e.calls[t] \in Seq(Nat) /\ TraceReported(e, t) /\ WellSent(trace.frames)
<1>1. PICK frames : frames = trace.frames
  OBVIOUS
<1>2. /\ {"frames", "adjust", "register"} \subseteq DOMAIN trace
      /\ frames \in Seq(ToSet(frames)) /\ e.sent[t] = frames
      /\ e.calls[t] \in Seq(Nat) /\ TraceReported(e, t)
      /\ \A f \in ToSet(frames) :
           /\ {"function", "file", "line", "inApp"} \subseteq DOMAIN f
           /\ f.adjust \in {<<>>, <<FALSE>>, <<TRUE>>} /\ f.context \in BOOLEAN
  BY <1>1, NativeAssumption DEF NativeAssumption
<1>3. /\ DOMAIN frames = 1..Len(frames) /\ Len(frames) \in Nat
      /\ \A i \in DOMAIN frames : frames[i] \in ToSet(frames)
  BY <1>2 DEF ToSet
<1>4. WellSent(frames)
  BY <1>2, <1>3 DEF WellSent
<1> QED BY <1>1, <1>2, <1>3, <1>4

\* What the client says of the frames that have addresses.
Addressed(frames) == \A i \in DOMAIN frames : HasAddress(frames[i])

LEMMA InnermostIsLast ==
  ASSUME NEW frames, NEW n \in Nat, DOMAIN frames = 1..n, n # 0, Addressed(frames)
  PROVE  Innermost(frames) = n
<1>1. {i \in DOMAIN frames : HasAddress(frames[i])} = 1..n
  BY DEF Addressed
<1>2. n \in 1..n /\ \A j \in 1..n : j <= n
  OBVIOUS
<1>3. PICK m : m = CHOOSE i \in 1..n : \A j \in 1..n : j <= i
  OBVIOUS
<1>4. m \in 1..n /\ n <= m
  BY <1>2, <1>3
<1> QED BY <1>1, <1>2, <1>3, <1>4 DEF Innermost

\* What caller_adjustments makes of it.
Said(how, i, n) ==
  CASE how = "auto" -> "auto"
    [] how # "auto" /\ (how = "exact" \/ (how = "innermost" /\ i = n)) -> "no"
    [] OTHER -> "yes"

LEMMA CallerSays ==
  ASSUME NEW trace, NEW n, n = Len(trace.frames), n \in Nat, DOMAIN trace.frames = 1..n,
         Addressed(trace.frames), WellSent(trace.frames),
         NEW how, SaysSo(how, trace), NEW i \in 1..n
  PROVE  CallerAdjustment(trace, i) = Said(how, i, n)
<1>1. Innermost(trace.frames) = n /\ n \in 1..n
  <2>1. n # 0 /\ n \in 1..n
    OBVIOUS
  <2> QED BY <2>1, InnermostIsLast
<1>2. <<>> # <<FALSE>> /\ <<>> # <<TRUE>> /\ <<FALSE>> # <<TRUE>>
  OBVIOUS
<1>3. CASE how = "exact"
  <2>1. ExplicitAdjustment(trace, i) = <<FALSE>>
    BY <1>1, <1>3 DEF SaysSo, ExplicitAdjustment, NoText
  <2> QED BY <1>2, <1>3, <2>1 DEF CallerAdjustment, Said
<1>4. CASE how = "innermost"
  <2>1. ExplicitAdjustment(trace, n) = <<FALSE>>
    BY <1>1, <1>4 DEF SaysSo, ExplicitAdjustment, NoText
  <2>2. CASE i = n
    BY <1>2, <1>4, <2>1, <2>2 DEF CallerAdjustment, Said
  <2>3. CASE i # n
    <3>1. ExplicitAdjustment(trace, i) = trace.frames[i].adjust /\ trace.frames[i].adjust # <<FALSE>>
      <4>1. i \in 1..(n - 1)
        BY <2>3
      <4> QED BY <1>1, <1>4, <2>3, <4>1 DEF SaysSo, ExplicitAdjustment, NoText
    <3> QED BY <1>1, <1>2, <1>4, <2>1, <2>3, <3>1 DEF CallerAdjustment, Said, Addressed, WellSent
  <2> QED BY <2>2, <2>3
<1>5. CASE how = "return"
  <2>1. ExplicitAdjustment(trace, n) = <<TRUE>>
    BY <1>1, <1>5 DEF SaysSo, ExplicitAdjustment, NoText
  <2>2. CASE i = n
    BY <1>2, <1>5, <2>1, <2>2 DEF CallerAdjustment, Said
  <2>3. CASE i # n
    <3>1. ExplicitAdjustment(trace, i) = trace.frames[i].adjust /\ trace.frames[i].adjust # <<FALSE>>
      <4>1. i \in 1..(n - 1)
        BY <2>3
      <4> QED BY <1>1, <1>5, <2>3, <4>1 DEF SaysSo, ExplicitAdjustment, NoText
    <3> QED BY <1>1, <1>2, <1>5, <2>1, <2>3, <3>1 DEF CallerAdjustment, Said, Addressed, WellSent
  <2> QED BY <2>2, <2>3
<1>6. CASE how = "auto"
  <2>1. \A j \in 1..n : ExplicitAdjustment(trace, j) = <<>>
    BY <1>1, <1>6 DEF SaysSo, ExplicitAdjustment, NoText
  <2> QED BY <1>2, <1>6, <2>1 DEF CallerAdjustment, Said
<1> QED BY <1>3, <1>4, <1>5, <1>6 DEF SaysSo

LEMMA Division ==
  ASSUME NEW x \in Int, NEW size \in Nat \ {0}
  PROVE  x = size * (x \div size) + (x % size) /\ x % size \in 0..(size - 1) /\ x \div size \in Int
OBVIOUS

LEMMA SmallMultiple ==
  ASSUME NEW size \in Nat \ {0}, NEW k \in Int, NEW r \in 0..(size - 1), size * k = r
  PROVE  r = 0
<1>1. CASE k >= 1
  <2>1. size * k >= size
    BY <1>1
  <2> QED BY <2>1
<1>2. CASE k <= -1
  <2>1. size * k <= -size
    BY <1>2
  <2> QED BY <2>1
<1>3. CASE k = 0
  BY <1>3
<1> QED BY <1>1, <1>2, <1>3

\* What follows an aligned address by an instruction is aligned.
LEMMA MultipleAfter ==
  ASSUME NEW x \in Int, NEW size \in Nat \ {0}, x % size = 0
  PROVE  (x + size) % size = 0
<1>1. PICK q, p, r : q = x \div size /\ p = (x + size) \div size /\ r = (x + size) % size
  OBVIOUS
<1>2. q \in Int /\ p \in Int /\ r \in 0..(size - 1) /\ x = size * q /\ x + size = size * p + r
  <2>1. q \in Int /\ x = size * q + (x % size)
    BY <1>1, Division
  <2>2. p \in Int /\ r \in 0..(size - 1) /\ x + size = size * p + r
    <3>1. PICK y : y = x + size
      OBVIOUS
    <3>2. y \in Int /\ p = y \div size /\ r = y % size
      BY <1>1, <3>1
    <3> QED BY <3>1, <3>2, Division
  <2>3. size * q \in Int
    BY <2>1
  <2> QED BY <2>1, <2>2, <2>3
<1>3. size * (q + 1 - p) = r
  BY <1>2
<1> QED BY <1>1, <1>2, <1>3, SmallMultiple

\* The address that is reported of a call.
ReportedAt(how, trace, i, signal, base, relative, call, size) ==
  IF base \in {NoBase, 0} \/ base + relative < FirstPage THEN relative = call
  ELSE /\ (base + call) % size = 0
       /\ relative = IF Exact(how, trace, i, signal, base + relative) THEN call ELSE call + size

\* However the client reports a call, it is the call that is looked up.
LEMMA LookupIsCall ==
  ASSUME NEW trace, NEW n, n = Len(trace.frames), n \in Nat, DOMAIN trace.frames = 1..n,
         Addressed(trace.frames), WellSent(trace.frames),
         NEW how, SaysSo(how, trace), NEW i \in 1..n, NEW signal,
         NEW cache, cache.arch \in DOMAIN Alignment,
         NEW image, image.base \in Int, NEW relative \in Int, NEW call \in Nat,
         NEW size, size = Alignment[cache.arch],
         ReportedAt(how, trace, i, signal, image.base, relative, call, size)
  PROVE  LookupAddress(cache, image, relative, trace, i, signal) = call
<1>1. size \in Nat \ {0}
  BY NativeAssumption DEF NativeAssumption
<1>2. PICK absolute : absolute = image.base + relative
  OBVIOUS
<1>3. CASE image.base \in {NoBase, 0} \/ absolute < FirstPage
  BY <1>2, <1>3 DEF LookupAddress, ReportedAt
<1>4. CASE ~(image.base \in {NoBase, 0} \/ absolute < FirstPage)
  <2>1. PICK exact : exact = Exact(how, trace, i, signal, absolute)
    OBVIOUS
  <2>2. (image.base + call) % size = 0 /\ relative = IF exact THEN call ELSE call + size
    BY <1>2, <1>4, <2>1 DEF ReportedAt
  <2>3. (image.base + call + size) % size = 0
    <3>1. image.base + call \in Int
      OBVIOUS
    <3> QED BY <1>1, <2>2, <3>1, MultipleAfter
  <2>4. absolute % size = 0
    <3>1. CASE exact
      BY <1>2, <2>2, <3>1
    <3>2. CASE ~exact
      <4>1. absolute = image.base + call + size
        <5>1. relative = call + size /\ absolute = image.base + relative
          BY <1>2, <2>2, <3>2
        <5>2. PICK base : base = image.base
          OBVIOUS
        <5>3. base \in Int /\ size \in Nat /\ call \in Nat /\ absolute = base + (call + size)
          BY <1>1, <5>1, <5>2
        <5>4. absolute = base + call + size
          BY ONLY <5>3
        <5> QED BY <5>2, <5>4
      <4> QED BY <2>3, <4>1
    <3> QED BY <3>1, <3>2
  <2>5. /\ AlignedAddress(absolute, cache.arch) = absolute
        /\ PreviousAddress(absolute, cache.arch) = absolute - size
    BY <1>1, <1>2, <2>4 DEF AlignedAddress, PreviousAddress
  <2>6. Innermost(trace.frames) = n
    <3>1. n # 0
      OBVIOUS
    <3> QED BY <3>1, InnermostIsLast
  <2>7. PICK adjusted :
          adjusted = CASE CallerAdjustment(trace, i) = "yes" -> PreviousAddress(absolute, cache.arch)
                       [] CallerAdjustment(trace, i) = "no" -> AlignedAddress(absolute, cache.arch)
                       [] OTHER -> AutoAddress(absolute, cache.arch, IsCrashing(trace, i), signal,
                                               trace.register)
    OBVIOUS
  <2>8. adjusted = IF exact THEN absolute ELSE absolute - size
    <3>0. PICK says : says = CallerAdjustment(trace, i)
      OBVIOUS
    <3>1. says = Said(how, i, n)
      BY <3>0, CallerSays
    <3>2. CASE how = "auto"
      <4>1. adjusted = AutoAddress(absolute, cache.arch, IsCrashing(trace, i), signal, trace.register)
        BY <2>7, <3>0, <3>1, <3>2 DEF Said
      <4>2. exact <=> /\ i = n \/ trace.frames[i].context
                      /\ signal = "crash" => trace.register \in {NoAddress, absolute}
        BY <2>1, <3>2 DEF Exact
      <4> QED BY <2>5, <2>6, <4>1, <4>2 DEF AutoAddress, IsCrashing
    <3>3. CASE how # "auto"
      <4>1. exact <=> (how = "exact" \/ (how = "innermost" /\ i = n))
        BY <2>1, <3>3 DEF Exact
      <4>2. says = IF exact THEN "no" ELSE "yes"
        BY <3>1, <3>3, <4>1 DEF Said
      <4> QED BY <2>5, <2>7, <3>0, <4>2
    <3> QED BY <3>2, <3>3
  <2>9. LookupAddress(cache, image, relative, trace, i, signal) = adjusted - image.base
    BY <1>2, <1>4, <2>7 DEF LookupAddress
  <2>10. adjusted - image.base = call
    <3>1. CASE exact
      <4>1. relative = call /\ adjusted = absolute
        BY <2>2, <2>8, <3>1
      <4> QED BY <1>2, <4>1
    <3>2. CASE ~exact
      <4>1. relative = call + size /\ adjusted = absolute - size
        BY <2>2, <2>8, <3>2
      <4>2. PICK base : base = image.base
        OBVIOUS
      <4>3. base \in Int /\ size \in Nat /\ absolute = base + (call + size)
        BY <1>1, <1>2, <4>1, <4>2
      <4>4. adjusted - base = call
        BY ONLY <4>1, <4>3, call \in Nat
      <4> QED BY <4>2, <4>4
    <3> QED BY <3>1, <3>2
  <2> QED BY <2>9, <2>10
<1> QED BY <1>3, <1>4

LEMMA LeastChosen ==
  ASSUME NEW T \in SUBSET Nat, NEW h \in T, \A i \in T : h <= i
  PROVE  (CHOOSE i \in T : \A j \in T : i <= j) = h
<1>1. PICK m : m = CHOOSE i \in T : \A j \in T : i <= j
  OBVIOUS
<1>2. m \in T /\ \A j \in T : m <= j
  BY <1>1
<1>3. m <= h /\ h <= m /\ m \in Nat /\ h \in Nat
  BY <1>2
<1> QED BY <1>1, <1>3

\* A frame that means an image is looked up in it.
LEMMA LocateFinds ==
  ASSUME NEW f, NEW images, DOMAIN images \subseteq Nat, NEW h \in ParsedImages(images),
         Means(f, images, h)
  PROVE  Locate(f, images) =
           << [image |-> images[h],
               relative |-> IF f.mode[1] = "absolute" THEN f.addr - images[h].base ELSE f.addr] >>
<1>1. ParsedImages(images) \subseteq Nat
  BY DEF ParsedImages
<1>2. CASE f.mode[1] = "id"
  <2>1. PICK found : found = {i \in ParsedImages(images) :
                                \/ f.mode[1] = "id" /\ images[i].id = f.mode[2]
                                \/ f.mode[1] = "index" /\ images[i].index = f.mode[2]}
    OBVIOUS
  <2>2. h \in found /\ found \subseteq Nat /\ \A i \in found : h <= i
    BY <1>1, <1>2, <2>1 DEF Means
  <2>3. (CHOOSE i \in found : \A j \in found : i <= j) = h
    BY <2>2, LeastChosen
  <2> QED BY <1>2, <2>1, <2>2, <2>3 DEF Locate, FirstImage
<1>3. CASE f.mode[1] = "index"
  <2>1. PICK found : found = {i \in ParsedImages(images) :
                                \/ f.mode[1] = "id" /\ images[i].id = f.mode[2]
                                \/ f.mode[1] = "index" /\ images[i].index = f.mode[2]}
    OBVIOUS
  <2>2. h \in found /\ found \subseteq Nat /\ \A i \in found : h <= i
    BY <1>1, <1>3, <2>1 DEF Means
  <2>3. (CHOOSE i \in found : \A j \in found : i <= j) = h
    BY <2>2, LeastChosen
  <2> QED BY <1>3, <2>1, <2>2, <2>3 DEF Locate, FirstImage
<1>4. CASE f.mode[1] = "absolute"
  <2>1. PICK found : found = {i \in ParsedImages(images) : InImage(f.addr, images[i])}
    OBVIOUS
  <2>2. h \in found /\ found \subseteq Nat /\ \A i \in found : h <= i
    BY <1>1, <1>4, <2>1 DEF Means
  <2>3. (CHOOSE i \in found : \A j \in found : i <= j) = h
    BY <2>2, LeastChosen
  <2>4. {i \in ParsedImages(images) :
           \/ f.mode[1] = "id" /\ images[i].id = f.mode[2]
           \/ f.mode[1] = "index" /\ images[i].index = f.mode[2]} = {}
    BY <1>4
  <2> QED BY <1>4, <2>1, <2>2, <2>3, <2>4 DEF Locate, FirstImage
<1> QED BY <1>2, <1>3, <1>4 DEF Means

\* A frame is looked up in an image that has a debug id, or nowhere.
LEMMA LocatedIsParsed ==
  ASSUME NEW f, NEW images, DOMAIN images \subseteq Nat, Locate(f, images) # <<>>
  PROVE  \E h \in ParsedImages(images) : \E relative :
           Locate(f, images) = << [image |-> images[h], relative |-> relative] >>
<1>1. PICK refers, inside :
        /\ refers = {i \in ParsedImages(images) :
                       \/ f.mode[1] = "id" /\ images[i].id = f.mode[2]
                       \/ f.mode[1] = "index" /\ images[i].index = f.mode[2]}
        /\ inside = {i \in ParsedImages(images) : InImage(f.addr, images[i])}
  OBVIOUS
<1>2. PICK first, second :
        /\ first = CHOOSE i \in refers : \A j \in refers : i <= j
        /\ second = CHOOSE i \in inside : \A j \in inside : i <= j
  OBVIOUS
<1>3. ASSUME NEW T \in SUBSET Nat, T # {} PROVE (CHOOSE i \in T : \A j \in T : i <= j) \in T
  <2>1. \E i \in T : \A j \in T : i <= j
    BY <1>3, LeastNumber
  <2> QED BY <2>1
<1>4. refers \subseteq ParsedImages(images) /\ inside \subseteq ParsedImages(images)
      /\ ParsedImages(images) \subseteq Nat
  BY <1>1 DEF ParsedImages
<1>5. CASE refers # {}
  <2>1. first \in ParsedImages(images)
    BY <1>2, <1>3, <1>4, <1>5
  <2>2. Locate(f, images) = << [image |-> images[first], relative |-> f.addr] >>
    BY <1>1, <1>2, <1>5 DEF Locate, FirstImage
  <2> QED BY <2>1, <2>2
<1>6. CASE refers = {}
  <2>1. inside # {} /\ Locate(f, images) =
          << [image |-> images[second], relative |-> f.addr - images[second].base] >>
    BY <1>1, <1>2, <1>6 DEF Locate, FirstImage
  <2>2. second \in ParsedImages(images)
    BY <1>2, <1>3, <1>4, <2>1
  <2> QED BY <2>1, <2>2
<1> QED BY <1>5, <1>6

\* What load_dif_rows reads is enough: no frame is looked up in another image.
RowsOf(e) ==
  [id \in {e.images[i].id : i \in ParsedImages(e.images)} \cap DOMAIN StoredCache |-> StoredCache[id]]

LEMMA CandidateSame ==
  ASSUME NEW e, NEW h \in ParsedImages(e.images), NEW image, image = e.images[h]
  PROVE  CandidateCache(RowsOf(e), image) = CandidateCache(StoredCache, image)
<1>1. PICK rows : rows = RowsOf(e)
  OBVIOUS
<1>2. image.id \in DOMAIN rows <=> image.id \in DOMAIN StoredCache
  BY <1>1 DEF RowsOf
<1>3. image.id \in DOMAIN rows => rows[image.id] = StoredCache[image.id]
  BY <1>1 DEF RowsOf
<1>4. CandidateCache(rows, image) = CandidateCache(StoredCache, image)
  <2>1. CASE image.id \in DOMAIN rows
    <3>1. PICK caches : caches = rows[image.id] /\ caches = StoredCache[image.id]
      BY <1>3, <2>1
    <3> QED BY <1>2, <2>1, <3>1 DEF CandidateCache
  <2>2. CASE image.id \notin DOMAIN rows
    BY <1>2, <2>2 DEF CandidateCache
  <2> QED BY <2>1, <2>2
<1> QED BY <1>1, <1>4

LEMMA ResolveSame ==
  ASSUME NEW e \in NativeEvent, NEW trace, NEW i, NEW signal
  PROVE  ResolveFrame(trace, i, e.images, RowsOf(e), signal)
           = ResolveFrame(trace, i, e.images, StoredCache, signal)
<1>1. PICK f, images, rows : f = trace.frames[i] /\ images = e.images /\ rows = RowsOf(e)
  OBVIOUS
<1>2. DOMAIN images \subseteq Nat
  BY <1>1, EventsAre
<1>3. CASE f.addr = BadAddress \/ Locate(f, images) = <<>>
  BY <1>1, <1>3 DEF ResolveFrame
<1>4. CASE Locate(f, images) # <<>>
  <2>1. PICK h \in ParsedImages(images) : \E relative :
          Locate(f, images) = << [image |-> images[h], relative |-> relative] >>
    BY <1>2, <1>4, LocatedIsParsed
  <2>2. Locate(f, images)[1].image = images[h]
    BY <2>1
  <2>3. CandidateCache(rows, images[h]) = CandidateCache(StoredCache, images[h])
    BY <1>1, CandidateSame
  <2> QED BY <1>1, <2>2, <2>3 DEF ResolveFrame
<1> QED BY <1>3, <1>4

\* A reported frame resolves to the symbols of its call.
LEMMA FrameResolves ==
  ASSUME NEW e \in NativeEvent, NEW t \in DOMAIN e.traces, NEW trace, trace = e.traces[t],
         NEW how, SaysSo(how, trace), \A j \in DOMAIN trace.frames : FrameReported(e, t, j, how),
         NEW i \in DOMAIN trace.frames, e.calls[t][i] \in Nat,
         NEW symbols, symbols = LookupSymbols(e.program, e.calls[t][i])
  PROVE  /\ HasAddress(trace.frames[i])
         /\ symbols \in Seq(ToSet(symbols))
         /\ \E image : ResolveFrame(trace, i, e.images, StoredCache, e.signal)
                         = << [image |-> image, locations |-> symbols] >>
<1>1. PICK n : n = Len(trace.frames)
  OBVIOUS
<1>2. n \in Nat /\ DOMAIN trace.frames = 1..n /\ WellSent(trace.frames)
  BY <1>1, TracesAre
<1>3. Addressed(trace.frames)
  <2>1. ASSUME NEW j \in DOMAIN trace.frames PROVE HasAddress(trace.frames[j])
    <3>1. trace.frames[j].addr \in Nat
      BY DEF FrameReported
    <3> QED BY <3>1 DEF HasAddress, NoAddress
  <2> QED BY <2>1 DEF Addressed
<1>4. PICK f, call, cache, size :
        /\ f = trace.frames[i] /\ call = e.calls[t][i] /\ cache = e.program
        /\ size = Alignment[cache.arch]
  OBVIOUS
<1>5. PICK h, image, relative :
        /\ h \in ParsedImages(e.images) /\ image = e.images[h]
        /\ relative = IF f.mode[1] = "absolute" THEN f.addr - image.base ELSE f.addr
        /\ cache.arch \in DOMAIN Alignment
        /\ f.addr \in Nat /\ Means(f, e.images, h)
        /\ CandidateCache(StoredCache, image) = cache /\ UsableCache(cache, image)
        /\ symbols \in Seq(ToSet(symbols)) /\ HasDebugInfo(symbols)
        /\ ReportedAt(how, trace, i, e.signal, image.base, relative, call, size)
  BY <1>4 DEF FrameReported, ReportedAt
<1>6. image.base \in Int /\ relative \in Int
  <2>1. h \in DOMAIN e.images
    BY <1>5 DEF ParsedImages
  <2>2. image.base \in Int
    BY <1>5, <2>1, EventsAre
  <2> QED BY <1>5, <2>2
<1>7. LookupAddress(cache, image, relative, trace, i, e.signal) = call
  <2>1. i \in 1..n /\ call \in Nat
    BY <1>2, <1>4
  <2>2. /\ size = Alignment[cache.arch] /\ cache.arch \in DOMAIN Alignment
        /\ ReportedAt(how, trace, i, e.signal, image.base, relative, call, size)
    BY <1>4, <1>5
  <2>3. PICK signal, base : signal = e.signal /\ base = image.base
    OBVIOUS
  <2>4. /\ ReportedAt(how, trace, i, signal, base, relative, call, size)
        /\ base \in Int /\ relative \in Int
    BY <1>6, <2>2, <2>3
  <2>5. LookupAddress(cache, image, relative, trace, i, signal) = call
    BY <1>1, <1>2, <1>3, <2>1, <2>2, <2>3, <2>4, LookupIsCall
  <2> QED BY <2>3, <2>5
<1>8. Locate(f, e.images) = << [image |-> image, relative |-> relative] >>
  <2>1. DOMAIN e.images \subseteq Nat
    BY EventsAre
  <2> QED BY <1>5, <2>1, LocateFinds
<1>9. Trusted(f, cache, symbols)
  <2>1. symbols # <<>>
    <3>1. DOMAIN <<>> = {} /\ Len(<<>>) = 0
      OBVIOUS
    <3> QED BY <1>5, <3>1 DEF HasDebugInfo
  <2> QED BY <1>5, <2>1 DEF Trusted
<1>10. ResolveFrame(trace, i, e.images, StoredCache, e.signal)
         = << [image |-> image, locations |-> symbols] >>
  <2>1. f.addr # BadAddress
    BY <1>5 DEF BadAddress
  <2>2. Locate(f, e.images) # <<>> /\ Locate(f, e.images)[1].image = image
        /\ Locate(f, e.images)[1].relative = relative
    BY <1>8
  <2>3. LookupSymbols(cache, call) = symbols
    BY <1>4
  <2> QED BY <1>4, <1>5, <1>7, <1>9, <2>1, <2>2, <2>3 DEF ResolveFrame
<1> QED BY <1>3, <1>5, <1>10 DEF Addressed

-----------------------------------------------------------------------------
\* Native frames: what a trace becomes.

SameLine(x, y) == x.function = y.function /\ x.file = y.file /\ x.line = y.line

\* Sequences of frames and of locations that show the same lines.
SameLines(x, y) ==
  \E m \in Nat :
    /\ Len(x) = m /\ Len(y) = m
    /\ x = [k \in 1..m |-> x[k]] /\ y = [k \in 1..m |-> y[k]]
    /\ \A k \in 1..m : SameLine(x[k], y[k])

LEMMA AppliedLine ==
  ASSUME NEW f, {"function", "file", "line", "inApp"} \subseteq DOMAIN f, NEW location, NEW image
  PROVE  SameLine(ApplyLocation(f, location, image), location)
<1>1. PICK inApp : ApplyLocation(f, location, image) =
                     [f EXCEPT !.function = location.function, !.file = location.file,
                               !.line = location.line, !.inApp = inApp]
  BY DEF ApplyLocation
<1> QED BY <1>1 DEF SameLine

\* The frames of a call: one for each of its locations, the outermost first.
LEMMA FrameExpands ==
  ASSUME NEW e \in NativeEvent, NEW t \in DOMAIN e.traces, NEW trace, trace = e.traces[t],
         NEW how, SaysSo(how, trace), \A j \in DOMAIN trace.frames : FrameReported(e, t, j, how),
         NEW i \in DOMAIN trace.frames, e.calls[t][i] \in Nat
  PROVE  SameLines(ExpandFrame(trace, i, e.images, RowsOf(e), e.signal),
                   Reverse(LookupSymbols(e.program, e.calls[t][i])))
<1>1. PICK f, symbols : f = trace.frames[i] /\ symbols = LookupSymbols(e.program, e.calls[t][i])
  OBVIOUS
<1>2. /\ HasAddress(f) /\ symbols \in Seq(ToSet(symbols))
      /\ \E image : ResolveFrame(trace, i, e.images, StoredCache, e.signal)
                      = << [image |-> image, locations |-> symbols] >>
  BY <1>1, FrameResolves
<1>3. PICK image : ResolveFrame(trace, i, e.images, RowsOf(e), e.signal)
                     = << [image |-> image, locations |-> symbols] >>
  <2>1. ResolveFrame(trace, i, e.images, RowsOf(e), e.signal)
          = ResolveFrame(trace, i, e.images, StoredCache, e.signal)
    BY ResolveSame
  <2> QED BY <1>2, <2>1
<1>4. PICK x, y, found : /\ x = ExpandFrame(trace, i, e.images, RowsOf(e), e.signal)
                         /\ y = Reverse(symbols)
                         /\ found = << [image |-> image, locations |-> symbols] >>
  OBVIOUS
<1>5. PICK m : m = Len(symbols)
  OBVIOUS
<1>6. m \in Nat /\ DOMAIN symbols = 1..m
  BY <1>2, <1>5
<1>7. y = [k \in 1..m |-> y[k]] /\ Len(y) = m
  <2>1. y = [k \in 1..m |-> symbols[(m - k) + 1]]
    BY <1>4, <1>5 DEF Reverse
  <2> QED BY <1>6, <2>1
<1>8. x = [k \in 1..m |-> ApplyLocation(f, y[k], image)]
  <2>1. found # <<>> /\ found[1].locations = symbols /\ found[1].image = image
    BY <1>4
  <2>2. x = [k \in DOMAIN symbols |-> ApplyLocation(f, y[k], image)]
    BY <1>1, <1>2, <1>3, <1>4, <2>1 DEF ExpandFrame
  <2> QED BY <1>6, <2>2
<1>9. x = [k \in 1..m |-> x[k]] /\ Len(x) = m
  BY <1>6, <1>8
<1>10. ASSUME NEW k \in 1..m PROVE SameLine(x[k], y[k])
  <2>1. x[k] = ApplyLocation(f, y[k], image)
    BY <1>8
  <2>2. {"function", "file", "line", "inApp"} \subseteq DOMAIN f
    <3>1. WellSent(trace.frames)
      BY TracesAre
    <3> QED BY <1>1, <3>1 DEF WellSent
  <2> QED BY <2>1, <2>2, AppliedLine
<1> QED BY <1>1, <1>4, <1>6, <1>7, <1>9, <1>10 DEF SameLines

\* Traces whose frames show the same lines show the same.
LEMMA FlattenedLines ==
  ASSUME NEW a, NEW b, NEW n \in Nat, Len(a) = n, Len(b) = n,
         n = 0 => a = <<>> /\ b = <<>>, \A i \in 1..n : SameLines(a[i], b[i])
  PROVE  Shown(FlattenSeq(a)) = Shown(FlattenSeq(b))
<1>1. PICK S, R, Rel : /\ S = UNION {ToSet(a[i]) : i \in 1..n}
                       /\ R = UNION {ToSet(b[i]) : i \in 1..n}
                       /\ Rel = {p \in S \X R : SameLine(p[1], p[2])}
  OBVIOUS
<1>2. ASSUME NEW i \in 1..n PROVE Alike(Rel, S, R, a[i], b[i])
  <2>1. PICK x, y : x = a[i] /\ y = b[i]
    OBVIOUS
  <2>2. SameLines(x, y)
    BY <2>1
  <2>3. PICK m \in Nat : /\ Len(x) = m /\ Len(y) = m
                          /\ x = [k \in 1..m |-> x[k]] /\ y = [k \in 1..m |-> y[k]]
                          /\ \A k \in 1..m : SameLine(x[k], y[k])
    BY <2>2 DEF SameLines
  <2>4. DOMAIN x = 1..m /\ DOMAIN y = 1..m
    BY <2>3
  <2>5. \A k \in 1..m : x[k] \in S /\ y[k] \in R
    <3>1. ToSet(x) \subseteq S
      BY <1>1, <2>1
    <3>2. ToSet(y) \subseteq R
      BY <1>1, <2>1
    <3>3. \A k \in 1..m : x[k] \in ToSet(x) /\ y[k] \in ToSet(y)
      BY <2>4 DEF ToSet
    <3> QED BY <3>1, <3>2, <3>3
  <2>6. x \in Seq(S) /\ y \in Seq(R)
    <3>1. x = [k \in 1..m |-> x[k]] /\ y = [k \in 1..m |-> y[k]]
      BY <2>3
    <3>2. x \in [1..m -> S] /\ y \in [1..m -> R]
      BY <2>5, <3>1
    <3>3. [1..m -> S] \subseteq Seq(S)
      OBVIOUS
    <3>4. [1..m -> R] \subseteq Seq(R)
      OBVIOUS
    <3> QED BY <3>2, <3>3, <3>4
  <2>7. \A k \in 1..m : <<x[k], y[k]>> \in Rel
    BY <1>1, <2>3, <2>5
  <2>8. Alike(Rel, S, R, x, y)
    BY <2>3, <2>6, <2>7 DEF Alike
  <2> QED BY <2>1, <2>8
<1>3. PICK u, v : u = FlattenSeq(a) /\ v = FlattenSeq(b)
  OBVIOUS
<1>4. Alike(Rel, S, R, u, v)
  BY <1>2, <1>3, FlattenAlike
<1>5. /\ DOMAIN u = 1..Len(u) /\ DOMAIN v = 1..Len(u)
      /\ \A k \in 1..Len(u) : SameLine(u[k], v[k])
  <2>1. u \in Seq(S) /\ v \in Seq(R) /\ Len(u) = Len(v) /\ \A k \in 1..Len(u) : <<u[k], v[k]>> \in Rel
    BY <1>4 DEF Alike
  <2>2. \A k \in 1..Len(u) : SameLine(u[k], v[k])
    BY <1>1, <2>1
  <2> QED BY <2>1, <2>2
<1>6. Shown(u) = Shown(v)
  BY <1>5 DEF Shown, SameLine
<1> QED BY <1>3, <1>6

\* A reported trace becomes its calls, and any other stays.
LEMMA TraceIsCalls ==
  ASSUME NEW e \in NativeEvent, NEW t \in DOMAIN e.traces
  PROVE  Shown(SymbolicateTrace(e.traces[t], e.images, RowsOf(e), e.signal).frames) =
           Shown(IF e.calls[t] = <<>> THEN e.sent[t] ELSE CallStack(e, t))
<1>1. PICK trace, n, calls : trace = e.traces[t] /\ n = Len(trace.frames) /\ calls = e.calls[t]
  OBVIOUS
<1>2. /\ n \in Nat /\ DOMAIN trace.frames = 1..n /\ e.sent[t] = trace.frames
      /\ calls \in Seq(Nat) /\ TraceReported(e, t) /\ {"frames"} \subseteq DOMAIN trace
      /\ trace.frames \in Seq(ToSet(trace.frames))
  BY <1>1, TracesAre
<1>3. PICK a : a = [i \in DOMAIN trace.frames |-> ExpandFrame(trace, i, e.images, RowsOf(e), e.signal)]
  OBVIOUS
<1>4. SymbolicateTrace(trace, e.images, RowsOf(e), e.signal).frames = FlattenSeq(a)
  BY <1>2, <1>3 DEF SymbolicateTrace
<1>5. CASE calls = <<>>
  <2>1. ASSUME NEW i \in DOMAIN trace.frames
        PROVE  ExpandFrame(trace, i, e.images, RowsOf(e), e.signal) = <<trace.frames[i]>>
    <3>1. HasAddress(trace.frames[i]) => ResolveFrame(trace, i, e.images, StoredCache, e.signal) = <<>>
      BY <1>1, <1>2, <1>5 DEF TraceReported
    <3>2. HasAddress(trace.frames[i]) => ResolveFrame(trace, i, e.images, RowsOf(e), e.signal) = <<>>
      BY <3>1, ResolveSame
    <3> QED BY <3>2 DEF ExpandFrame
  <2>2. a = [i \in DOMAIN trace.frames |-> <<trace.frames[i]>>]
    BY <1>3, <2>1
  <2>3. FlattenSeq(a) = trace.frames
    BY <1>2, <2>2, FlattenSingles
  <2> QED BY <1>1, <1>2, <1>4, <1>5, <2>3
<1>6. CASE calls # <<>>
  <2>1. PICK how : /\ Len(calls) = n /\ SaysSo(how, trace)
                   /\ \A j \in DOMAIN trace.frames : FrameReported(e, t, j, how)
    BY <1>1, <1>2, <1>6 DEF TraceReported
  <2>2. PICK b : b = [k \in DOMAIN calls |-> Reverse(LookupSymbols(e.program, calls[k]))]
    OBVIOUS
  <2>3. CallStack(e, t) = FlattenSeq(b)
    BY <1>1, <2>2 DEF CallStack
  <2>4. /\ DOMAIN calls = 1..n /\ n # 0 /\ a = [i \in 1..n |-> a[i]] /\ b = [i \in 1..n |-> b[i]]
        /\ Len(a) = n /\ Len(b) = n
    BY <1>2, <1>3, <1>6, <2>1, <2>2
  <2>5. ASSUME NEW i \in 1..n PROVE SameLines(a[i], b[i])
    <3>1. i \in DOMAIN trace.frames /\ e.calls[t][i] \in Nat
      BY <1>1, <1>2, <2>1
    <3>2. /\ a[i] = ExpandFrame(trace, i, e.images, RowsOf(e), e.signal)
          /\ b[i] = Reverse(LookupSymbols(e.program, e.calls[t][i]))
      BY <1>1, <1>3, <2>2, <2>4, <3>1
    <3>3. SameLines(ExpandFrame(trace, i, e.images, RowsOf(e), e.signal),
                    Reverse(LookupSymbols(e.program, e.calls[t][i])))
      BY <1>1, <2>1, <3>1, FrameExpands
    <3> QED BY <3>2, <3>3
  <2>6. Shown(FlattenSeq(a)) = Shown(FlattenSeq(b))
    BY <1>2, <2>4, <2>5, FlattenedLines
  <2> QED BY <1>1, <1>4, <1>6, <2>3, <2>6
<1> QED BY <1>5, <1>6

-----------------------------------------------------------------------------
\* Native frames: the invariant.

\* The event is the one that was sent, but for its traces.
SentAs(e) ==
  /\ DOMAIN nativeEvent = DOMAIN e
  /\ nativeEvent.images = e.images /\ nativeEvent.signal = e.signal
  /\ nativeEvent.program = e.program /\ nativeEvent.calls = e.calls /\ nativeEvent.sent = e.sent

\* Of those the ones before nativeTrace are done, all from the rows of the event.
DoneUntil(e, t) ==
  nativeEvent.traces =
    [n \in DOMAIN e.traces |->
       IF n < t THEN SymbolicateTrace(e.traces[n], e.images, RowsOf(e), e.signal) ELSE e.traces[n]]

NativeStates == {"pending", "not attempted", "missing map", "ok"}

NativeCounted ==
  /\ nativeOutcome \in [state : NativeStates, resolved : Nat, total : Nat]
  /\ nativeOutcome.resolved <= nativeOutcome.total

NativeFrom(e) ==
  /\ SentAs(e)
  /\ nativeTrace \in 1..(Len(e.traces) + 1) /\ DoneUntil(e, nativeTrace)
  /\ nativeRows \in {<<>>, <<RowsOf(e)>>}

NativeInv == NativeCounted /\ \E e \in NativeEvent : NativeFrom(e)

LEMMA NativeInitInv == NativeInit => NativeInv
<1> SUFFICES ASSUME NativeInit PROVE NativeInv
  OBVIOUS
<1>1. PICK e \in NativeEvent : e = nativeEvent
  BY DEF NativeInit
<1>2. NativeCounted
  BY DEF NativeInit, NativeCounted, NativeStates, Pending
<1>3. e.traces \in Seq(ToSet(e.traces)) /\ Len(e.traces) \in Nat /\ DOMAIN e.traces = 1..Len(e.traces)
  BY EventsAre, NativeAssumption DEF NativeAssumption
<1>4. nativeTrace = 1 /\ nativeRows = <<>>
  BY DEF NativeInit
<1>5. DoneUntil(e, 1)
  <2>1. PICK traces : traces = e.traces
    OBVIOUS
  <2>2. traces = [n \in DOMAIN traces |-> traces[n]] /\ \A n \in DOMAIN traces : ~(n < 1)
    BY <1>3, <2>1
  <2>3. traces = [n \in DOMAIN traces |->
          IF n < 1 THEN SymbolicateTrace(traces[n], e.images, RowsOf(e), e.signal) ELSE traces[n]]
    BY <2>2
  <2> QED BY <1>1, <2>1, <2>3 DEF DoneUntil
<1>6. NativeFrom(e)
  BY <1>1, <1>3, <1>4, <1>5 DEF NativeFrom, SentAs
<1> QED BY <1>2, <1>6 DEF NativeInv

LEMMA RejectNativeInv ==
  ASSUME NEW e \in NativeEvent, NativeCounted, NativeFrom(e), RejectNative
  PROVE  NativeCounted' /\ NativeFrom(e)'
<1>1. NativeCounted'
  BY DEF RejectNative, NativeCounted, NativeStates, Pending
<1>2. UNCHANGED <<nativeEvent, nativeTrace, nativeRows>>
  BY DEF RejectNative
<1>3. NativeFrom(e)'
  BY <1>2 DEF NativeFrom, SentAs, DoneUntil
<1> QED BY <1>1, <1>3

LEMMA LoadDifRowsInv ==
  ASSUME NEW e \in NativeEvent, NativeCounted, NativeFrom(e), LoadDifRows
  PROVE  NativeCounted' /\ NativeFrom(e)'
<1>1. NativeCounted'
  BY DEF LoadDifRows, NativeCounted, NativeStates, Pending
<1>2. UNCHANGED <<nativeEvent, nativeTrace>> /\ nativeRows' = <<RowsOf(e)>>
  <2>1. nativeEvent.images = e.images
    BY DEF NativeFrom, SentAs
  <2> QED BY <2>1 DEF LoadDifRows, RowsOf
<1>3. NativeFrom(e)'
  BY <1>2 DEF NativeFrom, SentAs, DoneUntil
<1> QED BY <1>1, <1>3

\* lookup_frames finishes one trace and counts its frames.
LEMMA FramesCounted ==
  ASSUME NEW e \in NativeEvent, NEW t \in DOMAIN e.traces, NEW trace, trace = e.traces[t],
         NEW images, NEW rows, NEW signal,
         NEW resolved, resolved = ResolvedIn(trace, images, rows, signal),
         NEW addressed, addressed = Cardinality({i \in DOMAIN trace.frames : HasAddress(trace.frames[i])})
  PROVE  resolved \in Nat /\ addressed \in Nat /\ resolved <= addressed
<1>1. PICK R, A :
        /\ R = {i \in DOMAIN trace.frames :
                  HasAddress(trace.frames[i]) /\ ResolveFrame(trace, i, images, rows, signal) # <<>>}
        /\ A = {i \in DOMAIN trace.frames : HasAddress(trace.frames[i])}
  OBVIOUS
<1>2. PICK n \in Nat : DOMAIN trace.frames = 1..n
  BY TracesAre
<1>3. IsFiniteSet(1..n) /\ A \subseteq 1..n /\ R \subseteq A
  BY <1>1, <1>2, FS_Interval
<1>4. IsFiniteSet(A)
  BY <1>3, FS_Subset
<1>5. IsFiniteSet(R) /\ Cardinality(R) <= Cardinality(A)
  BY <1>3, <1>4, FS_Subset
<1>6. Cardinality(R) \in Nat /\ Cardinality(A) \in Nat
  BY <1>4, <1>5, FS_CardinalityType
<1> QED BY <1>1, <1>5, <1>6 DEF ResolvedIn

LEMMA LookupFramesInv ==
  ASSUME NEW e \in NativeEvent, NativeCounted, NativeFrom(e), LookupFrames
  PROVE  NativeCounted' /\ NativeFrom(e)'
<1>1. PICK t, count : t = nativeTrace /\ count = Len(e.traces)
  OBVIOUS
<1>2. count \in Nat /\ DOMAIN e.traces = 1..count /\ "traces" \in DOMAIN e
  BY <1>1, EventsAre
<1>3. DOMAIN nativeEvent.traces = 1..count
  BY <1>2 DEF NativeFrom, DoneUntil
<1>4. t \in 1..count
  <2>1. Len(nativeEvent.traces) = count
    BY <1>2, <1>3
  <2>2. t \in 1..(count + 1) /\ t <= count
    BY <1>1, <2>1 DEF NativeFrom, LookupFrames
  <2> QED BY <1>2, <2>2
<1>5. PICK trace : trace = e.traces[t] /\ trace = nativeEvent.traces[nativeTrace]
  <2>1. nativeEvent.traces[t] = e.traces[t]
    BY <1>1, <1>2, <1>4 DEF NativeFrom, DoneUntil
  <2> QED BY <1>1, <2>1
<1>6. nativeRows = <<RowsOf(e)>> /\ nativeRows[1] = RowsOf(e)
  BY DEF NativeFrom, LookupFrames
<1>7. /\ nativeEvent' = [nativeEvent EXCEPT !.traces[nativeTrace] =
                           SymbolicateTrace(trace, e.images, RowsOf(e), e.signal)]
      /\ nativeTrace' = t + 1 /\ nativeRows' = nativeRows
  BY <1>1, <1>5, <1>6 DEF LookupFrames, NativeFrom, SentAs
<1>8. SentAs(e)'
  BY <1>7 DEF NativeFrom, SentAs
<1>9. DoneUntil(e, t + 1)'
  <2>1. PICK done : done = SymbolicateTrace(trace, e.images, RowsOf(e), e.signal)
    OBVIOUS
  <2>2. nativeEvent'.traces = [nativeEvent.traces EXCEPT ![t] = done]
    BY <1>1, <1>2, <1>7, <2>1 DEF NativeFrom, SentAs
  <2>3. nativeEvent'.traces = [n \in 1..count |-> IF n = t THEN done ELSE nativeEvent.traces[n]]
    BY <1>3, <2>2
  <2>4. \A n \in 1..count : (IF n = t THEN done ELSE nativeEvent.traces[n]) =
          (IF n < t + 1 THEN SymbolicateTrace(e.traces[n], e.images, RowsOf(e), e.signal) ELSE e.traces[n])
    BY <1>1, <1>2, <1>4, <1>5, <2>1 DEF NativeFrom, DoneUntil
  <2> QED BY <1>2, <2>3, <2>4 DEF DoneUntil
<1>10. NativeFrom(e)'
  BY <1>1, <1>2, <1>4, <1>6, <1>7, <1>8, <1>9 DEF NativeFrom
<1>11. NativeCounted'
  <2>1. PICK resolved, addressed :
          /\ resolved = ResolvedIn(trace, nativeEvent.images, nativeRows[1], nativeEvent.signal)
          /\ addressed = Cardinality({i \in DOMAIN trace.frames : HasAddress(trace.frames[i])})
    OBVIOUS
  <2>2. resolved \in Nat /\ addressed \in Nat /\ resolved <= addressed
    BY <1>2, <1>4, <1>5, <2>1, FramesCounted
  <2>3. PICK state \in NativeStates :
          nativeOutcome' = [state |-> state, resolved |-> nativeOutcome.resolved + resolved,
                            total |-> nativeOutcome.total + addressed]
    BY <1>5, <2>1 DEF LookupFrames, NativeStates
  <2> QED BY <2>2, <2>3 DEF NativeCounted
<1> QED BY <1>10, <1>11

\* Every step keeps the event the invariant speaks of.
THEOREM NativeInvariant == NativeSpec => []NativeInv
<1>1. ASSUME NativeInv, [NativeNext]_nativeVars PROVE NativeInv'
  <2>1. PICK e \in NativeEvent : NativeFrom(e)
    BY <1>1 DEF NativeInv
  <2>2. NativeCounted
    BY <1>1 DEF NativeInv
  <2>3. CASE UNCHANGED nativeVars
    BY <2>1, <2>2, <2>3 DEF nativeVars, NativeInv, NativeCounted, NativeFrom, SentAs, DoneUntil
  <2>4. CASE NativeNext
    BY <2>1, <2>2, <2>4, RejectNativeInv, LoadDifRowsInv, LookupFramesInv DEF NativeNext, NativeInv
  <2> QED BY <1>1, <2>3, <2>4
<1> QED BY <1>1, NativeInitInv, PTL DEF NativeSpec

LEMMA NativeIsTyped == NativeInv => NativeTypeOK
<1> SUFFICES ASSUME NativeInv PROVE NativeTypeOK
  OBVIOUS
<1>1. PICK e \in NativeEvent : NativeFrom(e)
  BY DEF NativeInv
<1>2. Len(nativeEvent.traces) = Len(e.traces)
  <2>1. Len(e.traces) \in Nat /\ DOMAIN nativeEvent.traces = 1..Len(e.traces)
    BY <1>1, EventsAre DEF NativeFrom, DoneUntil
  <2> QED BY <2>1
<1>3. nativeTrace \in 1..(Len(nativeEvent.traces) + 1)
  BY <1>1, <1>2 DEF NativeFrom
<1>4. Len(nativeRows) <= 1
  <2>1. PICK rows : rows = RowsOf(e)
    OBVIOUS
  <2>2. nativeRows = <<>> \/ nativeRows = <<rows>>
    BY <1>1, <2>1 DEF NativeFrom
  <2>3. CASE nativeRows = <<>>
    BY <2>3
  <2>4. CASE nativeRows = <<rows>>
    BY <2>4
  <2> QED BY <2>2, <2>3, <2>4
<1>5. nativeOutcome.state \in NativeStates /\ nativeOutcome.resolved \in 0..nativeOutcome.total
  BY DEF NativeInv, NativeCounted
<1> QED BY <1>3, <1>4, <1>5 DEF NativeTypeOK, NativeStates

\* The types of a symbolication: never more frames are resolved than had addresses.
THEOREM NativeTypeCorrect == NativeSpec => []NativeTypeOK
BY NativeInvariant, NativeIsTyped, PTL

LEMMA CallsAreShown == NativeInv => FramesAreTheCalls
<1> SUFFICES ASSUME NativeInv, NEW t \in DOMAIN nativeEvent.traces, t < nativeTrace
             PROVE  Shown(nativeEvent.traces[t].frames) =
                      Shown(IF nativeEvent.calls[t] = <<>> THEN nativeEvent.sent[t]
                            ELSE CallStack(nativeEvent, t))
  BY DEF FramesAreTheCalls
<1>1. PICK e \in NativeEvent : NativeFrom(e)
  BY DEF NativeInv
<1>2. t \in DOMAIN e.traces
      /\ nativeEvent.traces[t] = SymbolicateTrace(e.traces[t], e.images, RowsOf(e), e.signal)
  BY <1>1 DEF NativeFrom, DoneUntil
<1>3. nativeEvent.calls = e.calls /\ nativeEvent.sent = e.sent
      /\ CallStack(nativeEvent, t) = CallStack(e, t)
  BY <1>1 DEF NativeFrom, SentAs, CallStack
<1> QED BY <1>2, <1>3, TraceIsCalls

\* Whatever images, caches, instruction sizes and traces there are, and however
\* the client reports its addresses (symbolicate_native,
\* worker/native_symbolication.rs): a symbolicated trace shows the calls that ran,
\* inlined ones too, and a trace without symbols on file shows what was sent.
THEOREM TracesAreTheCalls == NativeSpec => []FramesAreTheCalls
BY NativeInvariant, CallsAreShown, PTL
=============================================================================
