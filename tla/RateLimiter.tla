---------------------------- MODULE RateLimiter ----------------------------
(***************************************************************************)
(* The rate limiter of the ingest routes, ingest/abuse.rs: a map, behind a *)
(* mutex, from public keys to the window they are counted in.  Windows are *)
(* fixed, not sliding: one begins with the first request after the last    *)
(* one's end.  The map is bounded and forgets the least recently used key. *)
(***************************************************************************)
EXTENDS Integers, FiniteSets, Sequences, SequencesExt

CONSTANTS
  IngestKey,      \* public keys
  KeyLimit,       \* KeyLimit[k]: requests a window, 0 for no limit
  RateWindow,     \* ticks of a window (60 s)
  TrackedKeys,    \* MAX_TRACKED_KEYS
  MaxIngestTime   \* bound on the clock

RateAssumption ==
  /\ RateWindow \in Nat \ {0} /\ TrackedKeys \in Nat \ {0}
  /\ KeyLimit \in [IngestKey -> Nat] /\ MaxIngestTime \in Nat
ASSUME RateAssumption

VARIABLES
  ingestTime,
  rateWindows,    \* [key, count, start], the most recently used first
  admittedAt,     \* history: admittedAt[k]: times of admissions
  othersSince     \* history: keys checked since k's last request

rateVars == <<rateWindows, admittedAt, othersSince>>
limiterVars == <<ingestTime, rateVars>>

RateTypeOK ==
  /\ ingestTime \in 0..MaxIngestTime
  /\ Len(rateWindows) <= TrackedKeys
  /\ \A w \in ToSet(rateWindows) : w.key \in IngestKey /\ w.start \in 0..ingestTime

RateInit ==
  /\ ingestTime = 0
  /\ rateWindows = <<>>
  /\ admittedAt = [k \in IngestKey |-> <<>>]
  /\ othersSince = [k \in IngestKey |-> {}]

\* Where a key is in the map.
Places(k) == {i \in DOMAIN rateWindows : rateWindows[i].key = k}
Place(k) == CHOOSE i \in Places(k) : TRUE
Tracked(k) == Places(k) # {}

\* The window of a key at its next request: a new one when it is not tracked,
\* a fresh one when the old one is over.
WindowNow(k) ==
  IF Tracked(k) /\ ingestTime - rateWindows[Place(k)].start < RateWindow
  THEN rateWindows[Place(k)]
  ELSE [key |-> k, count |-> 0, start |-> ingestTime]

WithinLimit(k) == WindowNow(k).count < KeyLimit[k]

\* The other windows: without the key's own, or without the least recently used
\* one when a new key needs its room.
OtherWindows(k) ==
  CASE Tracked(k) -> RemoveAt(rateWindows, Place(k))
    [] ~Tracked(k) /\ Len(rateWindows) = TrackedKeys -> Front(rateWindows)
    [] OTHER -> rateWindows

Charged(k) == [WindowNow(k) EXCEPT !.count = IF WithinLimit(k) THEN @ + 1 ELSE @]

CheckWindowInPlace(k) == \* mutant: only an admitted request makes its key the most recent
  rateWindows' = IF WithinLimit(k) \/ ~Tracked(k)
                 THEN <<Charged(k)>> \o OtherWindows(k) ELSE rateWindows

CheckWindowUnbounded(k) == \* mutant: a new key pushes out none
  rateWindows' = <<Charged(k)>> \o
    (IF Tracked(k) THEN OtherWindows(k) ELSE rateWindows)

\* A refused request, too, makes its key the most recently used.
CheckWindow(k) == rateWindows' = <<Charged(k)>> \o OtherWindows(k)

\* The admissions a limiter that remembered every key would know of: a key is
\* forgotten once TrackedKeys other keys were used after it.
Remembered(k) ==
  IF Cardinality(othersSince[k]) >= TrackedKeys THEN <<>> ELSE admittedAt[k]

RecordRate(k) ==
  /\ admittedAt' = [admittedAt EXCEPT ![k] =
       IF WithinLimit(k) THEN Append(Remembered(k), ingestTime) ELSE Remembered(k)]
  /\ othersSince' = [j \in IngestKey |-> IF j = k THEN {} ELSE othersSince[j] \cup {k}]

\* RateLimiter::check, under its mutex; a key without a limit is not counted.
CheckRate(k) ==
  IF KeyLimit[k] = 0 THEN UNCHANGED rateVars ELSE CheckWindow(k) /\ RecordRate(k)

Allowed(k) == KeyLimit[k] = 0 \/ WithinLimit(k)

RateTick ==
  /\ ingestTime < MaxIngestTime
  /\ ingestTime' = ingestTime + 1
  /\ UNCHANGED rateVars

RateNext ==
  \/ \E k \in IngestKey : CheckRate(k) /\ UNCHANGED ingestTime
  \/ RateTick

RateSpec == RateInit /\ [][RateNext]_limiterVars

------------------------------------------------------------------------------
(* Properties.                                                             *)

\* In any span of one window a key is admitted at most twice its limit (the end
\* of one window and the start of the next), unless as many other keys as are
\* tracked were used since: the map forgets no key earlier than that.
RateHonoured ==
  \A k \in IngestKey : KeyLimit[k] # 0 =>
    Cardinality({i \in DOMAIN admittedAt[k] : ingestTime - admittedAt[k][i] < RateWindow})
      <= 2 * KeyLimit[k]
=============================================================================
