---------------------------- MODULE ByteCappedLru ----------------------------
(***************************************************************************)
(* The cache of parsed maps and mapped files, util/byte_capped_lru.rs: a   *)
(* least-recently-used map with a cap on its entries and a budget of       *)
(* bytes.  Its caller holds a mutex around every operation.                *)
(*                                                                         *)
(* The byte counter is kept by hand.  An entry pushed out by the cap of    *)
(* the inner map is not subtracted from it: the counter then stays ahead   *)
(* of what is cached, by the bytes of lruLost.                             *)
(***************************************************************************)
EXTENDS Integers, Sequences, FiniteSets, SequencesExt

CONSTANTS
  LruKey,
  LruCost,      \* byte costs of values
  LruLimits,    \* <<entries, bytes>>: the caps a cache may be given
  MaxLruBytes   \* bound: the counter at which no more is put

LruAssumption ==
  /\ LruCost \subseteq Nat
  /\ LruLimits \subseteq (Nat \ {0}) \X Nat
  /\ MaxLruBytes \in Nat
ASSUME LruAssumption

VARIABLES
  lruEntries,   \* [key, bytes], the most recently used first
  lruLimits,    \* <<entries, bytes>>
  lruBytes,     \* current_bytes
  lruLost       \* history: bytes of entries that the inner map pushed out

lruVars == <<lruEntries, lruLimits, lruBytes, lruLost>>

\* The sum of the bytes of entries with different keys, as the number of the bytes.
BytesOf(S) == Cardinality(UNION {{e.key} \X (1..e.bytes) : e \in S})
TotalBytes(entries) == BytesOf(ToSet(entries))

SatSub(a, b) == IF a < b THEN 0 ELSE a - b

\* The entry of a key: a set of none or one.
OfKey(entries, k) == {e \in ToSet(entries) : e.key = k}

WithoutKey(entries, k) ==
  IF OfKey(entries, k) = {} THEN entries
  ELSE RemoveAt(entries, CHOOSE i \in DOMAIN entries : entries[i].key = k)

\* The least recently used entries are popped until the counter leaves room,
\* or nothing is left: the longest prefix that does.
PopUntil(entries, bytes, room) ==
  LET Fits(n) == bytes <= room + TotalBytes(SubSeq(entries, n + 1, Len(entries)))
      kept == {n \in 1..Len(entries) : Fits(n)}
  IN  IF kept = {} THEN <<>> ELSE SubSeq(entries, 1, CHOOSE n \in kept : \A m \in kept : m <= n)

LruInit ==
  /\ lruEntries = <<>>
  /\ lruLimits \in LruLimits
  /\ lruBytes = 0
  /\ lruLost = 0

LruTypeOK ==
  /\ \A e \in ToSet(lruEntries) : e.key \in LruKey /\ e.bytes \in LruCost
  /\ lruLimits \in LruLimits
  /\ lruBytes \in 0..(2 * MaxLruBytes)
  /\ lruLost \in 0..lruBytes

\* Room is made by the counter first, and only for a value below the budget;
\* then the inner map replaces the key's value or, when full, drops its last.
LruPut(k, bytes) ==
  LET makesRoom == bytes < lruLimits[2]
      popped == IF makesRoom
                THEN PopUntil(lruEntries, lruBytes, lruLimits[2] - bytes) ELSE lruEntries
      left == SatSub(lruBytes, TotalBytes(lruEntries) - TotalBytes(popped))
      full == OfKey(popped, k) = {} /\ Len(popped) = lruLimits[1]
      others == IF full THEN Front(popped) ELSE WithoutKey(popped, k)
  IN  /\ lruBytes < MaxLruBytes
      /\ lruEntries' = <<[key |-> k, bytes |-> bytes]>> \o others
      /\ lruBytes' = SatSub(left, BytesOf(OfKey(popped, k))) + bytes
      /\ lruLost' = lruLost + IF full THEN Last(popped).bytes ELSE 0
      /\ UNCHANGED lruLimits

\* A hit moves its entry to the front.
LruGet(k) ==
  /\ \E hit \in OfKey(lruEntries, k) : lruEntries' = <<hit>> \o WithoutKey(lruEntries, k)
  /\ UNCHANGED <<lruLimits, lruBytes, lruLost>>

LruPopUncounted(k) == \* mutant: an invalidated entry is not taken off the counter
  /\ lruEntries' = WithoutKey(lruEntries, k)
  /\ UNCHANGED <<lruLimits, lruBytes, lruLost>>

LruPop(k) ==
  /\ lruEntries' = WithoutKey(lruEntries, k)
  /\ lruBytes' = SatSub(lruBytes, BytesOf(OfKey(lruEntries, k)))
  /\ UNCHANGED <<lruLimits, lruLost>>

\* configure_caches: the inner map drops what exceeds the cap, again without
\* the counter; then the budget is restored.
LruResize(limits) ==
  LET capped == SubSeq(lruEntries, 1, IF limits[1] < Len(lruEntries)
                                      THEN limits[1] ELSE Len(lruEntries))
      kept == PopUntil(capped, lruBytes, limits[2])
  IN  /\ lruLimits' = limits
      /\ lruEntries' = kept
      /\ lruBytes' = SatSub(lruBytes, TotalBytes(capped) - TotalBytes(kept))
      /\ lruLost' = lruLost + (TotalBytes(lruEntries) - TotalBytes(capped))

LruNext ==
  \/ \E k \in LruKey : \/ \E bytes \in LruCost : LruPut(k, bytes)
                       \/ LruGet(k)
                       \/ LruPop(k)
  \/ \E limits \in LruLimits : LruResize(limits)

LruSpec == LruInit /\ [][LruNext]_lruVars

------------------------------------------------------------------------------
(* Properties.                                                             *)

\* The counter is what the entries cost and what the cap pushed out: a value
\* replaced, popped or evicted for room is taken off exactly once.
LruAccounting == lruBytes = TotalBytes(lruEntries) + lruLost

\* Whatever was put, replaced, dropped or resized, the values below the budget
\* fit it together (a larger one is cached beside them), and no key is cached
\* twice or beyond the cap.
BudgetHonoured ==
  /\ BytesOf({e \in ToSet(lruEntries) : e.bytes < lruLimits[2]}) <= lruLimits[2]
  /\ Len(lruEntries) <= lruLimits[1]
  /\ \A i, j \in DOMAIN lruEntries : lruEntries[i].key = lruEntries[j].key => i = j

\* The cache does what its two limits promise, for any calls: the budget of bytes
\* is honoured by what is cached, and the counter that enforces it is off by
\* exactly the entries that the cap of entries pushed out.
LruSound == LruAccounting /\ BudgetHonoured
=============================================================================
