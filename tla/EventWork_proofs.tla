-------------------------- MODULE EventWork_proofs ---------------------------
(***************************************************************************)
(* Theorems about what a worker does for an event besides its issue.       *)
(*                                                                         *)
(* EnvelopeItems: the caps and the counters of tags, and the account of    *)
(* events, hours and transactions, for any envelopes, any number of        *)
(* workers that write to the same keys, and any number of failing          *)
(* statements, crashes and retries.                                        *)
(*                                                                         *)
(* AlertRules: no alert is missed, whatever the clocks of the clients, and *)
(* firings are spaced and complete, for any rules, workers, edits and      *)
(* failures.                                                               *)
(*                                                                         *)
(* EventGrouping: builds that name things differently, waits on top of a   *)
(* hang and what differs outside of the app do not split an issue, for any *)
(* events, symbol maps and lists of waits.                                 *)
(***************************************************************************)
EXTENDS EnvelopeItems, AlertRules, EventGrouping, Subsequences_proofs

-----------------------------------------------------------------------------
\* EnvelopeItems, its tags: the inductive invariant.

WorkFields == {"step", "envelope", "item", "tag", "recount"}

\* A worker owes recounts only between its first value and its event's bucket.
OwesNothing(r) == r.step \notin {"values", "bump"} => r.recount = {}

WorkShape ==
  /\ DOMAIN itemWork = ItemWorker
  /\ \A w \in ItemWorker : itemWork[w].step # "idle" =>
       DOMAIN itemWork[w] = WorkFields /\ OwesNothing(itemWork[w])

Due(k) == \E w \in ItemWorker : itemWork[w].step # "idle" /\ k \in itemWork[w].recount

TagInv ==
  /\ WorkShape
  /\ IsFiniteSet(DOMAIN tagValues)
  /\ TagValuesCapped
  /\ KeysCountTheirValues

-----------------------------------------------------------------------------
\* How a worker's step changes what is owed.

\* A step of one worker leaves the others' places alone.
LEMMA OneWorkerMoves ==
  ASSUME WorkShape, NEW w \in ItemWorker, NEW r,
         itemWork' = [itemWork EXCEPT ![w] = r],
         r.step # "idle" => DOMAIN r = WorkFields /\ OwesNothing(r)
  PROVE  /\ WorkShape'
         /\ itemWork'[w] = r
         /\ \A v \in ItemWorker \ {w} : itemWork'[v] = itemWork[v]
BY DEF WorkShape, OwesNothing

\* A worker that goes on and owes as much as before.
LEMMA WorkerGoesOn ==
  ASSUME WorkShape, NEW w \in ItemWorker, NEW r,
         itemWork' = [itemWork EXCEPT ![w] = r],
         r.step # "idle", DOMAIN r = WorkFields, OwesNothing(r),
         itemWork[w].step = "idle" \/ itemWork[w].recount \subseteq r.recount
  PROVE  WorkShape' /\ \A k : Due(k) => Due(k)'
<1>1. /\ WorkShape'
      /\ itemWork'[w] = r
      /\ \A v \in ItemWorker \ {w} : itemWork'[v] = itemWork[v]
  BY OneWorkerMoves
<1> QED
  BY <1>1 DEF Due

\* A worker whose place keeps its recounts and is one that may owe none.
LEMMA NextPlace ==
  ASSUME WorkShape, NEW w \in ItemWorker, itemWork[w].step # "idle",
         itemWork[w].recount = {}, NextItem(w)
  PROVE  WorkShape' /\ \A k : Due(k) => Due(k)'
<1> DEFINE r == [itemWork[w] EXCEPT !.step = "begin", !.item = @ + 1, !.tag = 1]
<1>1. DOMAIN itemWork[w] = WorkFields
  BY DEF WorkShape
<1>2. r.step = "begin" /\ r.recount = itemWork[w].recount /\ DOMAIN r = WorkFields
  BY <1>1 DEF WorkFields
<1>3. itemWork' = [itemWork EXCEPT ![w] = r]
  BY DEF NextItem
<1> HIDE DEF r
<1>4. OwesNothing(r)
  BY <1>2 DEF OwesNothing
<1> QED
  BY <1>2, <1>3, <1>4, WorkerGoesOn

\* A worker whose envelope fails leaves what it owed lapsed.
LEMMA FailureLapses ==
  ASSUME WorkShape, NEW w \in ItemWorker, FailEnvelope(w)
  PROVE  WorkShape' /\ lapsedKeys \subseteq lapsedKeys'
         /\ \A k : Due(k) => Due(k)' \/ k \in lapsedKeys'
<1>1. IdleWork.step = "idle"
  BY DEF IdleWork
<1>2. /\ WorkShape'
      /\ \A v \in ItemWorker \ {w} : itemWork'[v] = itemWork[v]
  BY <1>1, OneWorkerMoves DEF FailEnvelope
<1>3. lapsedKeys' = lapsedKeys \cup itemWork[w].recount
  BY DEF FailEnvelope
<1> QED
  BY <1>2, <1>3 DEF Due

\* Steps that touch no value and no counter, and lose no recount.
LEMMA QuietStep ==
  ASSUME TagInv, UNCHANGED <<tagValues, tagKeys>>, WorkShape',
         lapsedKeys \subseteq lapsedKeys',
         \A k : Due(k) => Due(k)' \/ k \in lapsedKeys'
  PROVE  TagInv'
<1>1. IsFiniteSet(DOMAIN tagValues)' /\ TagValuesCapped'
  BY DEF TagInv, TagValuesCapped, ValuesOf
<1>2. KeysCountTheirValues'
  <2> SUFFICES ASSUME NEW k \in {t[1] : t \in DOMAIN tagValues}
               PROVE  \/ k \in lapsedKeys'
                      \/ Due(k)'
                      \/ k \in DOMAIN tagKeys /\ tagKeys[k] = Cardinality(ValuesOf(k))
    BY DEF KeysCountTheirValues, ValuesOf, Due
  <2> QED
    BY DEF TagInv, KeysCountTheirValues, Due
<1> QED
  BY <1>1, <1>2 DEF TagInv

-----------------------------------------------------------------------------
\* The steps that write values and counters.

LEMMA InsertedValue ==
  ASSUME TagInv, NEW w \in ItemWorker, NEW tag,
         itemWork[w].step = "values", tag \notin DOMAIN tagValues, UnderCap(tag[1]),
         tagValues' = [t \in DOMAIN tagValues \cup {tag} |-> IF t = tag THEN 1 ELSE tagValues[t]],
         AfterValue(w, itemWork[w].recount \cup {tag[1]}),
         UNCHANGED <<tagKeys, lapsedKeys>>
  PROVE  TagInv'
<1> DEFINE r == [itemWork[w] EXCEPT !.step = "values", !.tag = @ + 1,
                                    !.recount = itemWork[w].recount \cup {tag[1]}]
<1>1. DOMAIN itemWork[w] = WorkFields
  BY DEF TagInv, WorkShape
<1>2. /\ r.step = "values" /\ r.recount = itemWork[w].recount \cup {tag[1]}
      /\ DOMAIN r = WorkFields
  BY <1>1 DEF WorkFields
<1>3. itemWork' = [itemWork EXCEPT ![w] = r]
  BY DEF AfterValue
<1> HIDE DEF r
<1>4. /\ WorkShape'
      /\ itemWork'[w] = r
      /\ \A v \in ItemWorker \ {w} : itemWork'[v] = itemWork[v]
  BY <1>2, <1>3, OneWorkerMoves DEF TagInv, OwesNothing
<1>5. Due(tag[1])' /\ \A k : Due(k) => Due(k)'
  BY <1>2, <1>4 DEF Due
<1>6. DOMAIN tagValues' = DOMAIN tagValues \cup {tag}
  OBVIOUS
<1>7. \A k : k # tag[1] => ValuesOf(k)' = ValuesOf(k)
  BY <1>6 DEF ValuesOf
<1>8. ValuesOf(tag[1])' = ValuesOf(tag[1]) \cup {tag}
  BY <1>6 DEF ValuesOf
<1>9. IsFiniteSet(DOMAIN tagValues')
  BY <1>6, FS_AddElement DEF TagInv
<1>10. Cardinality(ValuesOf(tag[1])') <= MaxTagValues
  <2>1. IsFiniteSet(ValuesOf(tag[1]))
    BY FS_Subset DEF TagInv, ValuesOf
  <2>2. Cardinality(ValuesOf(tag[1])) \in Nat
    BY <2>1, FS_CardinalityType
  <2>3. tag \notin ValuesOf(tag[1])
    BY DEF ValuesOf
  <2>4. Cardinality(ValuesOf(tag[1]) \cup {tag}) = Cardinality(ValuesOf(tag[1])) + 1
    BY <2>1, <2>3, FS_AddElement
  <2> QED
    BY <2>2, <2>4, <1>8, ItemAssumption DEF UnderCap, ItemAssumption
<1>11. TagValuesCapped'
  <2> SUFFICES ASSUME NEW t \in DOMAIN tagValues'
               PROVE  Cardinality(ValuesOf(t[1])') <= MaxTagValues
    BY DEF TagValuesCapped, ValuesOf
  <2>1. CASE t[1] = tag[1]
    BY <2>1, <1>10
  <2>2. CASE t[1] # tag[1]
    BY <2>2, <1>6, <1>7 DEF TagInv, TagValuesCapped
  <2> QED
    BY <2>1, <2>2
<1>12. KeysCountTheirValues'
  <2> SUFFICES ASSUME NEW t \in DOMAIN tagValues'
               PROVE  \/ t[1] \in lapsedKeys
                      \/ Due(t[1])'
                      \/ t[1] \in DOMAIN tagKeys
                         /\ tagKeys[t[1]] = Cardinality(ValuesOf(t[1])')
    BY DEF KeysCountTheirValues, ValuesOf, Due
  <2>1. CASE t[1] = tag[1]
    BY <2>1, <1>5
  <2>2. CASE t[1] # tag[1]
    <3>1. t \in DOMAIN tagValues /\ ValuesOf(t[1])' = ValuesOf(t[1])
      BY <2>2, <1>6, <1>7
    <3>2. \/ t[1] \in lapsedKeys \/ Due(t[1])
          \/ t[1] \in DOMAIN tagKeys /\ tagKeys[t[1]] = Cardinality(ValuesOf(t[1]))
      BY <3>1 DEF TagInv, KeysCountTheirValues, Due
    <3> QED
      BY <3>1, <3>2, <1>5
  <2> QED
    BY <2>1, <2>2
<1> QED
  BY <1>4, <1>9, <1>11, <1>12 DEF TagInv

LEMMA InsertValueInv ==
  ASSUME TagInv, NEW w \in ItemWorker, InsertValue(w)
  PROVE  TagInv'
<1> DEFINE tag == CurrentTags(w)[itemWork[w].tag]
<1>1. CASE tag \notin DOMAIN tagValues /\ UnderCap(tag[1])
  <2>1. /\ tagValues' = [t \in DOMAIN tagValues \cup {tag} |->
                           IF t = tag THEN 1 ELSE tagValues[t]]
        /\ AfterValue(w, itemWork[w].recount \cup {tag[1]})
        /\ itemWork[w].step = "values" /\ UNCHANGED <<tagKeys, lapsedKeys>>
    BY <1>1 DEF InsertValue
  <2> HIDE DEF tag
  <2> QED
    BY <1>1, <2>1, InsertedValue
<1>2. CASE ~(tag \notin DOMAIN tagValues /\ UnderCap(tag[1]))
  <2> DEFINE r == [itemWork[w] EXCEPT !.step = "bump"]
  <2>1. itemWork' = [itemWork EXCEPT ![w] = r] /\ UNCHANGED <<tagValues, tagKeys, lapsedKeys>>
    BY <1>2 DEF InsertValue
  <2>2. DOMAIN itemWork[w] = WorkFields
    BY DEF TagInv, WorkShape, InsertValue
  <2>3. r.step = "bump" /\ r.recount = itemWork[w].recount /\ DOMAIN r = WorkFields
    BY <2>2 DEF WorkFields
  <2> HIDE DEF r, tag
  <2>4. WorkShape' /\ \A k : Due(k) => Due(k)'
    BY <2>1, <2>3, WorkerGoesOn DEF TagInv, OwesNothing
  <2> QED
    BY <2>1, <2>4, QuietStep
<1> QED
  BY <1>1, <1>2

LEMMA BumpValueInv ==
  ASSUME TagInv, NEW w \in ItemWorker, BumpValue(w)
  PROVE  TagInv'
<1> DEFINE r == [itemWork[w] EXCEPT !.step = "values", !.tag = @ + 1,
                                    !.recount = itemWork[w].recount]
<1>1. DOMAIN itemWork[w] = WorkFields
  BY DEF TagInv, WorkShape, BumpValue
<1>2. r.step = "values" /\ r.recount = itemWork[w].recount /\ DOMAIN r = WorkFields
  BY <1>1 DEF WorkFields
<1>3. itemWork' = [itemWork EXCEPT ![w] = r]
  BY DEF BumpValue, AfterValue
<1> HIDE DEF r
<1>4. WorkShape' /\ \A k : Due(k) => Due(k)'
  BY <1>2, <1>3, WorkerGoesOn DEF TagInv, OwesNothing
<1>5. DOMAIN tagValues' = DOMAIN tagValues /\ UNCHANGED <<tagKeys, lapsedKeys>>
  BY DEF BumpValue
<1>6. \A k : ValuesOf(k)' = ValuesOf(k)
  BY <1>5 DEF ValuesOf
<1>7. TagValuesCapped'
  BY <1>5, <1>6 DEF TagInv, TagValuesCapped, ValuesOf
<1>8. KeysCountTheirValues'
  <2> SUFFICES ASSUME NEW t \in DOMAIN tagValues
               PROVE  \/ t[1] \in lapsedKeys
                      \/ Due(t[1])'
                      \/ t[1] \in DOMAIN tagKeys
                         /\ tagKeys[t[1]] = Cardinality(ValuesOf(t[1])')
    BY <1>5 DEF KeysCountTheirValues, ValuesOf, Due
  <2>1. \/ t[1] \in lapsedKeys \/ Due(t[1])
        \/ t[1] \in DOMAIN tagKeys /\ tagKeys[t[1]] = Cardinality(ValuesOf(t[1]))
    BY DEF TagInv, KeysCountTheirValues, Due
  <2> QED
    BY <2>1, <1>4, <1>6
<1> QED
  BY <1>4, <1>5, <1>7, <1>8 DEF TagInv

LEMMA RecountKeyInv ==
  ASSUME TagInv, NEW w \in ItemWorker, NEW key, RecountKey(w, key)
  PROVE  TagInv'
<1> DEFINE r == [itemWork[w] EXCEPT !.recount = itemWork[w].recount \ {key}]
<1>1. DOMAIN itemWork[w] = WorkFields /\ itemWork[w].step = "values"
  BY DEF TagInv, WorkShape, RecountKey
<1>2. /\ r.step = "values" /\ r.recount = itemWork[w].recount \ {key}
      /\ DOMAIN r = WorkFields
  BY <1>1 DEF WorkFields
<1>3. itemWork' = [itemWork EXCEPT ![w] = r]
  BY DEF RecountKey
<1> HIDE DEF r
<1>4. /\ WorkShape'
      /\ itemWork'[w] = r
      /\ \A v \in ItemWorker \ {w} : itemWork'[v] = itemWork[v]
  BY <1>2, <1>3, OneWorkerMoves DEF TagInv, OwesNothing
<1>5. \A k : k # key /\ Due(k) => Due(k)'
  BY <1>1, <1>2, <1>4 DEF Due
<1>6. /\ tagKeys' = Recounted(key) /\ lapsedKeys' = lapsedKeys \ {key}
      /\ tagValues' = tagValues
  BY DEF RecountKey
<1>7. TagValuesCapped'
  BY <1>6 DEF TagInv, TagValuesCapped, ValuesOf
<1>8. KeysCountTheirValues'
  <2> SUFFICES ASSUME NEW t \in DOMAIN tagValues
               PROVE  \/ t[1] \in lapsedKeys'
                      \/ Due(t[1])'
                      \/ t[1] \in DOMAIN tagKeys'
                         /\ tagKeys'[t[1]] = Cardinality(ValuesOf(t[1]))
    BY <1>6 DEF KeysCountTheirValues, ValuesOf, Due
  <2>1. CASE t[1] = key
    BY <2>1, <1>6 DEF Recounted
  <2>2. CASE t[1] # key
    <3>1. \/ t[1] \in lapsedKeys \/ Due(t[1])
          \/ t[1] \in DOMAIN tagKeys /\ tagKeys[t[1]] = Cardinality(ValuesOf(t[1]))
      BY DEF TagInv, KeysCountTheirValues, Due
    <3>2. t[1] \in DOMAIN tagKeys =>
            t[1] \in DOMAIN tagKeys' /\ tagKeys'[t[1]] = tagKeys[t[1]]
      BY <2>2, <1>6 DEF Recounted
    <3> QED
      BY <2>2, <3>1, <3>2, <1>5, <1>6
  <2> QED
    BY <2>1, <2>2
<1> QED
  BY <1>4, <1>6, <1>7, <1>8 DEF TagInv

-----------------------------------------------------------------------------
\* The other steps.

LEMMA TakeEnvelopeInv ==
  ASSUME TagInv, NEW w \in ItemWorker, NEW e \in ItemEnvelope, TakeEnvelope(w, e)
  PROVE  TagInv'
<1> DEFINE r == [step |-> "begin", envelope |-> e, item |-> 1, tag |-> 1, recount |-> {}]
<1>1. r.step = "begin" /\ r.recount = {} /\ DOMAIN r = WorkFields
  BY DEF WorkFields
<1>2. /\ itemWork' = [itemWork EXCEPT ![w] = r] /\ itemWork[w].step = "idle"
      /\ UNCHANGED <<tagValues, tagKeys, lapsedKeys>>
  BY DEF TakeEnvelope, itemTables
<1> HIDE DEF r
<1>3. WorkShape' /\ \A k : Due(k) => Due(k)'
  BY <1>1, <1>2, WorkerGoesOn DEF TagInv, OwesNothing
<1> QED
  BY <1>2, <1>3, QuietStep

LEMMA InsertEventInv ==
  ASSUME TagInv, NEW w \in ItemWorker, InsertEvent(w)
  PROVE  TagInv'
<1>1. UNCHANGED <<tagValues, tagKeys>> /\ itemWork[w].step = "begin"
  BY DEF InsertEvent, AtItem
<1>2. CASE FailEnvelope(w)
  BY <1>1, <1>2, FailureLapses, QuietStep DEF TagInv
<1>3. CASE itemWork' = [itemWork EXCEPT ![w].step = "tags"] /\ UNCHANGED lapsedKeys
  <2> DEFINE r == [itemWork[w] EXCEPT !.step = "tags"]
  <2>1. DOMAIN itemWork[w] = WorkFields /\ itemWork[w].recount = {}
    BY <1>1 DEF TagInv, WorkShape, OwesNothing
  <2>2. r.step = "tags" /\ r.recount = {} /\ DOMAIN r = WorkFields
    BY <2>1 DEF WorkFields
  <2>3. itemWork' = [itemWork EXCEPT ![w] = r]
    BY <1>3
  <2> HIDE DEF r
  <2>4. WorkShape' /\ \A k : Due(k) => Due(k)'
    BY <2>1, <2>2, <2>3, WorkerGoesOn DEF TagInv, OwesNothing
  <2> QED
    BY <1>1, <1>3, <2>4, QuietStep
<1> QED
  BY <1>2, <1>3 DEF InsertEvent

LEMMA InsertTagsInv ==
  ASSUME TagInv, NEW w \in ItemWorker, InsertTags(w)
  PROVE  TagInv'
<1> DEFINE done == [itemWork[w] EXCEPT !.step = "values", !.tag = 1]
           next(n) == [itemWork[w] EXCEPT !.tag = n]
<1>1. itemWork[w].step = "tags" /\ UNCHANGED <<tagValues, tagKeys, lapsedKeys>>
  BY DEF InsertTags
<1>2. DOMAIN itemWork[w] = WorkFields /\ itemWork[w].recount = {}
  BY <1>1 DEF TagInv, WorkShape, OwesNothing
<1>3. PICK r : /\ itemWork' = [itemWork EXCEPT ![w] = r]
               /\ r = done \/ \E n : r = next(n)
  BY DEF InsertTags
<1>4. r.step \in {"values", "tags"} /\ r.recount = {} /\ DOMAIN r = WorkFields
  BY <1>1, <1>2, <1>3 DEF WorkFields
<1>5. WorkShape' /\ \A k : Due(k) => Due(k)'
  BY <1>2, <1>3, <1>4, WorkerGoesOn DEF TagInv, OwesNothing
<1> QED
  BY <1>1, <1>5, QuietStep

LEMMA CountHourInv ==
  ASSUME TagInv, NEW w \in ItemWorker, CountHour(w)
  PROVE  TagInv'
<1>1. /\ itemWork[w].step = "values" /\ itemWork[w].recount = {} /\ NextItem(w)
      /\ UNCHANGED <<tagValues, tagKeys, lapsedKeys>>
  BY DEF CountHour
<1> QED
  BY <1>1, NextPlace, QuietStep DEF TagInv

\* Transactions and reports; none of their places owes a recount.
LEMMA OtherItemInv ==
  ASSUME TagInv, NEW w \in ItemWorker,
         SkipTransaction(w) \/ UpsertGroup(w) \/ InsertTransaction(w) \/ InsertReport(w)
  PROVE  TagInv'
<1>1. /\ itemWork[w].step \in {"begin", "transaction"}
      /\ UNCHANGED <<tagValues, tagKeys, lapsedKeys>>
  BY DEF SkipTransaction, UpsertGroup, InsertTransaction, InsertReport, AtItem, itemTables
<1>2. DOMAIN itemWork[w] = WorkFields /\ itemWork[w].recount = {}
  BY <1>1 DEF TagInv, WorkShape, OwesNothing
<1>3. CASE NextItem(w)
  BY <1>1, <1>2, <1>3, NextPlace, QuietStep DEF TagInv
<1>4. CASE itemWork' = [itemWork EXCEPT ![w].step = "transaction"]
  <2> DEFINE r == [itemWork[w] EXCEPT !.step = "transaction"]
  <2>1. r.step = "transaction" /\ r.recount = {} /\ DOMAIN r = WorkFields
    BY <1>2 DEF WorkFields
  <2>2. itemWork' = [itemWork EXCEPT ![w] = r]
    BY <1>4
  <2> HIDE DEF r
  <2>3. WorkShape' /\ \A k : Due(k) => Due(k)'
    BY <1>2, <2>1, <2>2, WorkerGoesOn DEF TagInv, OwesNothing
  <2> QED
    BY <1>1, <2>3, QuietStep
<1> QED
  BY <1>3, <1>4 DEF SkipTransaction, UpsertGroup, InsertTransaction, InsertReport

LEMMA FinishEnvelopeInv ==
  ASSUME TagInv, NEW w \in ItemWorker, FinishEnvelope(w)
  PROVE  TagInv'
<1>1. /\ itemWork[w].step = "begin" /\ itemWork' = [itemWork EXCEPT ![w] = IdleWork]
      /\ UNCHANGED <<tagValues, tagKeys, lapsedKeys>>
  BY DEF FinishEnvelope, itemTables
<1>2. itemWork[w].recount = {}
  BY <1>1 DEF TagInv, WorkShape, OwesNothing
<1>3. IdleWork.step = "idle"
  BY DEF IdleWork
<1>4. /\ WorkShape'
      /\ \A v \in ItemWorker \ {w} : itemWork'[v] = itemWork[v]
  BY <1>1, <1>3, OneWorkerMoves DEF TagInv
<1>5. \A k : Due(k) => Due(k)'
  BY <1>2, <1>4 DEF Due
<1> QED
  BY <1>1, <1>4, <1>5, QuietStep

LEMMA StatementFailsInv ==
  ASSUME TagInv, NEW w \in ItemWorker, StatementFails(w)
  PROVE  TagInv'
BY FailureLapses, QuietStep DEF TagInv, StatementFails, itemTables

LEMMA ItemCrashInv ==
  ASSUME TagInv, ItemCrash
  PROVE  TagInv'
<1>1. itemWork' = [w \in ItemWorker |-> IdleWork] /\ UNCHANGED <<tagValues, tagKeys>>
  BY DEF ItemCrash, itemTables
<1>2. WorkShape'
  BY <1>1 DEF WorkShape, IdleWork
<1>3. lapsedKeys \subseteq lapsedKeys' /\ \A k : Due(k) => k \in lapsedKeys'
  BY DEF ItemCrash, Due
<1> QED
  BY <1>1, <1>2, <1>3, QuietStep

-----------------------------------------------------------------------------
\* The invariant.

LEMMA TagInitInv == ItemInit => TagInv
<1> SUFFICES ASSUME ItemInit  PROVE  TagInv
  OBVIOUS
<1>1. DOMAIN tagValues = {}
  BY DEF ItemInit, NoFunction
<1>2. WorkShape
  BY DEF ItemInit, WorkShape, IdleWork
<1> QED
  BY <1>1, <1>2, FS_EmptySet DEF TagInv, TagValuesCapped, KeysCountTheirValues

LEMMA TagStepInv ==
  ASSUME TagInv, ItemNext
  PROVE  TagInv'
<1>1. CASE \E w \in ItemWorker, e \in ItemEnvelope : TakeEnvelope(w, e)
  BY <1>1, TakeEnvelopeInv
<1>2. CASE \E w \in ItemWorker :
             \/ InsertEvent(w) \/ InsertTags(w) \/ InsertValue(w) \/ BumpValue(w)
             \/ \E k \in {t[1] : t \in DOMAIN tagValues} : RecountKey(w, k)
  BY <1>2, InsertEventInv, InsertTagsInv, InsertValueInv, BumpValueInv, RecountKeyInv
<1>3. CASE \E w \in ItemWorker :
             \/ CountHour(w) \/ SkipTransaction(w) \/ UpsertGroup(w) \/ InsertTransaction(w)
             \/ InsertReport(w) \/ FinishEnvelope(w) \/ StatementFails(w)
  BY <1>3, CountHourInv, OtherItemInv, FinishEnvelopeInv, StatementFailsInv
<1>4. CASE ItemCrash
  BY <1>4, ItemCrashInv
<1>5. CASE \E h \in DOMAIN hourCounts : PruneHours(h + 1)
  BY <1>5, QuietStep DEF PruneHours, TagInv, WorkShape, Due
<1> QED
  BY <1>1, <1>2, <1>3, <1>4, <1>5 DEF ItemNext

\* Every step keeps the invariant.
THEOREM TagInvariant == ItemSpec => []TagInv
<1>1. TagInv /\ UNCHANGED itemVars => TagInv'
  BY DEF itemVars, itemTables, TagInv, WorkShape, OwesNothing, TagValuesCapped,
         KeysCountTheirValues, ValuesOf
<1>2. TagInv /\ [ItemNext]_itemVars => TagInv'
  BY <1>1, TagStepInv
<1> QED
  BY <1>2, TagInitInv, PTL DEF ItemSpec

\* However many workers add values of one key at a time, index_event
\* (worker/indexer.rs) never stores more of them than the cap.
THEOREM TagsStayCapped == ItemSpec => []TagValuesCapped
<1>1. TagInv => TagValuesCapped
  BY DEF TagInv
<1> QED
  BY <1>1, TagInvariant, PTL

\* A key's counter is that of its values, or its recount is due or was lost to a
\* failure: index_event (worker/indexer.rs).
THEOREM CountersCatchUp == ItemSpec => []KeysCountTheirValues
<1>1. TagInv => KeysCountTheirValues
  BY DEF TagInv
<1> QED
  BY <1>1, TagInvariant, PTL

\* The index of tags keeps its cap and its counters however workers interleave and
\* envelopes fail: index_event (worker/indexer.rs).
THEOREM TagsStaySound == ItemSpec => []TagsSound
<1>1. TagValuesCapped /\ KeysCountTheirValues => TagsSound
  BY DEF TagsSound
<1> QED
  BY <1>1, TagsStayCapped, CountersCatchUp, PTL


-----------------------------------------------------------------------------
\* AlertRules: the buckets of a threshold.

Counted == [event : AlertEvent, time : Int, at : Nat, lost : BOOLEAN]

\* The events that were counted in a bucket from h on.
EventsSince(h) == {i \in 1..Len(counted) : counted[i].time \div AlertHour >= h}

\* Buckets from h on are not pruned yet.
Kept(h) == h * AlertHour >= alertTime - StatsRetention

BucketsTyped ==
  /\ alertTime \in Nat
  /\ counted \in Seq(Counted)
  /\ \A i \in 1..Len(counted) : counted[i].at <= alertTime
  /\ DOMAIN hourly \subseteq Int
  /\ \A h \in DOMAIN hourly : hourly[h] \in Nat

\* The buckets hold as many events as were counted in them.
BucketsSum ==
  \A h \in Int : Kept(h) => /\ IsFiniteSet(BucketsSince(h)) /\ IsFiniteSet(EventsSince(h))
                            /\ CountSince(h) = Cardinality(EventsSince(h))

BucketInv == BucketsTyped /\ BucketsSum

LEMMA DivisionIs ==
  ASSUME NEW a \in Int, NEW d \in Nat \ {0}
  PROVE  a \div d \in Int /\ (a \div d) * d <= a /\ a < (a \div d) * d + d
  OBVIOUS

LEMMA NextMultiple ==
  ASSUME NEW p \in Int, NEW q \in Int, NEW d \in Nat \ {0}, p < q
  PROVE  p * d + d <= q * d
<1>1. (q - p - 1) \in Nat
  OBVIOUS
<1>2. (q - p - 1) * d \in Nat
  BY <1>1
<1>3. (q - p - 1) * d = q * d - p * d - d
  OBVIOUS
<1> QED BY <1>2, <1>3

LEMMA DivisionIsMonotone ==
  ASSUME NEW a \in Int, NEW b \in Int, NEW d \in Nat \ {0}, a <= b
  PROVE  a \div d <= b \div d
<1>1. /\ a \div d \in Int /\ (a \div d) * d <= a
      /\ b \div d \in Int /\ b < (b \div d) * d + d
  BY DivisionIs
<1>2. PICK x, y : x = a \div d /\ y = b \div d
  OBVIOUS
<1>3. x \in Int /\ y \in Int /\ x * d <= a /\ b < y * d + d /\ x * d \in Int /\ y * d \in Int
  BY <1>1, <1>2
<1>4. ~(y < x)
  <2>1. y < x => y * d + d <= x * d
    BY <1>3, NextMultiple
  <2> QED BY <1>3, <2>1
<1> QED BY <1>2, <1>3, <1>4

LEMMA OneMore ==
  ASSUME NEW S, IsFiniteSet(S), NEW x, x \notin S
  PROVE  /\ IsFiniteSet(S \cup {x}) /\ Cardinality(S) \in Nat
         /\ Cardinality(S \cup {x}) = Cardinality(S) + 1
  BY FS_AddElement, FS_CardinalityType

LEMMA ConstantsOfAlerts ==
  /\ AlertHour \in Nat \ {0} /\ StatsRetention \in Nat /\ MaxAlertTime \in Nat
  /\ \A e \in AlertEvent : e.timestamp \in Seq(Int)
  /\ \A cond \in AlertCondition : cond.kind = "threshold" => cond.window \in Nat /\ cond.threshold \in Nat
  BY AlertAssumption DEF AlertAssumption

\* The events that were counted stay, in their hours; a fault marks one as lost.
CountsGo ==
  /\ Len(counted) <= Len(counted')
  /\ \A i \in 1..Len(counted) :
       /\ counted'[i].event = counted[i].event /\ counted'[i].time = counted[i].time
       /\ counted'[i].at = counted[i].at /\ (counted[i].lost => counted'[i].lost)

LEMMA LostIs ==
  ASSUME counted \in Seq(Counted), NEW i, Lose(i)
  PROVE  /\ counted' \in Seq(Counted) /\ Len(counted') = Len(counted) /\ CountsGo
         /\ \A j \in 1..Len(counted) : counted'[j].lost <=> counted[j].lost \/ j = i
<1>1. counted' = [counted EXCEPT ![i] = [counted[i] EXCEPT !.lost = TRUE]]
  BY DEF Lose
<1>2. PICK x : x = [counted[i] EXCEPT !.lost = TRUE]
  OBVIOUS
<1>3. counted' = [counted EXCEPT ![i] = x] /\ Len(counted) \in Nat /\ DOMAIN counted = 1..Len(counted)
  BY <1>1, <1>2
<1>4. CASE i \in 1..Len(counted)
  <2>1. counted[i] \in Counted
    BY <1>4
  <2>2. /\ x \in Counted /\ x.event = counted[i].event /\ x.time = counted[i].time
        /\ x.at = counted[i].at /\ x.lost
    BY <1>2, <2>1 DEF Counted
  <2>3. counted' \in Seq(Counted) /\ Len(counted') = Len(counted)
    BY <1>3, <1>4, <2>2, ExceptSeq
  <2>4. \A j \in 1..Len(counted) : counted'[j] = IF j = i THEN x ELSE counted[j]
    BY <1>3
  <2> QED BY <1>3, <2>2, <2>3, <2>4 DEF CountsGo
<1>5. CASE i \notin 1..Len(counted)
  <2>1. counted' = counted
    BY <1>3, <1>5
  <2>2. CountsGo
    BY <1>3, <2>1 DEF CountsGo
  <2>3. \A j \in 1..Len(counted) : j # i
    BY <1>5
  <2> QED BY <2>1, <2>2, <2>3
<1> QED BY <1>4, <1>5

\* What CountEvent counts.
LEMMA CountIs ==
  ASSUME BucketInv, NEW w \in Evaluator, NEW e \in AlertEvent, NEW normalized \in 0..alertTime,
         CountEvent(w, e, normalized), NEW time, time = NormalizedTime(e, normalized)
  PROVE  /\ time \in Int /\ counted' \in Seq(Counted) /\ Len(counted') = Len(counted) + 1
         /\ counted'[Len(counted) + 1].time = time /\ counted'[Len(counted) + 1].at = alertTime
         /\ \A i \in 1..Len(counted) : counted'[i] = counted[i]
         /\ CountsGo
<1>1. /\ alertTime \in Nat /\ counted \in Seq(Counted) /\ Len(counted) \in Nat
  BY DEF BucketInv, BucketsTyped
<1>2. time \in Int
  <2>1. CASE e.timestamp = <<>>
    BY <1>1, <2>1 DEF NormalizedTime
  <2>2. CASE e.timestamp # <<>>
    <3>1. e.timestamp \in Seq(Int)
      BY ConstantsOfAlerts
    <3>2. e.timestamp[1] \in Int
      BY <2>2, <3>1
    <3> QED BY <2>2, <3>2 DEF NormalizedTime
  <2> QED BY <2>1, <2>2
<1>3. PICK x : x = [event |-> e, time |-> time, at |-> alertTime, lost |-> FALSE]
  OBVIOUS
<1>4. x \in Counted /\ x.time = time /\ x.at = alertTime
  BY <1>1, <1>2, <1>3 DEF Counted
<1>5. counted' = Append(counted, x)
  BY <1>3 DEF CountEvent
<1>6. /\ counted' \in Seq(Counted) /\ Len(counted') = Len(counted) + 1
      /\ counted'[Len(counted) + 1] = x /\ \A i \in 1..Len(counted) : counted'[i] = counted[i]
  BY <1>1, <1>4, <1>5
<1> QED BY <1>1, <1>2, <1>4, <1>6 DEF CountsGo

\* An event is one more in its bucket, and one more of the events.
LEMMA CountedEvent ==
  ASSUME BucketInv, NEW w \in Evaluator, NEW e \in AlertEvent, NEW normalized \in 0..alertTime,
         CountEvent(w, e, normalized)
  PROVE  BucketInv'
<1> DEFINE last == Len(counted) + 1
<1>1. PICK time, b, n : /\ time = NormalizedTime(e, normalized) /\ b = HourBucket(time)
                        /\ n = IF b \in DOMAIN hourly THEN hourly[b] + 1 ELSE 1
  OBVIOUS
<1>2. /\ time \in Int /\ counted' \in Seq(Counted) /\ Len(counted') = last
      /\ counted'[last].time = time /\ \A i \in 1..Len(counted) : counted'[i] = counted[i]
  BY <1>1, CountIs
<1>3. /\ b = time \div AlertHour /\ b \in Int /\ DOMAIN hourly \subseteq Int
      /\ \A h \in DOMAIN hourly : hourly[h] \in Nat
      /\ alertTime' = alertTime /\ alertTime \in Nat /\ Len(counted) \in Nat
  <2>1. b = time \div AlertHour /\ AlertHour \in Nat \ {0}
    BY <1>1, ConstantsOfAlerts DEF HourBucket
  <2>2. b \in Int
    BY <1>2, <2>1, DivisionIs
  <2>3. alertTime' = alertTime
    BY DEF CountEvent
  <2> QED BY <2>1, <2>2, <2>3 DEF BucketInv, BucketsTyped
<1>4. /\ DOMAIN hourly' = DOMAIN hourly \cup {b} /\ hourly'[b] = n /\ n \in Nat
      /\ \A h \in DOMAIN hourly \ {b} : hourly'[h] = hourly[h]
  <2>1. hourly' = [h \in DOMAIN hourly \cup {b} |->
          IF h \notin DOMAIN hourly THEN 1 ELSE IF h = b THEN hourly[h] + 1 ELSE hourly[h]]
    BY <1>1 DEF CountEvent
  <2> QED BY <1>1, <1>3, <2>1
<1>5. ASSUME NEW h \in Int, Kept(h)'
      PROVE  /\ IsFiniteSet(BucketsSince(h)') /\ IsFiniteSet(EventsSince(h)')
             /\ Cardinality(BucketsSince(h)') = Cardinality(EventsSince(h)')
  <2>1. /\ IsFiniteSet(BucketsSince(h)) /\ IsFiniteSet(EventsSince(h))
        /\ Cardinality(BucketsSince(h)) = Cardinality(EventsSince(h))
    BY <1>3, <1>5 DEF BucketInv, BucketsSum, CountSince, Kept
  <2>2. \A i \in 1..last : i \in 1..Len(counted) \/ i = last
    BY <1>3
  <2>3. /\ \A i \in 1..Len(counted) : i \in 1..last
        /\ last \in 1..last /\ last \notin 1..Len(counted)
    BY <1>3
  <2> HIDE DEF last
  <2> DEFINE Old(k, m) == k \in DOMAIN hourly /\ k >= h /\ m \in 1..hourly[k]
             New(k, m) == k \in DOMAIN hourly' /\ k >= h /\ m \in 1..hourly'[k]
  <2>4. \A k, m : <<k, m>> \in BucketsSince(h) <=> Old(k, m)
    BY DEF BucketsSince
  <2>5. \A k, m : <<k, m>> \in BucketsSince(h)' <=> New(k, m)
    BY DEF BucketsSince
  <2>6. \A x \in BucketsSince(h) \cup BucketsSince(h)' : x = <<x[1], x[2]>>
    BY DEF BucketsSince
  <2>7. CASE ~(b >= h)
    <3>1. \A k, m : <<k, m>> \in BucketsSince(h)' <=> <<k, m>> \in BucketsSince(h)
      <4>1. ASSUME NEW k, NEW m PROVE New(k, m) <=> Old(k, m)
        BY <1>4, <2>7
      <4> HIDE DEF Old, New
      <4> QED BY <2>4, <2>5, <4>1
    <3>2. BucketsSince(h)' = BucketsSince(h)
      BY <2>6, <3>1
    <3>3. EventsSince(h)' = EventsSince(h)
      BY <1>2, <1>3, <2>2, <2>3, <2>7 DEF EventsSince
    <3> QED BY <2>1, <3>2, <3>3
  <2>8. CASE b >= h
    <3> DEFINE pair == <<b, n>>
    <3>1. BucketsSince(h)' = BucketsSince(h) \cup {pair} /\ pair \notin BucketsSince(h)
      <4>1. \A m : m \in 1..n <=> (b \in DOMAIN hourly /\ m \in 1..hourly[b]) \/ m = n
        BY <1>1, <1>3
      <4>2. b \in DOMAIN hourly => n \notin 1..hourly[b]
        BY <1>1, <1>3
      <4>3. \A k, m : <<k, m>> \in BucketsSince(h)' <=> <<k, m>> \in BucketsSince(h) \/ (k = b /\ m = n)
        <5>1. ASSUME NEW k, NEW m PROVE New(k, m) <=> Old(k, m) \/ (k = b /\ m = n)
          BY <1>4, <2>8, <4>1
        <5> HIDE DEF Old, New
        <5> QED BY <2>4, <2>5, <5>1
      <4>4. pair \notin BucketsSince(h)
        BY <2>4, <4>2
      <4>5. \A k, m : <<k, m>> \in BucketsSince(h)' <=> <<k, m>> \in BucketsSince(h) \/ <<k, m>> = pair
        BY <4>3
      <4> HIDE DEF pair
      <4>6. pair = <<b, n>>
        BY DEF pair
      <4> QED BY <2>6, <4>4, <4>5, <4>6
    <3>2. EventsSince(h)' = EventsSince(h) \cup {last} /\ last \notin EventsSince(h)
      BY <1>2, <1>3, <2>2, <2>3, <2>8 DEF EventsSince
    <3> HIDE DEF pair
    <3>3. /\ IsFiniteSet(BucketsSince(h) \cup {pair})
          /\ Cardinality(BucketsSince(h) \cup {pair}) = Cardinality(BucketsSince(h)) + 1
      BY <2>1, <3>1, OneMore
    <3>4. /\ IsFiniteSet(EventsSince(h) \cup {last})
          /\ Cardinality(EventsSince(h) \cup {last}) = Cardinality(EventsSince(h)) + 1
      BY <2>1, <3>2, OneMore
    <3> QED BY <2>1, <3>1, <3>2, <3>3, <3>4
  <2> QED BY <2>7, <2>8
<1>6. BucketsTyped'
  <2>1. counted'[last].at = alertTime
    BY <1>1, CountIs
  <2>2. ASSUME NEW i \in 1..last PROVE counted'[i].at <= alertTime'
    <3>1. CASE i = last
      BY <1>3, <2>1, <3>1
    <3>2. CASE i # last
      <4>1. i \in 1..Len(counted)
        BY <1>3, <3>2
      <4> QED BY <1>2, <1>3, <4>1 DEF BucketInv, BucketsTyped
    <3> QED BY <3>1, <3>2
  <2> HIDE DEF last
  <2> QED BY <1>2, <1>3, <1>4, <2>2 DEF BucketsTyped
<1> QED BY <1>5, <1>6 DEF BucketInv, BucketsSum, CountSince

\* A step that counts nothing: buckets that are kept stay, and so do the events.
LEMMA NothingCounted ==
  ASSUME BucketInv, alertTime' \in Nat, alertTime' >= alertTime,
         counted' \in Seq(Counted), Len(counted') = Len(counted), CountsGo,
         DOMAIN hourly' \subseteq DOMAIN hourly,
         \A h \in DOMAIN hourly' : hourly'[h] = hourly[h],
         \A h \in DOMAIN hourly \ DOMAIN hourly' : ~Kept(h)'
  PROVE  BucketInv'
<1>1. BucketsTyped'
  <2>1. ASSUME NEW i \in 1..Len(counted) PROVE counted'[i].at <= alertTime'
    <3>1. counted[i] \in Counted /\ counted[i].at <= alertTime /\ alertTime \in Nat
      BY DEF BucketInv, BucketsTyped
    <3>2. counted[i].at \in Nat /\ counted'[i].at = counted[i].at
      BY <3>1 DEF Counted, CountsGo
    <3> QED BY <3>1, <3>2
  <2> QED BY <2>1 DEF BucketInv, BucketsTyped
<1>2. /\ DOMAIN hourly \subseteq Int /\ AlertHour \in Nat \ {0} /\ StatsRetention \in Nat
      /\ alertTime \in Nat
  BY ConstantsOfAlerts DEF BucketInv, BucketsTyped
<1>3. ASSUME NEW h \in Int, Kept(h)'
      PROVE  /\ Kept(h) /\ BucketsSince(h)' = BucketsSince(h) /\ EventsSince(h)' = EventsSince(h)
  <2>1. ASSUME NEW b \in DOMAIN hourly, b >= h PROVE b \in DOMAIN hourly'
    <3>1. b \in Int /\ (b = h \/ h < b)
      BY <1>2, <2>1
    <3>2. h * AlertHour <= b * AlertHour
      <4>1. PICK x, y : x = h * AlertHour /\ y = b * AlertHour
        OBVIOUS
      <4>2. x \in Int /\ y \in Int
        BY <1>2, <3>1, <4>1
      <4>3. h < b => x + AlertHour <= y
        BY <1>2, <3>1, <4>1, NextMultiple
      <4> QED BY <1>2, <3>1, <4>1, <4>2, <4>3
    <3>3. Kept(b)'
      <4>1. h * AlertHour \in Int /\ b * AlertHour \in Int
        BY <1>2, <3>1
      <4> QED BY <1>2, <1>3, <3>2, <4>1 DEF Kept
    <3> QED BY <3>3
  <2>2. h * AlertHour \in Int
    BY <1>2
  <2>3. Kept(h)
    <3>1. PICK x, t, u, d : x = h * AlertHour /\ t = alertTime /\ u = alertTime' /\ d = StatsRetention
      OBVIOUS
    <3>2. x \in Int /\ t \in Nat /\ u \in Nat /\ d \in Nat /\ u >= t
      BY <1>2, <2>2, <3>1
    <3>3. x >= u - d
      <4>1. Kept(h)' <=> h * AlertHour >= alertTime' - StatsRetention
        BY DEF Kept
      <4> QED BY <1>3, <3>1, <4>1
    <3>4. x >= t - d
      BY ONLY <3>2, <3>3
    <3> QED BY <3>1, <3>4 DEF Kept
  <2>4. {b \in DOMAIN hourly' : b >= h} = {b \in DOMAIN hourly : b >= h}
    BY <2>1
  <2>5. BucketsSince(h)' = BucketsSince(h)
    BY <2>4 DEF BucketsSince
  <2>6. EventsSince(h)' = EventsSince(h)
    BY DEF EventsSince, CountsGo
  <2> QED BY <2>3, <2>5, <2>6
<1>4. BucketsSum'
  BY <1>3 DEF BucketInv, BucketsSum, CountSince
<1> QED BY <1>1, <1>4 DEF BucketInv

LEMMA BucketsStay ==
  ASSUME BucketInv, UNCHANGED countVars, alertTime' \in Nat, alertTime' >= alertTime
  PROVE  BucketInv'
<1>1. hourly' = hourly /\ counted' = counted
  BY DEF countVars
<1>2. counted' \in Seq(Counted) /\ CountsGo /\ Len(counted') = Len(counted)
  BY <1>1 DEF BucketInv, BucketsTyped, CountsGo
<1> QED BY <1>1, <1>2, NothingCounted

LEMMA PruneKeepsCounts ==
  ASSUME BucketInv, PruneBuckets
  PROVE  BucketInv'
<1> DEFINE pruned == {h \in DOMAIN hourly : h * AlertHour < alertTime - StatsRetention}
<1>1. hourly' = Restrict(hourly, DOMAIN hourly \ pruned) /\ counted' = counted /\ alertTime' = alertTime
  BY DEF PruneBuckets
<1>2. /\ DOMAIN hourly' = DOMAIN hourly \ pruned
      /\ \A h \in DOMAIN hourly' : hourly'[h] = hourly[h]
  BY <1>1 DEF Restrict
<1>3. \A h \in DOMAIN hourly \ DOMAIN hourly' : ~Kept(h)'
  <2>1. SUFFICES ASSUME NEW h \in pruned PROVE ~Kept(h)'
    BY <1>2
  <2>2. h \in Int /\ h * AlertHour < alertTime - StatsRetention /\ h * AlertHour \in Int
        /\ alertTime \in Nat /\ StatsRetention \in Nat
    BY ConstantsOfAlerts DEF BucketInv, BucketsTyped
  <2> HIDE DEF pruned
  <2> QED BY <1>1, <2>2 DEF Kept
<1>4. /\ counted' \in Seq(Counted) /\ Len(counted') = Len(counted) /\ CountsGo
      /\ alertTime' \in Nat /\ alertTime' >= alertTime
  BY <1>1 DEF BucketInv, BucketsTyped, CountsGo
<1> HIDE DEF pruned
<1> QED BY <1>2, <1>3, <1>4, NothingCounted

LEMMA LossKeepsCounts ==
  ASSUME BucketInv, NEW i, Lose(i), hourly' = hourly, alertTime' = alertTime
  PROVE  BucketInv'
<1>1. counted \in Seq(Counted) /\ alertTime' \in Nat /\ alertTime' >= alertTime
  BY DEF BucketInv, BucketsTyped
<1>2. counted' \in Seq(Counted) /\ Len(counted') = Len(counted) /\ CountsGo
  BY <1>1, LostIs
<1> QED BY <1>1, <1>2, NothingCounted

LEMMA BucketStepInv == BucketInv /\ [AlertNext]_alertVars => BucketInv'
<1>1. SUFFICES ASSUME BucketInv, [AlertNext]_alertVars PROVE BucketInv'
  OBVIOUS
<1>2. alertTime \in Nat
  BY <1>1 DEF BucketInv, BucketsTyped
<1>3. CASE UNCHANGED alertVars
  BY <1>1, <1>2, <1>3, BucketsStay DEF alertVars, countVars
<1>4. ASSUME NEW w \in Evaluator, NEW e \in AlertEvent, NEW normalized \in 0..alertTime,
             CountEvent(w, e, normalized)
      PROVE  BucketInv'
  BY <1>1, <1>4, CountedEvent
<1>5. ASSUME NEW w \in Evaluator, NEW r \in AlertRule, SkipRule(w, r) \/ StartFiring(w, r)
      PROVE  BucketInv'
  BY <1>1, <1>2, <1>5, BucketsStay DEF SkipRule, StartFiring
<1>6. ASSUME NEW w \in Evaluator, NEW failed \in BOOLEAN,
             FireAction(w, failed) \/ RecordFired(w, failed)
      PROVE  BucketInv'
  <2>1. UNCHANGED <<alertTime, countVars>>
    <3>1. FireAction(w, failed) => UNCHANGED <<alertTime, countVars>>
      BY DEF FireAction
    <3>2. RecordFired(w, failed) => UNCHANGED <<alertTime, countVars>>
      BY DEF RecordFired
    <3> QED BY <1>6, <3>1, <3>2
  <2> QED BY <1>1, <1>2, <2>1, BucketsStay
<1>7. ASSUME NEW c \in AlertCall, CreateAlert(c) \/ ReadRule(c) \/ WriteRule(c) \/ DeleteAlert(c)
      PROVE  BucketInv'
  BY <1>1, <1>2, <1>7, BucketsStay DEF CreateAlert, ReadRule, WriteRule, DeleteAlert
<1>8. CASE AlertTick
  <2>1. UNCHANGED countVars /\ alertTime' \in Nat /\ alertTime' >= alertTime
    BY <1>2, <1>8 DEF AlertTick
  <2> QED BY <1>1, <2>1, BucketsStay
<1>9. CASE PruneBuckets
  BY <1>1, <1>9, PruneKeepsCounts
<1>10. ASSUME NEW w \in Evaluator, LoseEvaluation(w) PROVE BucketInv'
  BY <1>1, <1>10, LossKeepsCounts DEF LoseEvaluation
<1>11. ASSUME NEW w \in Evaluator, NEW r \in AlertRule, SkipUnread(w, r) PROVE BucketInv'
  BY <1>1, <1>11, LossKeepsCounts DEF SkipUnread
<1>12. ASSUME NEW w \in Evaluator, LoadRules(w) PROVE BucketInv'
  BY <1>1, <1>2, <1>12, BucketsStay DEF LoadRules
<1> QED BY <1>1, <1>3, <1>4, <1>5, <1>6, <1>7, <1>8, <1>9, <1>10, <1>11, <1>12 DEF AlertNext

LEMMA BucketInitInv == AlertInit => BucketInv
<1>1. SUFFICES ASSUME AlertInit PROVE BucketInv
  OBVIOUS
<1>2. alertTime = 0 /\ hourly = [h \in {} |-> 0] /\ counted = <<>>
  BY <1>1 DEF AlertInit
<1>3. BucketsTyped
  BY <1>2 DEF BucketsTyped
<1>4. ASSUME NEW h \in Int PROVE BucketsSince(h) = {} /\ EventsSince(h) = {}
  BY <1>2 DEF BucketsSince, EventsSince
<1>5. BucketsSum
  BY <1>4, FS_EmptySet DEF BucketsSum, CountSince
<1> QED BY <1>3, <1>5 DEF BucketInv

\* The buckets that are not pruned hold exactly the events that were counted in
\* their hours, whatever the clients' clocks (process_inner, worker/processor.rs).
THEOREM BucketInvariant == AlertSpec => []BucketInv
  BY BucketInitInv, BucketStepInv, PTL DEF AlertSpec

\* The sum from a window's first bucket on counts every event of the window, if
\* its buckets are kept as long as the window and an hour.
LEMMA SumCoversWindow ==
  ASSUME BucketInv, NEW cond, cond.window \in Nat, cond.window + AlertHour <= StatsRetention,
         NEW i \in 1..Len(counted)
  PROVE  /\ IsFiniteSet(InWindow(cond, i))
         /\ CountSince(FirstBucket(cond.window)) \in Nat
         /\ Cardinality(InWindow(cond, i)) <= CountSince(FirstBucket(cond.window))
<1>1. PICK h, start : h = FirstBucket(cond.window) /\ start = alertTime - cond.window
  OBVIOUS
<1>2. /\ AlertHour \in Nat \ {0} /\ alertTime \in Nat /\ start \in Int
      /\ StatsRetention \in Nat /\ counted \in Seq(Counted) /\ Len(counted) \in Nat
      /\ h = start \div AlertHour
  BY <1>1, ConstantsOfAlerts DEF BucketInv, BucketsTyped, FirstBucket
<1>3. h \in Int /\ start < h * AlertHour + AlertHour /\ h * AlertHour \in Int
  BY <1>2, DivisionIs
<1>4. Kept(h)
  <2>1. PICK x, t, u, d, n : /\ x = h * AlertHour /\ t = alertTime /\ u = cond.window
                             /\ d = StatsRetention /\ n = AlertHour
    OBVIOUS
  <2>2. /\ x \in Int /\ t \in Nat /\ u \in Nat /\ d \in Nat /\ n \in Nat
        /\ u + n <= d /\ t - u < x + n
    BY <1>1, <1>2, <1>3, <2>1
  <2>3. x >= t - d
    BY ONLY <2>2
  <2> QED BY <2>1, <2>3 DEF Kept
<1>5. InWindow(cond, i) \subseteq EventsSince(h)
  <2>1. SUFFICES ASSUME NEW j \in 1..i, counted[j].time >= start
                 PROVE  j \in 1..Len(counted) /\ counted[j].time \div AlertHour >= h
    BY <1>1 DEF InWindow, EventsSince
  <2>2. j \in 1..Len(counted)
    BY <1>2
  <2>3. counted[j] \in Counted
    BY <1>2, <2>2
  <2>4. counted[j].time \in Int
    BY <2>3 DEF Counted
  <2>5. start \div AlertHour <= counted[j].time \div AlertHour
    BY <1>2, <2>1, <2>4, DivisionIsMonotone
  <2>6. counted[j].time \div AlertHour \in Int
    BY <1>2, <2>4, DivisionIs
  <2> QED BY <1>2, <1>3, <2>2, <2>5, <2>6
<1>6. IsFiniteSet(EventsSince(h)) /\ CountSince(h) = Cardinality(EventsSince(h))
  BY <1>3, <1>4 DEF BucketInv, BucketsSum
<1>7. /\ IsFiniteSet(InWindow(cond, i)) /\ Cardinality(InWindow(cond, i)) <= Cardinality(EventsSince(h))
      /\ Cardinality(EventsSince(h)) \in Nat
  BY <1>5, <1>6, FS_Subset, FS_CardinalityType
<1> QED BY <1>1, <1>6, <1>7

-----------------------------------------------------------------------------
\* AlertRules: the inductive invariant of firings.

Firing == [start : Nat, frequency : Int, by : Evaluator, actions : Seq(AlertAction),
           recorded : BOOLEAN, at : Nat \cup {Never}, attempted : Seq(AlertAction)]
RunFields == {"step", "events", "index", "loaded", "queue", "rule", "now", "left", "known", "firedAt"}

Recorded(r) == {i \in 1..Len(firings[r]) : firings[r][i].recorded}

FiringTyped ==
  /\ alertTime \in Nat
  /\ firings \in [AlertRule -> Seq(Firing)]
  /\ rules \in [AlertRule -> RuleRow \cup {NoRule}]
  /\ DOMAIN evaluator = Evaluator
  /\ DOMAIN alertCall = AlertCall
  /\ \A c \in AlertCall : /\ DOMAIN alertCall[c] = {"step", "row"}
                          /\ alertCall[c].step = "merged" => alertCall[c].row \in RuleRow

\* A firing that ended was complete, and its time is not in the future.
FiringsEnd ==
  \A r \in AlertRule : \A i \in 1..Len(firings[r]) :
    LET f == firings[r][i] IN
    /\ f.start <= alertTime
    /\ f.recorded => f.at # Never
    /\ f.at # Never => f.start <= f.at /\ f.at <= alertTime /\ f.attempted = f.actions

\* Without an overlap a firing begins when every earlier one has been recorded,
\* and the rule has cooled down from each of them.
Spaced ==
  \A r \in AlertRule \ overlapped : \A j \in 1..Len(firings[r]) : \A i \in 1..(j - 1) :
    /\ firings[r][i].recorded
    /\ firings[r][i].at <= firings[r][j].start
    /\ firings[r][j].start - firings[r][i].at >= firings[r][j].frequency

\* A row carries the time of its last firing that was recorded.
RowsRemember ==
  \A r \in AlertRule \ overlapped :
    rules[r] # NoRule /\ firings[r] # <<>> /\ firings[r][Len(firings[r])].recorded
      => rules[r].lastFired = firings[r][Len(firings[r])].at

\* A reading that knows every firing has the row's last time.
KnowsAll(q, r) ==
  /\ \A i \in 1..Len(firings[r]) : firings[r][i].at <= q.now
  /\ firings[r] # <<>> => q.loaded[r].lastFired = firings[r][Len(firings[r])].at

Read(q) ==
  /\ q.now \in Nat /\ q.now <= alertTime
  /\ q.queue \subseteq AlertRule
  /\ \A r \in q.queue : /\ q.loaded[r] \in RuleRow
                        /\ q.known[r] \in Nat /\ q.known[r] <= Cardinality(Recorded(r))
                        /\ r \notin overlapped /\ q.known[r] = Len(firings[r]) => KnowsAll(q, r)

\* The firing a worker is in: its last one of the rule, not ended, of which the
\* actions that were not attempted are left.
IsCurrent(w, q, c) ==
  LET log == firings[q.rule] IN
  /\ c \in 1..Len(log) /\ log[c].by = w
  /\ \A j \in 1..Len(log) : log[j].by = w => j <= c
  /\ ~log[c].recorded /\ log[c].at = Never
  /\ log[c].attempted \o q.left = log[c].actions

InFiring(w, q) ==
  /\ q.rule \in AlertRule
  /\ q.left \in Seq(AlertAction)
  /\ \E c \in 1..Len(firings[q.rule]) :
       /\ IsCurrent(w, q, c)
       /\ q.step = "fire" => q.left # <<>>
       /\ q.step = "record" =>
            /\ q.left = <<>> /\ q.firedAt \in Nat
            /\ firings[q.rule][c].start <= q.firedAt /\ q.firedAt <= alertTime

Run(w, q) ==
  /\ DOMAIN q = RunFields
  /\ q.step \in {"idle", "load", "rules", "fire", "record"}
  /\ q.step \in {"rules", "fire", "record"} => Read(q)
  /\ q.step \in {"fire", "record"} => InFiring(w, q)

FiringInv ==
  /\ FiringTyped /\ FiringsEnd /\ Spaced /\ RowsRemember
  /\ \A w \in Evaluator : \A q \in {evaluator[w]} : Run(w, q)

\* Readings and firings while the log stays as it is.
LEMMA QuietRun ==
  ASSUME UNCHANGED firedVars, alertTime \in Nat, alertTime' \in Nat, alertTime' >= alertTime,
         NEW v, NEW q, Run(v, q)
  PROVE  Run(v, q)'
<1>1. firings' = firings /\ overlapped' = overlapped
  BY DEF firedVars
<1>2. Read(q) => Read(q)'
  <2>1. SUFFICES ASSUME Read(q) PROVE Read(q)'
    OBVIOUS
  <2>2. ASSUME NEW r \in q.queue
        PROVE  /\ q.loaded[r] \in RuleRow
               /\ q.known[r] \in Nat /\ q.known[r] <= Cardinality(Recorded(r)')
               /\ r \notin overlapped' /\ q.known[r] = Len(firings'[r]) => KnowsAll(q, r)'
    <3>1. Recorded(r)' = Recorded(r)
      BY <1>1 DEF Recorded
    <3>2. KnowsAll(q, r)' <=> KnowsAll(q, r)
      BY <1>1 DEF KnowsAll
    <3> QED BY <1>1, <2>1, <3>1, <3>2 DEF Read
  <2>3. q.now \in Nat /\ q.now <= alertTime' /\ q.queue \subseteq AlertRule
    BY <2>1 DEF Read
  <2> QED BY <2>2, <2>3 DEF Read
<1>3. InFiring(v, q) => InFiring(v, q)'
  <2>1. SUFFICES ASSUME InFiring(v, q) PROVE InFiring(v, q)'
    OBVIOUS
  <2>2. PICK c \in 1..Len(firings[q.rule]) :
          /\ IsCurrent(v, q, c)
          /\ q.step = "fire" => q.left # <<>>
          /\ q.step = "record" =>
               /\ q.left = <<>> /\ q.firedAt \in Nat
               /\ firings[q.rule][c].start <= q.firedAt /\ q.firedAt <= alertTime
    BY <2>1 DEF InFiring
  <2>3. IsCurrent(v, q, c)'
    BY <1>1, <2>2 DEF IsCurrent
  <2>4. q.step = "record" => q.firedAt <= alertTime'
    BY <2>2
  <2> QED BY <1>1, <2>1, <2>2, <2>3, <2>4 DEF InFiring
<1> QED BY <1>2, <1>3 DEF Run

\* A step of one worker.
LEMMA RunsGoOn ==
  ASSUME FiringInv, NEW w \in Evaluator, NEW q, evaluator' = [evaluator EXCEPT ![w] = q],
         Run(w, q)', \A v \in Evaluator \ {w} : \A x : Run(v, x) => Run(v, x)'
  PROVE  DOMAIN evaluator' = Evaluator /\ \A v \in Evaluator : \A x \in {evaluator'[v]} : Run(v, x)'
<1>1. DOMAIN evaluator = Evaluator
  BY DEF FiringInv, FiringTyped
<1>2. DOMAIN evaluator' = Evaluator
  BY <1>1
<1>3. ASSUME NEW v \in Evaluator, NEW x \in {evaluator'[v]} PROVE Run(v, x)'
  <2>1. CASE v = w
    BY <1>1, <2>1
  <2>2. CASE v # w
    <3>1. x = evaluator[v]
      BY <1>1, <2>2
    <3>2. Run(v, x)
      BY <3>1 DEF FiringInv
    <3> QED BY <2>2, <3>2
  <2> QED BY <2>1, <2>2
<1> QED BY <1>2, <1>3

\* Nobody moves, and the log stays.
LEMMA QuietRuns ==
  ASSUME FiringInv, UNCHANGED <<firedVars, evaluator>>, alertTime' \in Nat, alertTime' >= alertTime
  PROVE  DOMAIN evaluator' = Evaluator /\ \A v \in Evaluator : \A x \in {evaluator'[v]} : Run(v, x)'
<1>1. DOMAIN evaluator' = Evaluator /\ alertTime \in Nat
  BY DEF FiringInv, FiringTyped
<1>2. ASSUME NEW v \in Evaluator, NEW x \in {evaluator'[v]} PROVE Run(v, x)'
  <2>1. Run(v, x)
    BY DEF FiringInv
  <2> QED BY <1>1, <2>1, QuietRun
<1> QED BY <1>1, <1>2

LEMMA QuietLog ==
  ASSUME FiringInv, UNCHANGED firedVars, alertTime' \in Nat, alertTime' >= alertTime
  PROVE  FiringsEnd' /\ Spaced'
<1>1. /\ firings' = firings /\ overlapped' = overlapped /\ alertTime \in Nat
      /\ firings \in [AlertRule -> Seq(Firing)]
  BY DEF firedVars, FiringInv, FiringTyped
<1>2. FiringsEnd'
  <2>1. SUFFICES ASSUME NEW r \in AlertRule, NEW i \in 1..Len(firings[r])
                 PROVE  LET f == firings[r][i] IN
                        /\ f.start <= alertTime'
                        /\ f.recorded => f.at # Never
                        /\ f.at # Never => f.start <= f.at /\ f.at <= alertTime' /\ f.attempted = f.actions
    BY <1>1 DEF FiringsEnd
  <2>2. firings[r][i] \in Firing
    BY <1>1
  <2>3. /\ firings[r][i].start \in Nat /\ firings[r][i].at \in Nat \cup {Never}
    BY <2>2 DEF Firing
  <2> QED BY <1>1, <2>3 DEF FiringInv, FiringsEnd, Never
<1>3. Spaced'
  BY <1>1 DEF FiringInv, Spaced
<1> QED BY <1>2, <1>3

-----------------------------------------------------------------------------
\* Requests leave the times of rows alone.

LEMMA RequestFiringInv ==
  ASSUME FiringInv, UNCHANGED <<alertTime, evaluator, firedVars>>, NEW c \in AlertCall, NEW q,
         alertCall' = [alertCall EXCEPT ![c] = q], DOMAIN q = {"step", "row"},
         q.step = "merged" => q.row \in RuleRow,
         rules' \in [AlertRule -> RuleRow \cup {NoRule}], RowsRemember'
  PROVE  FiringInv'
<1>1. alertTime' \in Nat /\ alertTime' >= alertTime
  BY DEF FiringInv, FiringTyped
<1>2. FiringsEnd' /\ Spaced'
  BY <1>1, QuietLog
<1>3. DOMAIN evaluator' = Evaluator /\ \A v \in Evaluator : \A x \in {evaluator'[v]} : Run(v, x)'
  BY <1>1, QuietRuns
<1>4. FiringTyped'
  <2>1. firings' \in [AlertRule -> Seq(Firing)]
    BY DEF firedVars, FiringInv, FiringTyped
  <2>2. DOMAIN alertCall' = AlertCall
    BY DEF FiringInv, FiringTyped
  <2>3. ASSUME NEW d \in AlertCall
        PROVE  /\ DOMAIN alertCall'[d] = {"step", "row"}
               /\ alertCall'[d].step = "merged" => alertCall'[d].row \in RuleRow
    BY DEF FiringInv, FiringTyped
  <2> QED BY <1>1, <1>3, <2>1, <2>2, <2>3 DEF FiringTyped
<1> QED BY <1>2, <1>3, <1>4 DEF FiringInv

LEMMA FieldsAre ==
  ASSUME NEW c \in AlertCall, NEW fields, fields = AlertInput[c].fields
  PROVE  /\ DOMAIN fields \subseteq Editable
         /\ AlertInput[c].op = "create" => DOMAIN fields = Editable \ {"enabled"}
         /\ "enabled" \in DOMAIN fields => fields["enabled"] \in BOOLEAN
         /\ "frequency" \in DOMAIN fields => fields["frequency"] \in Int
         /\ "conditions" \in DOMAIN fields => fields["conditions"] \subseteq AlertCondition
         /\ "actions" \in DOMAIN fields => fields["actions"] \in Seq(AlertAction)
         /\ AlertInput[c].rule \in AlertRule
  BY AlertAssumption DEF AlertAssumption

LEMMA CreateInv ==
  ASSUME FiringInv, NEW c \in AlertCall, CreateAlert(c)
  PROVE  FiringInv'
<1> DEFINE fields == AlertInput[c].fields
           row == [enabled |-> TRUE, frequency |-> fields["frequency"], lastFired |-> Never,
                   conditions |-> fields["conditions"], actions |-> fields["actions"]]
<1>0. PICK r : r = AlertInput[c].rule
  OBVIOUS
<1>1. /\ UNCHANGED <<alertTime, evaluator, firedVars>> /\ firings[r] = <<>>
      /\ rules' = [rules EXCEPT ![r] = row]
      /\ alertCall' = [alertCall EXCEPT ![c] = [alertCall[c] EXCEPT !.step = "done"]]
  BY <1>0 DEF CreateAlert
<1>2. row \in RuleRow /\ r \in AlertRule
  <2>1. AlertInput[c].op = "create"
    BY DEF CreateAlert
  <2>2. /\ fields["frequency"] \in Int /\ fields["conditions"] \subseteq AlertCondition
        /\ fields["actions"] \in Seq(AlertAction) /\ r \in AlertRule
    BY <1>0, <2>1, FieldsAre DEF Editable
  <2> QED BY <2>2 DEF RuleRow
<1> HIDE DEF row
<1>3. rules' \in [AlertRule -> RuleRow \cup {NoRule}]
  BY <1>1, <1>2 DEF FiringInv, FiringTyped
<1>4. RowsRemember'
  <2>1. firings' = firings /\ overlapped' = overlapped
    BY <1>1 DEF firedVars
  <2>2. \A s \in AlertRule \ {r} : rules'[s] = rules[s]
    BY <1>1, <1>2 DEF FiringInv, FiringTyped
  <2> QED BY <1>1, <2>1, <2>2 DEF FiringInv, RowsRemember
<1>5. DOMAIN [alertCall[c] EXCEPT !.step = "done"] = {"step", "row"}
      /\ [alertCall[c] EXCEPT !.step = "done"].step # "merged"
  BY DEF FiringInv, FiringTyped
<1> QED BY <1>1, <1>3, <1>4, <1>5, RequestFiringInv

LEMMA ReadRuleInv ==
  ASSUME FiringInv, NEW c \in AlertCall, ReadRule(c)
  PROVE  FiringInv'
<1>0. PICK r, fields : r = AlertInput[c].rule /\ fields = AlertInput[c].fields
  OBVIOUS
<1> DEFINE q == IF rules[r] = NoRule THEN [step |-> "done", row |-> NoRule]
                ELSE [step |-> "merged", row |-> MergeRule(rules[r], fields)]
<1>1. /\ UNCHANGED <<alertTime, evaluator, firedVars>> /\ rules' = rules
      /\ alertCall' = [alertCall EXCEPT ![c] = q]
  BY <1>0 DEF ReadRule
<1>2. rules[r] # NoRule => MergeRule(rules[r], fields) \in RuleRow
  <2>1. SUFFICES ASSUME NEW row \in RuleRow PROVE MergeRule(row, fields) \in RuleRow
    BY <1>0, FieldsAre DEF FiringInv, FiringTyped
  <2>2. DOMAIN row = {"enabled", "frequency", "lastFired", "conditions", "actions"}
    BY DEF RuleRow
  <2> DEFINE merged == MergeRule(row, fields)
  <2>3. /\ DOMAIN merged = {"enabled", "frequency", "lastFired", "conditions", "actions"}
        /\ \A f \in DOMAIN row : merged[f] = IF f \in DOMAIN fields THEN fields[f] ELSE row[f]
        /\ merged = [f \in DOMAIN row |-> merged[f]]
    BY <2>2 DEF MergeRule
  <2> HIDE DEF merged
  <2>4. merged["enabled"] \in BOOLEAN /\ merged["frequency"] \in Int
    BY <1>0, <2>2, <2>3, FieldsAre DEF RuleRow
  <2>5. merged["lastFired"] \in Nat \cup {Never}
    BY <1>0, <2>2, <2>3, FieldsAre DEF RuleRow, Editable
  <2>6. merged["conditions"] \subseteq AlertCondition /\ merged["actions"] \in Seq(AlertAction)
    BY <1>0, <2>2, <2>3, FieldsAre DEF RuleRow
  <2> QED BY <2>2, <2>3, <2>4, <2>5, <2>6 DEF RuleRow, merged
<1>3. DOMAIN q = {"step", "row"} /\ (q.step = "merged" => q.row \in RuleRow)
  BY <1>2
<1> HIDE DEF q
<1>4. rules' \in [AlertRule -> RuleRow \cup {NoRule}] /\ RowsRemember'
  BY <1>1 DEF firedVars, FiringInv, FiringTyped, RowsRemember
<1> QED BY <1>1, <1>3, <1>4, RequestFiringInv

LEMMA WriteRuleInv ==
  ASSUME FiringInv, NEW c \in AlertCall, WriteRule(c)
  PROVE  FiringInv'
<1>0. PICK r : r = AlertInput[c].rule
  OBVIOUS
<1> DEFINE q == [step |-> "done", row |-> NoRule]
           row == Written(rules[r], alertCall[c].row)
<1>1. /\ UNCHANGED <<alertTime, evaluator, firedVars>> /\ alertCall[c].step = "merged"
      /\ rules' = IF rules[r] = NoRule THEN rules ELSE [rules EXCEPT ![r] = row]
      /\ alertCall' = [alertCall EXCEPT ![c] = q]
  BY <1>0 DEF WriteRule
<1>2. r \in AlertRule /\ rules \in [AlertRule -> RuleRow \cup {NoRule}]
  BY <1>0, FieldsAre DEF FiringInv, FiringTyped
<1>3. rules[r] # NoRule => row \in RuleRow /\ row.lastFired = rules[r].lastFired
  <2>1. alertCall[c].row \in RuleRow
    BY <1>1 DEF FiringInv, FiringTyped
  <2>2. rules[r] # NoRule => rules[r].lastFired \in Nat \cup {Never}
    BY <1>2 DEF RuleRow
  <2> QED BY <2>1, <2>2 DEF Written, RuleRow
<1> HIDE DEF row
<1>4. rules' \in [AlertRule -> RuleRow \cup {NoRule}]
  BY <1>1, <1>2, <1>3
<1>5. RowsRemember'
  <2>1. firings' = firings /\ overlapped' = overlapped
    BY <1>1 DEF firedVars
  <2>2. \A s \in AlertRule : rules'[s] # NoRule => rules[s] # NoRule /\ rules'[s].lastFired = rules[s].lastFired
    BY <1>1, <1>2, <1>3
  <2> QED BY <2>1, <2>2 DEF FiringInv, RowsRemember
<1>6. DOMAIN q = {"step", "row"} /\ q.step # "merged"
  OBVIOUS
<1> QED BY <1>1, <1>4, <1>5, <1>6, RequestFiringInv

LEMMA DeleteInv ==
  ASSUME FiringInv, NEW c \in AlertCall, DeleteAlert(c)
  PROVE  FiringInv'
<1>0. PICK r : r = AlertInput[c].rule
  OBVIOUS
<1>1. /\ UNCHANGED <<alertTime, evaluator, firedVars>>
      /\ rules' = [rules EXCEPT ![r] = NoRule]
      /\ alertCall' = [alertCall EXCEPT ![c] = [alertCall[c] EXCEPT !.step = "done"]]
  BY <1>0 DEF DeleteAlert
<1>2. r \in AlertRule /\ rules \in [AlertRule -> RuleRow \cup {NoRule}]
  BY <1>0, FieldsAre DEF FiringInv, FiringTyped
<1>3. rules' \in [AlertRule -> RuleRow \cup {NoRule}]
  BY <1>1, <1>2
<1>4. RowsRemember'
  <2>1. firings' = firings /\ overlapped' = overlapped
    BY <1>1 DEF firedVars
  <2>2. \A s \in AlertRule : rules'[s] # NoRule => rules'[s] = rules[s]
    BY <1>1, <1>2
  <2> QED BY <2>1, <2>2 DEF FiringInv, RowsRemember
<1>5. DOMAIN [alertCall[c] EXCEPT !.step = "done"] = {"step", "row"}
      /\ [alertCall[c] EXCEPT !.step = "done"].step # "merged"
  BY DEF FiringInv, FiringTyped
<1> QED BY <1>1, <1>3, <1>4, <1>5, RequestFiringInv

LEMMA AlertTickInv ==
  ASSUME FiringInv, AlertTick
  PROVE  FiringInv'
<1>1. /\ UNCHANGED <<rules, evaluator, alertCall, firedVars>>
      /\ alertTime' \in Nat /\ alertTime' >= alertTime
  BY DEF AlertTick, FiringInv, FiringTyped
<1>2. FiringsEnd' /\ Spaced'
  BY <1>1, QuietLog
<1>3. DOMAIN evaluator' = Evaluator /\ \A v \in Evaluator : \A x \in {evaluator'[v]} : Run(v, x)'
  BY <1>1, QuietRuns
<1>4. FiringTyped' /\ RowsRemember'
  BY <1>1, <1>3 DEF firedVars, FiringInv, FiringTyped, RowsRemember
<1> QED BY <1>2, <1>3, <1>4 DEF FiringInv

-----------------------------------------------------------------------------
\* Workers between firings.

LEMMA QuietWorker ==
  ASSUME FiringInv, UNCHANGED <<alertTime, rules, alertCall, firedVars>>, NEW w \in Evaluator,
         NEW q, evaluator' = [evaluator EXCEPT ![w] = q], Run(w, q)
  PROVE  FiringInv'
<1>1. alertTime \in Nat /\ alertTime' \in Nat /\ alertTime' >= alertTime
  BY DEF FiringInv, FiringTyped
<1>2. FiringsEnd' /\ Spaced'
  BY <1>1, QuietLog
<1>3. \A v \in Evaluator : \A x : Run(v, x) => Run(v, x)'
  BY <1>1, QuietRun
<1>4. DOMAIN evaluator' = Evaluator /\ \A v \in Evaluator : \A x \in {evaluator'[v]} : Run(v, x)'
  BY <1>3, RunsGoOn
<1>5. FiringTyped' /\ RowsRemember'
  BY <1>4 DEF firedVars, FiringInv, FiringTyped, RowsRemember
<1> QED BY <1>2, <1>4, <1>5 DEF FiringInv

LEMMA RecordedIs ==
  ASSUME FiringTyped, NEW r \in AlertRule
  PROVE  /\ IsFiniteSet(Recorded(r)) /\ Cardinality(Recorded(r)) \in Nat
         /\ Len(firings[r]) \in Nat /\ Cardinality(Recorded(r)) <= Len(firings[r])
         /\ Cardinality(Recorded(r)) = Len(firings[r]) =>
              \A i \in 1..Len(firings[r]) : firings[r][i].recorded
<1>1. Len(firings[r]) \in Nat
  BY DEF FiringTyped
<1>2. /\ IsFiniteSet(1..Len(firings[r])) /\ Cardinality(1..Len(firings[r])) = Len(firings[r])
      /\ Recorded(r) \subseteq 1..Len(firings[r])
  BY <1>1, FS_Interval DEF Recorded
<1>3. /\ IsFiniteSet(Recorded(r)) /\ Cardinality(Recorded(r)) \in Nat
      /\ Cardinality(Recorded(r)) <= Len(firings[r])
      /\ Cardinality(Recorded(r)) = Len(firings[r]) => Recorded(r) = 1..Len(firings[r])
  BY <1>2, FS_Subset, FS_CardinalityType
<1>4. Recorded(r) = 1..Len(firings[r]) => \A i \in 1..Len(firings[r]) : firings[r][i].recorded
  BY DEF Recorded
<1> QED BY <1>1, <1>3, <1>4

LEMMA FinishedIs ==
  ASSUME NEW run
  PROVE  DOMAIN Finished(run) = RunFields /\ Finished(run).step = "idle" /\ Finished(run).index = 0
  BY DEF Finished, NoEvaluation, RunFields

LEMMA FinishedRun ==
  ASSUME NEW w \in Evaluator, NEW run
  PROVE  Run(w, Finished(run))
  BY FinishedIs DEF Run

LEMMA CountInv ==
  ASSUME FiringInv, NEW w \in Evaluator, NEW e \in AlertEvent, NEW normalized,
         CountEvent(w, e, normalized)
  PROVE  FiringInv'
<1>1. PICK q : q = [evaluator[w] EXCEPT !.step = "load", !.index = Len(counted) + 1]
  OBVIOUS
<1>2. /\ UNCHANGED <<alertTime, rules, alertCall, firedVars>>
      /\ evaluator' = [evaluator EXCEPT ![w] = q]
  BY <1>1 DEF CountEvent
<1>3. DOMAIN evaluator[w] = RunFields
  BY DEF FiringInv, Run
<1>4. DOMAIN q = RunFields /\ q.step = "load"
  BY <1>1, <1>3 DEF RunFields
<1>5. Run(w, q)
  BY <1>4 DEF Run
<1> QED BY <1>2, <1>5, QuietWorker

LEMMA LoseInv ==
  ASSUME FiringInv, NEW w \in Evaluator, LoseEvaluation(w)
  PROVE  FiringInv'
<1>1. PICK q : q = Finished(evaluator[w])
  OBVIOUS
<1>2. /\ UNCHANGED <<alertTime, rules, alertCall, firedVars>>
      /\ evaluator' = [evaluator EXCEPT ![w] = q]
  BY <1>1 DEF LoseEvaluation
<1> QED BY <1>1, <1>2, FinishedRun, QuietWorker

LEMMA LoadInv ==
  ASSUME FiringInv, NEW w \in Evaluator, LoadRules(w)
  PROVE  FiringInv'
<1> DEFINE enabled == {r \in AlertRule : rules[r].enabled}
           known == [r \in enabled |-> Cardinality({i \in DOMAIN firings[r] : firings[r][i].recorded})]
           loaded == [r \in enabled |-> rules[r]]
           begun == [evaluator[w] EXCEPT !.step = "rules", !.now = alertTime, !.queue = enabled,
                       !.loaded = loaded, !.known = known]
           idle == Finished(evaluator[w])
<1>1. /\ UNCHANGED <<alertTime, rules, alertCall, firedVars>>
      /\ evaluator' = [evaluator EXCEPT ![w] = IF enabled = {} THEN idle ELSE begun]
  BY DEF LoadRules
<1>2. /\ FiringTyped /\ DOMAIN evaluator[w] = RunFields
      /\ alertTime \in Nat /\ firings \in [AlertRule -> Seq(Firing)]
      /\ rules \in [AlertRule -> RuleRow \cup {NoRule}]
  BY DEF FiringInv, FiringTyped, Run
<1>4. Run(w, idle)
  BY FinishedRun
<1> HIDE DEF enabled, known, loaded
<1>5. /\ DOMAIN begun = RunFields /\ begun.step = "rules" /\ begun.loaded = loaded
      /\ begun.queue = enabled /\ begun.now = alertTime /\ begun.known = known
  BY <1>2 DEF RunFields
<1> HIDE DEF begun, idle
<1>6. ASSUME NEW r \in enabled
      PROVE  /\ r \in AlertRule /\ loaded[r] \in RuleRow /\ loaded[r] = rules[r]
             /\ known[r] = Cardinality(Recorded(r))
  <2>1. r \in AlertRule /\ rules[r].enabled
    BY DEF enabled
  <2>2. rules[r] # NoRule
    BY <2>1 DEF NoRule
  <2>3. DOMAIN firings[r] = 1..Len(firings[r])
    BY <1>2, <2>1
  <2> QED BY <1>2, <2>1, <2>2, <2>3 DEF loaded, known, Recorded
<1>7. ASSUME NEW r \in enabled, r \notin overlapped, known[r] = Len(firings[r])
      PROVE  KnowsAll(begun, r)
  <2>1. \A i \in 1..Len(firings[r]) : firings[r][i].recorded
    BY <1>2, <1>6, <1>7, RecordedIs
  <2>2. \A i \in 1..Len(firings[r]) : firings[r][i].at <= alertTime
    BY <1>6, <2>1 DEF FiringInv, FiringsEnd
  <2>3. firings[r] # <<>> => Len(firings[r]) \in 1..Len(firings[r])
    BY <1>2, <1>6
  <2>4. rules[r] # NoRule
    BY <1>6 DEF NoRule, enabled
  <2>5. firings[r] # <<>> => rules[r].lastFired = firings[r][Len(firings[r])].at
    BY <1>6, <1>7, <2>1, <2>3, <2>4 DEF FiringInv, RowsRemember
  <2> QED BY <1>5, <1>6, <2>2, <2>5 DEF KnowsAll
<1>8. Read(begun)
  <2>1. ASSUME NEW r \in enabled
        PROVE  known[r] \in Nat /\ known[r] <= Cardinality(Recorded(r))
    BY <1>2, <1>6, RecordedIs
  <2>2. enabled \subseteq AlertRule
    BY DEF enabled
  <2> QED BY <1>2, <1>5, <1>6, <1>7, <2>1, <2>2 DEF Read
<1>9. Run(w, begun)
  BY <1>5, <1>8 DEF Run
<1> QED BY <1>1, <1>4, <1>9, QuietWorker

\* A worker that goes on with fewer rules, or has none left.
LEMMA ResumeRun ==
  ASSUME NEW w \in Evaluator, NEW q, DOMAIN q = RunFields, q.step = "rules", Read(q)
  PROVE  Run(w, Resume(q))
<1>1. CASE q.queue = {}
  <2>1. Resume(q) = Finished(q)
    BY <1>1 DEF Resume
  <2> QED BY <2>1, FinishedRun
<1>2. CASE q.queue # {}
  <2>1. Resume(q) = q
    BY <1>2 DEF Resume
  <2> QED BY <2>1 DEF Run
<1> QED BY <1>1, <1>2

LEMMA FewerRules ==
  ASSUME NEW q, NEW p, Read(q), p.now = q.now, p.queue \subseteq q.queue,
         p.loaded = q.loaded, p.known = q.known
  PROVE  Read(p)
<1>1. \A r : KnowsAll(p, r) <=> KnowsAll(q, r)
  BY DEF KnowsAll
<1> QED BY <1>1 DEF Read

LEMMA SkipInv ==
  ASSUME FiringInv, NEW w \in Evaluator, NEW r \in AlertRule,
         SkipRule(w, r) \/ SkipUnread(w, r)
  PROVE  FiringInv'
<1> DEFINE p == [evaluator[w] EXCEPT !.queue = evaluator[w].queue \ {r}]
<1>1. /\ UNCHANGED <<alertTime, rules, alertCall, firedVars>> /\ evaluator[w].step = "rules"
      /\ evaluator' = [evaluator EXCEPT ![w] = Resume(p)]
  BY DEF SkipRule, SkipUnread, Without
<1>2. DOMAIN evaluator[w] = RunFields /\ Read(evaluator[w])
  BY <1>1 DEF FiringInv, Run
<1>3. /\ DOMAIN p = RunFields /\ p.step = "rules" /\ p.queue \subseteq evaluator[w].queue
      /\ p.now = evaluator[w].now /\ p.loaded = evaluator[w].loaded /\ p.known = evaluator[w].known
  BY <1>1, <1>2 DEF RunFields
<1> HIDE DEF p
<1>4. Read(p)
  BY <1>2, <1>3, FewerRules
<1>5. Run(w, Resume(p))
  BY <1>3, <1>4, ResumeRun
<1> QED BY <1>1, <1>5, QuietWorker

-----------------------------------------------------------------------------
\* Workers in a firing.

OthersGoOn(w) ==
  /\ \A q : Read(q) => Read(q)'
  /\ \A v \in Evaluator \ {w} : \A q : Run(v, q) => Run(v, q)'

\* What a worker that changes one firing of its own leaves to the others.
LEMMA LogGoesOn ==
  ASSUME FiringInv, NEW w \in Evaluator, NEW r \in AlertRule, NEW log \in Seq(Firing),
         firings' = [firings EXCEPT ![r] = log], alertTime' = alertTime,
         overlapped \subseteq overlapped', Len(firings[r]) <= Len(log),
         \A i \in 1..Len(firings[r]) : /\ log[i].by = firings[r][i].by
                                       /\ firings[r][i].recorded => log[i].recorded,
         \A i \in 1..Len(log) : log[i].by # w => i <= Len(firings[r]) /\ log[i] = firings[r][i],
         Cardinality(Recorded(r)) < Len(log)
  PROVE  OthersGoOn(w)
<1>1. /\ FiringTyped /\ firings \in [AlertRule -> Seq(Firing)] /\ firings'[r] = log
      /\ \A s \in AlertRule \ {r} : firings'[s] = firings[s]
  BY DEF FiringInv, FiringTyped
<1>2. Cardinality(Recorded(r)) <= Cardinality(Recorded(r)')
  <2>1. Recorded(r) \subseteq Recorded(r)'
    BY <1>1 DEF Recorded
  <2>2. Recorded(r)' \subseteq 1..Len(log)
    BY <1>1 DEF Recorded
  <2>3. IsFiniteSet(1..Len(log))
    BY FS_Interval
  <2>4. IsFiniteSet(Recorded(r)')
    BY <2>2, <2>3, FS_Subset
  <2> QED BY <2>1, <2>4, FS_Subset
<1>3. ASSUME NEW q, Read(q) PROVE Read(q)'
  <2>1. q.now \in Nat /\ q.now <= alertTime' /\ q.queue \subseteq AlertRule
    BY <1>3 DEF Read
  <2>2. ASSUME NEW s \in q.queue
        PROVE  /\ q.loaded[s] \in RuleRow
               /\ q.known[s] \in Nat /\ q.known[s] <= Cardinality(Recorded(s)')
               /\ s \notin overlapped' /\ q.known[s] = Len(firings'[s]) => KnowsAll(q, s)'
    <3>1. /\ s \in AlertRule /\ q.loaded[s] \in RuleRow
          /\ q.known[s] \in Nat /\ q.known[s] <= Cardinality(Recorded(s))
      BY <1>3, <2>1 DEF Read
    <3>2. CASE s = r
      <4>1. Cardinality(Recorded(r)) \in Nat /\ Cardinality(Recorded(r)') \in Nat
        <5>1. IsFiniteSet(1..Len(log)) /\ Recorded(r)' \subseteq 1..Len(log)
          BY <1>1, FS_Interval DEF Recorded
        <5>2. IsFiniteSet(Recorded(r)')
          BY <5>1, FS_Subset
        <5> QED BY <1>1, <5>2, RecordedIs, FS_CardinalityType
      <4>2. q.known[s] # Len(firings'[s])
        BY <1>1, <3>1, <3>2, <4>1
      <4> QED BY <1>2, <3>1, <3>2, <4>1, <4>2
    <3>3. CASE s # r
      <4>1. firings'[s] = firings[s]
        BY <1>1, <3>1, <3>3
      <4>2. Recorded(s)' = Recorded(s) /\ (KnowsAll(q, s)' <=> KnowsAll(q, s))
        BY <4>1 DEF Recorded, KnowsAll
      <4> QED BY <1>3, <3>1, <4>1, <4>2 DEF Read
    <3> QED BY <3>2, <3>3
  <2> QED BY <2>1, <2>2 DEF Read
<1>4. ASSUME NEW v \in Evaluator \ {w}, NEW q, InFiring(v, q) PROVE InFiring(v, q)'
  <2>1. PICK c \in 1..Len(firings[q.rule]) :
          /\ IsCurrent(v, q, c)
          /\ q.step = "fire" => q.left # <<>>
          /\ q.step = "record" =>
               /\ q.left = <<>> /\ q.firedAt \in Nat
               /\ firings[q.rule][c].start <= q.firedAt /\ q.firedAt <= alertTime
    BY <1>4 DEF InFiring
  <2>2. q.rule \in AlertRule /\ q.left \in Seq(AlertAction)
    BY <1>4 DEF InFiring
  <2>3. firings[q.rule][c].by = v /\ v # w
    BY <2>1 DEF IsCurrent
  <2>4. c \in 1..Len(firings'[q.rule]) /\ firings'[q.rule][c] = firings[q.rule][c]
    <3>1. CASE q.rule = r
      <4>1. c \in 1..Len(log) /\ Len(firings[r]) \in Nat /\ Len(log) \in Nat
        BY <1>1, <3>1
      <4>2. log[c].by = firings[r][c].by
        BY <3>1
      <4>3. log[c] = firings[r][c]
        BY <2>3, <3>1, <4>1, <4>2
      <4> QED BY <1>1, <3>1, <4>1, <4>3
    <3>2. CASE q.rule # r
      BY <1>1, <2>2, <3>2
    <3> QED BY <3>1, <3>2
  <2>5. ASSUME NEW j \in 1..Len(firings'[q.rule]), firings'[q.rule][j].by = v PROVE j <= c
    <3>1. j \in 1..Len(firings[q.rule]) /\ firings[q.rule][j].by = v
      BY <1>1, <2>2, <2>3, <2>5
    <3> QED BY <2>1, <3>1 DEF IsCurrent
  <2>6. IsCurrent(v, q, c)'
    BY <2>1, <2>4, <2>5 DEF IsCurrent
  <2> QED BY <2>1, <2>2, <2>4, <2>6 DEF InFiring
<1>5. ASSUME NEW v \in Evaluator \ {w}, NEW q, Run(v, q) PROVE Run(v, q)'
  BY <1>3, <1>4, <1>5 DEF Run
<1> QED BY <1>3, <1>5 DEF OthersGoOn

\* A worker whose last action is behind it takes the time.
LEMMA TimedRun ==
  ASSUME NEW w \in Evaluator, NEW p, NEW q, q = Timed(p), DOMAIN p = RunFields, p.step = "fire",
         Read(p)', p.rule \in AlertRule, p.left \in Seq(AlertAction), alertTime \in Nat,
         alertTime' = alertTime, NEW c \in 1..Len(firings'[p.rule]), IsCurrent(w, p, c)',
         firings'[p.rule][c].start <= alertTime
  PROVE  Run(w, q)'
<1>1. CASE p.left = <<>>
  <2>1. q = [p EXCEPT !.step = "record", !.firedAt = alertTime]
    BY <1>1 DEF Timed
  <2>2. /\ DOMAIN q = RunFields /\ q.step = "record" /\ q.firedAt = alertTime
        /\ q.now = p.now /\ q.queue = p.queue /\ q.loaded = p.loaded /\ q.known = p.known
        /\ q.rule = p.rule /\ q.left = p.left
    BY <2>1 DEF RunFields
  <2>3. Read(q)'
    <3>1. \A r : KnowsAll(q, r)' <=> KnowsAll(p, r)'
      BY <2>2 DEF KnowsAll
    <3> QED BY <2>2, <3>1 DEF Read
  <2>4. IsCurrent(w, q, c)'
    BY <2>2 DEF IsCurrent
  <2>5. InFiring(w, q)'
    BY <1>1, <2>2, <2>4 DEF InFiring
  <2> QED BY <2>2, <2>3, <2>5 DEF Run
<1>2. CASE p.left # <<>>
  <2>1. q = p
    BY <1>2 DEF Timed
  <2>2. InFiring(w, q)'
    BY <1>2, <2>1 DEF InFiring
  <2> QED BY <2>1, <2>2 DEF Run
<1> QED BY <1>1, <1>2

LEMMA FiringIs ==
  ASSUME NEW f \in Firing
  PROVE  f.start \in Int /\ f.at \in Int /\ f.frequency \in Int
  BY DEF Firing, Never

LEMMA StartInv ==
  ASSUME FiringInv, NEW w \in Evaluator, NEW r \in AlertRule, StartFiring(w, r)
  PROVE  FiringInv'
<1>0. PICK run, n : run = evaluator[w] /\ n = Len(firings[r])
  OBVIOUS
<1> DEFINE row == run.loaded[r]
           p == [run EXCEPT !.queue = run.queue \ {r}, !.step = "fire", !.rule = r,
                            !.left = row.actions]
           new == [start |-> run.now, frequency |-> row.frequency, by |-> w,
                   actions |-> row.actions, recorded |-> FALSE, at |-> Never, attempted |-> <<>>]
           log == Append(firings[r], new)
<1>1. /\ UNCHANGED <<alertTime, rules, alertCall>> /\ run.step = "rules" /\ r \in run.queue
      /\ firings' = [firings EXCEPT ![r] = log]
      /\ overlapped' = IF run.known[r] = n THEN overlapped ELSE overlapped \cup {r}
  BY <1>0 DEF StartFiring, NextRule
<1>2. PICK q : q = Timed(p)
  OBVIOUS
<1>3. evaluator' = [evaluator EXCEPT ![w] = q]
  BY <1>0, <1>2 DEF StartFiring
<1>4. /\ FiringTyped /\ firings \in [AlertRule -> Seq(Firing)] /\ n \in Nat /\ alertTime \in Nat
      /\ DOMAIN evaluator = Evaluator /\ n = Len(firings[r])
  BY <1>0 DEF FiringInv, FiringTyped
<1>5. DOMAIN run = RunFields /\ Read(run)
  BY <1>0, <1>1 DEF FiringInv, Run
<1>6. /\ run.now \in Nat /\ run.now <= alertTime /\ row \in RuleRow
      /\ run.known[r] \in Nat /\ run.known[r] <= Cardinality(Recorded(r))
      /\ r \notin overlapped /\ run.known[r] = n => KnowsAll(run, r)
  BY <1>1, <1>4, <1>5 DEF Read
<1>7. row.actions \in Seq(AlertAction) /\ row.frequency \in Int /\ row.lastFired \in Nat \cup {Never}
  BY <1>6 DEF RuleRow
<1>8. new \in Firing
  BY <1>6, <1>7 DEF Firing
<1>9. /\ log \in Seq(Firing) /\ Len(log) = n + 1 /\ log[n + 1] = new
      /\ \A i \in 1..n : log[i] = firings[r][i]
  BY <1>4, <1>8
<1>10. Cooling(w, r) <=> row.lastFired # Never /\ run.now - row.lastFired < row.frequency
  BY <1>0 DEF Cooling
<1>11. ~Cooling(w, r)
  BY DEF StartFiring, Fires
<1>12. /\ new.start = run.now /\ new.frequency = row.frequency /\ new.by = w
       /\ new.actions = row.actions /\ ~new.recorded /\ new.at = Never /\ new.attempted = <<>>
  OBVIOUS
<1>13. /\ DOMAIN p = RunFields /\ p.step = "fire" /\ p.queue \subseteq run.queue /\ p.rule = r
       /\ p.left = row.actions /\ p.now = run.now /\ p.loaded = run.loaded /\ p.known = run.known
  BY <1>5 DEF RunFields
<1> HIDE DEF p, new, log
<1>14. /\ firings'[r] = log /\ firings' \in [AlertRule -> Seq(Firing)]
       /\ \A s \in AlertRule \ {r} : firings'[s] = firings[s]
       /\ overlapped \subseteq overlapped'
  BY <1>1, <1>4, <1>9
<1>15. OthersGoOn(w)
  <2>1. Cardinality(Recorded(r)) < Len(log)
    BY <1>4, <1>9, RecordedIs
  <2>2. \A i \in 1..Len(firings[r]) : log[i].by = firings[r][i].by /\ (firings[r][i].recorded => log[i].recorded)
    BY <1>4, <1>9
  <2>3. \A i \in 1..Len(log) : log[i].by # w => i <= Len(firings[r]) /\ log[i] = firings[r][i]
    BY <1>4, <1>9, <1>12
  <2>4. Len(firings[r]) <= Len(log) /\ alertTime' = alertTime
    BY <1>1, <1>4, <1>9
  <2> QED BY <1>1, <1>9, <1>14, <2>1, <2>2, <2>3, <2>4, LogGoesOn
<1>16. Run(w, q)'
  <2>1. Read(p)'
    BY <1>5, <1>13, <1>15, FewerRules DEF OthersGoOn
  <2>2. n + 1 \in 1..Len(firings'[p.rule]) /\ firings'[p.rule][n + 1] = new
    BY <1>4, <1>9, <1>13, <1>14
  <2>3. <<>> \o row.actions = row.actions
    BY <1>7
  <2>4. \A j \in 1..Len(firings'[p.rule]) : j <= n + 1
    BY <1>4, <1>9, <1>13, <1>14
  <2>5. IsCurrent(w, p, n + 1)'
    BY <1>12, <1>13, <2>2, <2>3, <2>4 DEF IsCurrent
  <2>6. firings'[p.rule][n + 1].start <= alertTime
    BY <1>6, <1>12, <2>2
  <2> QED BY <1>1, <1>2, <1>4, <1>7, <1>13, <2>1, <2>2, <2>5, <2>6, TimedRun
<1>17. DOMAIN evaluator' = Evaluator /\ \A v \in Evaluator : \A x \in {evaluator'[v]} : Run(v, x)'
  BY <1>3, <1>15, <1>16, RunsGoOn DEF OthersGoOn
<1>18. FiringTyped'
  BY <1>1, <1>14, <1>17 DEF FiringInv, FiringTyped
<1>19. FiringsEnd'
  <2>1. SUFFICES ASSUME NEW s \in AlertRule, NEW i \in 1..Len(firings'[s]),
                        NEW f, f = firings'[s][i]
                 PROVE  /\ f.start <= alertTime
                        /\ f.recorded => f.at # Never
                        /\ f.at # Never => f.start <= f.at /\ f.at <= alertTime /\ f.attempted = f.actions
    BY <1>1 DEF FiringsEnd
  <2>2. CASE s = r /\ i = n + 1
    BY <1>6, <1>9, <1>12, <1>14, <2>1, <2>2
  <2>3. CASE ~(s = r /\ i = n + 1)
    <3>1. i \in 1..Len(firings[s]) /\ f = firings[s][i]
      BY <1>4, <1>9, <1>14, <2>1, <2>3
    <3> QED BY <3>1 DEF FiringInv, FiringsEnd
  <2> QED BY <2>2, <2>3
<1>20. Spaced'
  <2>1. SUFFICES ASSUME NEW s \in AlertRule \ overlapped', NEW j \in 1..Len(firings'[s]),
                        NEW i \in 1..(j - 1)
                 PROVE  /\ firings'[s][i].recorded
                        /\ firings'[s][i].at <= firings'[s][j].start
                        /\ firings'[s][j].start - firings'[s][i].at >= firings'[s][j].frequency
    BY DEF Spaced
  <2>2. CASE s = r /\ j = n + 1
    <3>1. r \notin overlapped /\ run.known[r] = n
      BY <1>1, <1>14, <2>2
    <3>2. KnowsAll(run, r)
      BY <1>6, <3>1
    <3>3. i \in 1..n /\ n \in 1..n /\ firings[r] # <<>>
      BY <1>4, <2>2
    <3>4. firings[r][i].at <= run.now
      BY <1>4, <3>2, <3>3 DEF KnowsAll
    <3>5. firings[r][i].recorded /\ firings[r][n].recorded
      <4>1. /\ Cardinality(Recorded(r)) \in Nat /\ Cardinality(Recorded(r)) <= n
            /\ Cardinality(Recorded(r)) = n => \A k \in 1..n : firings[r][k].recorded
        BY <1>4, RecordedIs
      <4>2. Cardinality(Recorded(r)) = n
        BY <1>4, <1>6, <3>1, <4>1
      <4> QED BY <3>3, <4>1, <4>2
    <3>6. row.lastFired = firings[r][n].at
      BY <1>4, <3>2, <3>3 DEF KnowsAll
    <3>7. /\ firings[r][i].at \in Int /\ firings[r][n].at \in Int
          /\ firings[r][n].start \in Int
      <4>1. firings[r][i] \in Firing /\ firings[r][n] \in Firing
        BY <1>4, <3>3
      <4> QED BY <4>1, FiringIs
    <3>8. firings[r][n].at # Never /\ firings[r][n].start <= firings[r][n].at
      BY <1>4, <3>3, <3>5 DEF FiringInv, FiringsEnd
    <3>9. firings[r][i].at <= firings[r][n].at
      <4>1. CASE i = n
        BY <3>7, <4>1
      <4>2. CASE i # n
        <5>1. i \in 1..(n - 1)
          BY <1>4, <3>3, <4>2
        <5>2. firings[r][i].at <= firings[r][n].start
          BY <1>4, <3>1, <3>3, <5>1 DEF FiringInv, Spaced
        <5> QED BY <3>7, <3>8, <5>2
      <4> QED BY <4>1, <4>2
    <3>10. run.now - firings[r][n].at >= row.frequency
      BY <1>6, <1>7, <1>10, <1>11, <3>6, <3>8
    <3>11. run.now - firings[r][i].at >= row.frequency
      BY <1>6, <1>7, <3>7, <3>9, <3>10
    <3>12. firings'[s][i] = firings[r][i] /\ firings'[s][j] = new
      BY <1>9, <1>14, <2>2, <3>3
    <3> QED BY <1>12, <3>4, <3>5, <3>11, <3>12
  <2>3. CASE ~(s = r /\ j = n + 1)
    <3>1. j \in 1..Len(firings[s]) /\ firings'[s][j] = firings[s][j]
      <4>1. CASE s = r
        <5>1. j \in 1..(n + 1)
          BY <1>4, <1>9, <1>14, <4>1
        <5>2. j \in 1..n
          BY <1>4, <2>3, <4>1, <5>1
        <5> QED BY <1>4, <1>9, <1>14, <4>1, <5>2
      <4>2. CASE s # r
        BY <1>14, <4>2
      <4> QED BY <4>1, <4>2
    <3>2. firings'[s][i] = firings[s][i]
      <4>1. CASE s = r
        <5>1. j \in 1..n
          BY <1>4, <3>1, <4>1
        <5>2. i \in 1..n
          BY <1>4, <5>1
        <5> QED BY <1>9, <1>14, <4>1, <5>2
      <4>2. CASE s # r
        BY <1>14, <4>2
      <4> QED BY <4>1, <4>2
    <3>3. s \in AlertRule \ overlapped
      BY <1>14
    <3> QED BY <3>1, <3>2, <3>3 DEF FiringInv, Spaced
  <2> QED BY <2>2, <2>3
<1>21. RowsRemember'
  <2>1. ~firings'[r][Len(firings'[r])].recorded
    BY <1>9, <1>12, <1>14
  <2> QED BY <1>1, <1>14, <2>1 DEF FiringInv, RowsRemember
<1> QED BY <1>17, <1>18, <1>19, <1>20, <1>21 DEF FiringInv

LEMMA CurrentIs ==
  ASSUME FiringInv, NEW w \in Evaluator, NEW run, run = evaluator[w],
         run.step \in {"fire", "record"}
  PROVE  /\ DOMAIN run = RunFields /\ Read(run)
         /\ run.rule \in AlertRule /\ run.left \in Seq(AlertAction)
         /\ Current(w) \in 1..Len(firings[run.rule]) /\ IsCurrent(w, run, Current(w))
         /\ run.step = "fire" => run.left # <<>>
         /\ run.step = "record" =>
              /\ run.left = <<>> /\ run.firedAt \in Nat
              /\ firings[run.rule][Current(w)].start <= run.firedAt /\ run.firedAt <= alertTime
<1>1. Run(w, run)
  BY DEF FiringInv
<1>2. /\ DOMAIN run = RunFields /\ Read(run) /\ InFiring(w, run)
      /\ run.rule \in AlertRule /\ run.left \in Seq(AlertAction)
  BY <1>1 DEF Run, InFiring
<1>3. PICK c \in 1..Len(firings[run.rule]) :
        /\ IsCurrent(w, run, c)
        /\ run.step = "fire" => run.left # <<>>
        /\ run.step = "record" =>
             /\ run.left = <<>> /\ run.firedAt \in Nat
             /\ firings[run.rule][c].start <= run.firedAt /\ run.firedAt <= alertTime
  BY <1>2 DEF InFiring
<1> DEFINE log == firings[run.rule]
           IsLast(i) == i \in 1..Len(log) /\ log[i].by = w /\ \A j \in 1..Len(log) : log[j].by = w => j <= i
<1>4. DOMAIN log = 1..Len(log) /\ Len(log) \in Nat
  BY <1>2 DEF FiringInv, FiringTyped
<1>5. Current(w) = CHOOSE i \in 1..Len(log) :
        log[i].by = w /\ \A j \in 1..Len(log) : log[j].by = w => j <= i
  BY <1>4 DEF Current
<1>6. IsLast(c)
  BY <1>3 DEF IsCurrent
<1>7. IsLast(Current(w))
  BY <1>5, <1>6
<1>8. Current(w) <= c /\ c <= Current(w)
  BY <1>6, <1>7
<1>9. Current(w) = c
  BY <1>4, <1>6, <1>7, <1>8
<1> QED BY <1>2, <1>3, <1>9

\* A worker writes its own firing, which was not recorded before.
Rewritten(w, r, c, f) ==
  /\ firings' = [firings EXCEPT ![r] = [firings[r] EXCEPT ![c] = f]]
  /\ alertTime' = alertTime /\ overlapped' = overlapped
  /\ firings[r][c].by = w /\ ~firings[r][c].recorded
  /\ f \in Firing /\ f.by = w
  /\ f.start = firings[r][c].start /\ f.frequency = firings[r][c].frequency
  /\ f.recorded => f.at # Never
  /\ f.at # Never => f.start <= f.at /\ f.at <= alertTime /\ f.attempted = f.actions

LogWith(r, c, f) ==
  /\ firings' \in [AlertRule -> Seq(Firing)] /\ FiringsEnd' /\ Spaced'
  /\ Len(firings'[r]) = Len(firings[r]) /\ firings'[r][c] = f
  /\ \A i \in 1..Len(firings[r]) \ {c} : firings'[r][i] = firings[r][i]
  /\ \A s \in AlertRule \ {r} : firings'[s] = firings[s]
  /\ r \notin overlapped => c = Len(firings[r])

LEMMA OwnFiring ==
  ASSUME FiringInv, NEW w \in Evaluator, NEW r \in AlertRule, NEW c \in 1..Len(firings[r]),
         NEW f, Rewritten(w, r, c, f)
  PROVE  LogWith(r, c, f) /\ OthersGoOn(w)
<1>0. PICK log : log = [firings[r] EXCEPT ![c] = f]
  OBVIOUS
<1>2. /\ firings' = [firings EXCEPT ![r] = log] /\ alertTime' = alertTime /\ overlapped' = overlapped
      /\ firings[r][c].by = w /\ ~firings[r][c].recorded
      /\ f \in Firing /\ f.by = w
      /\ f.start = firings[r][c].start /\ f.frequency = firings[r][c].frequency
      /\ f.recorded => f.at # Never
      /\ f.at # Never => f.start <= f.at /\ f.at <= alertTime /\ f.attempted = f.actions
  BY <1>0 DEF Rewritten
<1>1. /\ FiringTyped /\ firings \in [AlertRule -> Seq(Firing)] /\ Len(firings[r]) \in Nat
      /\ alertTime \in Nat
  BY DEF FiringInv, FiringTyped
<1>3. /\ log \in Seq(Firing) /\ Len(log) = Len(firings[r]) /\ log[c] = f
      /\ \A i \in 1..Len(firings[r]) \ {c} : log[i] = firings[r][i]
  BY <1>0, <1>1, <1>2
<1>4. /\ firings' \in [AlertRule -> Seq(Firing)] /\ firings'[r] = log
      /\ \A s \in AlertRule \ {r} : firings'[s] = firings[s]
  BY <1>1, <1>2, <1>3
<1>5. Cardinality(Recorded(r)) < Len(log)
  <2>1. Cardinality(Recorded(r)) # Len(firings[r])
    BY <1>1, <1>2, RecordedIs
  <2> QED BY <1>1, <1>3, <2>1, RecordedIs
<1>6. OthersGoOn(w)
  <2>1. \A i \in 1..Len(firings[r]) : /\ log[i].by = firings[r][i].by
                                      /\ firings[r][i].recorded => log[i].recorded
    BY <1>2, <1>3
  <2>2. \A i \in 1..Len(log) : log[i].by # w => i <= Len(firings[r]) /\ log[i] = firings[r][i]
    BY <1>1, <1>2, <1>3
  <2>3. Len(firings[r]) <= Len(log) /\ overlapped \subseteq overlapped'
    BY <1>1, <1>2, <1>3
  <2> QED BY <1>2, <1>3, <1>5, <2>1, <2>2, <2>3, LogGoesOn
<1>7. r \notin overlapped => c = Len(firings[r])
  <2>1. SUFFICES ASSUME r \notin overlapped, c # Len(firings[r]) PROVE FALSE
    OBVIOUS
  <2>2. Len(firings[r]) \in 1..Len(firings[r]) /\ c \in 1..(Len(firings[r]) - 1)
    BY <1>1, <2>1
  <2> QED BY <1>2, <2>1, <2>2 DEF FiringInv, Spaced
<1>8. FiringsEnd'
  <2>1. SUFFICES ASSUME NEW s \in AlertRule, NEW i \in 1..Len(firings'[s]),
                        NEW g, g = firings'[s][i]
                 PROVE  /\ g.start <= alertTime
                        /\ g.recorded => g.at # Never
                        /\ g.at # Never => g.start <= g.at /\ g.at <= alertTime /\ g.attempted = g.actions
    BY <1>2 DEF FiringsEnd
  <2>2. CASE s = r /\ i = c
    <3>1. g = f
      BY <1>3, <1>4, <2>1, <2>2
    <3>2. f.start <= alertTime
      BY <1>2 DEF FiringInv, FiringsEnd
    <3> QED BY <1>2, <3>1, <3>2
  <2>3. CASE ~(s = r /\ i = c)
    <3>1. i \in 1..Len(firings[s]) /\ g = firings[s][i]
      BY <1>3, <1>4, <2>1, <2>3
    <3> QED BY <3>1 DEF FiringInv, FiringsEnd
  <2> QED BY <2>2, <2>3
<1>9. Spaced'
  <2>1. SUFFICES ASSUME NEW s \in AlertRule \ overlapped, NEW j \in 1..Len(firings'[s]),
                        NEW i \in 1..(j - 1)
                 PROVE  /\ firings'[s][i].recorded
                        /\ firings'[s][i].at <= firings'[s][j].start
                        /\ firings'[s][j].start - firings'[s][i].at >= firings'[s][j].frequency
    BY <1>2 DEF Spaced
  <2>2. j \in 1..Len(firings[s])
    BY <1>3, <1>4
  <2>3. /\ firings[s][i].recorded
        /\ firings[s][i].at <= firings[s][j].start
        /\ firings[s][j].start - firings[s][i].at >= firings[s][j].frequency
    BY <2>2 DEF FiringInv, Spaced
  <2>4. firings'[s][i] = firings[s][i]
    <3>1. CASE s = r
      <4>1. c = Len(firings[r]) /\ j <= Len(firings[r])
        BY <1>7, <2>2, <3>1
      <4>2. j \in Int /\ i \in Int /\ 1 <= i /\ i <= j - 1
        BY <2>2
      <4>3. i \in 1..Len(firings[r]) /\ i # c
        BY <1>1, <4>1, <4>2
      <4> QED BY <1>3, <1>4, <3>1, <4>3
    <3>2. CASE s # r
      BY <1>4, <3>2
    <3> QED BY <3>1, <3>2
  <2>5. firings'[s][j].start = firings[s][j].start /\ firings'[s][j].frequency = firings[s][j].frequency
    <3>1. CASE s = r /\ j = c
      BY <1>2, <1>3, <1>4, <3>1
    <3>2. CASE ~(s = r /\ j = c)
      BY <1>3, <1>4, <2>2, <3>2
    <3> QED BY <3>1, <3>2
  <2> QED BY <2>3, <2>4, <2>5
<1> QED BY <1>3, <1>4, <1>6, <1>7, <1>8, <1>9 DEF LogWith

LEMMA HeadMoves ==
  ASSUME NEW S, NEW a \in Seq(S), NEW b \in Seq(S), b # <<>>
  PROVE  /\ Head(b) \in S /\ Tail(b) \in Seq(S)
         /\ Append(a, Head(b)) \in Seq(S) /\ Append(a, Head(b)) \o Tail(b) = a \o b
<1>1. Head(b) \in S /\ Tail(b) \in Seq(S)
  BY HeadTailProperties
<1>2. Append(a, Head(b)) = a \o <<Head(b)>> /\ <<Head(b)>> \in Seq(S)
  BY <1>1, AppendIsConcat
<1>3. (a \o <<Head(b)>>) \o Tail(b) = a \o (<<Head(b)>> \o Tail(b))
  BY <1>1, <1>2, ConcatAssociative
<1>4. <<Head(b)>> \o Tail(b) = b
  <2>1. Len(b) \in Nat \ {0} /\ Len(Tail(b)) = Len(b) - 1
    BY HeadTailProperties
  <2>2. /\ <<Head(b)>> \o Tail(b) \in Seq(S) /\ Len(<<Head(b)>> \o Tail(b)) = Len(b)
    BY <1>1, <1>2, <2>1
  <2>3. ASSUME NEW i \in 1..Len(<<Head(b)>> \o Tail(b)) PROVE (<<Head(b)>> \o Tail(b))[i] = b[i]
    <3>1. i \in 1..Len(b)
      BY <2>2
    <3>2. CASE i = 1
      BY <1>1, <1>2, <2>1, <3>2
    <3>3. CASE i # 1
      <4>1. i - 1 \in 1..Len(Tail(b))
        BY <2>1, <3>1, <3>3
      <4>2. Tail(b)[i - 1] = b[i]
        BY <4>1, <3>1, HeadTailProperties
      <4> QED BY <1>1, <1>2, <2>1, <3>1, <3>3, <4>1, <4>2
    <3> QED BY <3>2, <3>3
  <2> QED BY <2>2, <2>3, SeqEqual
<1>5. Append(a, Head(b)) \in Seq(S)
  BY <1>1
<1> QED BY <1>1, <1>2, <1>3, <1>4, <1>5

LEMMA FireInv ==
  ASSUME FiringInv, NEW w \in Evaluator, NEW failed \in BOOLEAN, FireAction(w, failed)
  PROVE  FiringInv'
<1>0. PICK run, c, q : /\ run = evaluator[w] /\ c = Current(w)
                       /\ q = Timed([run EXCEPT !.left = LeftAfter(w, failed)])
  OBVIOUS
<1>1. PICK r, old : r = run.rule /\ old = firings[r][c]
  OBVIOUS
<1> DEFINE p == [run EXCEPT !.left = Tail(run.left)]
           f == [old EXCEPT !.attempted = Append(old.attempted, Head(run.left))]
<1>2. /\ UNCHANGED <<alertTime, rules, alertCall, overlapped>> /\ run.step = "fire"
      /\ evaluator' = [evaluator EXCEPT ![w] = q] /\ q = Timed(p)
      /\ firings' = [firings EXCEPT ![r][c] = f]
  BY <1>0, <1>1 DEF FireAction, LeftAfter
<1>3. /\ DOMAIN run = RunFields /\ Read(run) /\ r \in AlertRule /\ run.left \in Seq(AlertAction)
      /\ c \in 1..Len(firings[r]) /\ IsCurrent(w, run, c) /\ run.left # <<>>
  BY <1>0, <1>1, <1>2, CurrentIs
<1>4. /\ firings \in [AlertRule -> Seq(Firing)] /\ alertTime \in Nat /\ old \in Firing
      /\ DOMAIN evaluator = Evaluator
  BY <1>1, <1>3 DEF FiringInv, FiringTyped
<1>5. /\ old.by = w /\ ~old.recorded /\ old.at = Never
      /\ old.attempted \o run.left = old.actions
      /\ \A j \in 1..Len(firings[r]) : firings[r][j].by = w => j <= c
  BY <1>1, <1>3 DEF IsCurrent
<1>6. old.attempted \in Seq(AlertAction)
  BY <1>4 DEF Firing
<1>7. /\ Head(run.left) \in AlertAction /\ Tail(run.left) \in Seq(AlertAction)
      /\ Append(old.attempted, Head(run.left)) \in Seq(AlertAction)
      /\ Append(old.attempted, Head(run.left)) \o Tail(run.left) = old.actions
  <2>1. PICK a, b : a = old.attempted /\ b = run.left
    OBVIOUS
  <2>2. a \in Seq(AlertAction) /\ b \in Seq(AlertAction) /\ b # <<>> /\ a \o b = old.actions
    BY <1>3, <1>5, <1>6, <2>1
  <2>3. /\ Head(b) \in AlertAction /\ Tail(b) \in Seq(AlertAction)
        /\ Append(a, Head(b)) \in Seq(AlertAction) /\ Append(a, Head(b)) \o Tail(b) = a \o b
    BY ONLY <2>2, HeadMoves
  <2> QED BY <2>1, <2>2, <2>3
<1>8. /\ f \in Firing /\ f.by = w /\ ~f.recorded /\ f.at = Never /\ f.start = old.start
      /\ f.frequency = old.frequency /\ f.actions = old.actions
      /\ f.attempted = Append(old.attempted, Head(run.left))
  BY <1>4, <1>5, <1>7 DEF Firing
<1>9. /\ DOMAIN p = RunFields /\ p.step = "fire" /\ p.queue = run.queue /\ p.rule = r
      /\ p.left = Tail(run.left) /\ p.now = run.now /\ p.loaded = run.loaded /\ p.known = run.known
  BY <1>1, <1>2, <1>3 DEF RunFields
<1> HIDE DEF f, p
<1>10. LogWith(r, c, f) /\ OthersGoOn(w)
  <2>1. Rewritten(w, r, c, f)
    BY <1>1, <1>2, <1>3, <1>5, <1>8 DEF Rewritten
  <2> QED BY <1>3, <2>1, OwnFiring
<1>11. Run(w, q)'
  <2>1. Read(p)'
    BY <1>3, <1>9, <1>10, FewerRules DEF OthersGoOn
  <2>2. c \in 1..Len(firings'[p.rule]) /\ firings'[p.rule][c] = f
    BY <1>3, <1>9, <1>10 DEF LogWith
  <2>3. \A j \in 1..Len(firings'[p.rule]) : firings'[p.rule][j].by = w => j <= c
    <3>1. SUFFICES ASSUME NEW j \in 1..Len(firings[r]), firings'[r][j].by = w, j # c PROVE j <= c
      BY <1>3, <1>9, <1>10 DEF LogWith
    <3>2. firings[r][j].by = w
      BY <1>10, <3>1 DEF LogWith
    <3> QED BY <1>5, <3>2
  <2>4. f.attempted \o p.left = f.actions
    BY <1>7, <1>8, <1>9
  <2>5. IsCurrent(w, p, c)'
    BY <1>8, <2>2, <2>3, <2>4 DEF IsCurrent
  <2>6. firings'[p.rule][c].start <= alertTime
    BY <1>1, <1>3, <1>8, <2>2 DEF FiringInv, FiringsEnd
  <2> QED BY <1>2, <1>3, <1>4, <1>7, <1>9, <2>1, <2>2, <2>5, <2>6, TimedRun
<1>12. DOMAIN evaluator' = Evaluator /\ \A v \in Evaluator : \A x \in {evaluator'[v]} : Run(v, x)'
  BY <1>2, <1>10, <1>11, RunsGoOn DEF OthersGoOn
<1>13. FiringTyped'
  BY <1>2, <1>10, <1>12 DEF LogWith, FiringInv, FiringTyped
<1>14. RowsRemember'
  <2>1. r \notin overlapped => ~firings'[r][Len(firings'[r])].recorded
    BY <1>8, <1>10 DEF LogWith
  <2> QED BY <1>2, <1>10, <2>1 DEF LogWith, FiringInv, RowsRemember
<1> QED BY <1>10, <1>12, <1>13, <1>14 DEF LogWith, FiringInv

LEMMA RecordInv ==
  ASSUME FiringInv, NEW w \in Evaluator, NEW failed \in BOOLEAN, RecordFired(w, failed)
  PROVE  FiringInv'
<1>0. PICK run, c : run = evaluator[w] /\ c = Current(w)
  OBVIOUS
<1>1. PICK r, old : r = run.rule /\ old = firings[r][c]
  OBVIOUS
<1> DEFINE p == [run EXCEPT !.step = "rules", !.rule = 0, !.firedAt = Never]
           f == [old EXCEPT !.recorded = ~failed, !.at = run.firedAt]
<1>2. /\ UNCHANGED <<alertTime, alertCall, overlapped>> /\ run.step = "record"
      /\ evaluator' = [evaluator EXCEPT ![w] = Resume(p)]
      /\ firings' = [firings EXCEPT ![r][c] = f]
      /\ rules' = IF failed \/ rules[r] = NoRule THEN rules
                  ELSE [rules EXCEPT ![r] = [rules[r] EXCEPT !.lastFired = run.firedAt]]
  BY <1>0, <1>1 DEF RecordFired
<1>3. /\ DOMAIN run = RunFields /\ Read(run) /\ r \in AlertRule /\ run.left = <<>>
      /\ c \in 1..Len(firings[r]) /\ IsCurrent(w, run, c)
      /\ run.firedAt \in Nat /\ old.start <= run.firedAt /\ run.firedAt <= alertTime
  BY <1>0, <1>1, <1>2, CurrentIs
<1>4. /\ firings \in [AlertRule -> Seq(Firing)] /\ alertTime \in Nat /\ old \in Firing
      /\ DOMAIN evaluator = Evaluator /\ rules \in [AlertRule -> RuleRow \cup {NoRule}]
  BY <1>1, <1>3 DEF FiringInv, FiringTyped
<1>5. old.by = w /\ ~old.recorded /\ old.attempted \o <<>> = old.actions
  BY <1>1, <1>3 DEF IsCurrent
<1>6. old.attempted = old.actions
  <2>1. old.attempted \in Seq(AlertAction)
    BY <1>4 DEF Firing
  <2> QED BY <1>5, <2>1
<1>7. /\ f \in Firing /\ f.by = w /\ (f.recorded <=> ~failed) /\ f.at = run.firedAt
      /\ f.start = old.start /\ f.frequency = old.frequency /\ f.attempted = f.actions
  BY <1>3, <1>4, <1>5, <1>6 DEF Firing
<1>8. /\ DOMAIN p = RunFields /\ p.step = "rules" /\ p.queue = run.queue
      /\ p.now = run.now /\ p.loaded = run.loaded /\ p.known = run.known
  BY <1>2, <1>3 DEF RunFields
<1> HIDE DEF f, p
<1>9. f.at # Never
  BY <1>3, <1>7 DEF Never
<1>10. LogWith(r, c, f) /\ OthersGoOn(w)
  <2>1. Rewritten(w, r, c, f)
    BY <1>1, <1>2, <1>3, <1>5, <1>7, <1>9 DEF Rewritten
  <2> QED BY <1>3, <2>1, OwnFiring
<1>11. PICK q : q = Resume(p)
  OBVIOUS
<1>12. Run(w, q)'
  <2>1. Read(p)'
    BY <1>3, <1>8, <1>10, FewerRules DEF OthersGoOn
  <2>2. DOMAIN Finished(p) = RunFields /\ Finished(p).step = "idle"
    BY FinishedIs
  <2>3. q = Finished(p) \/ q = p
    BY <1>11 DEF Resume
  <2> QED BY <1>8, <2>1, <2>2, <2>3 DEF Run
<1>13. DOMAIN evaluator' = Evaluator /\ \A v \in Evaluator : \A x \in {evaluator'[v]} : Run(v, x)'
  BY <1>2, <1>10, <1>11, <1>12, RunsGoOn DEF OthersGoOn
<1>14. /\ rules' \in [AlertRule -> RuleRow \cup {NoRule}]
       /\ \A s \in AlertRule \ {r} : rules'[s] = rules[s]
       /\ ~failed /\ rules[r] # NoRule => rules'[r].lastFired = run.firedAt
       /\ rules[r] = NoRule => rules'[r] = NoRule
  <2>1. CASE failed \/ rules[r] = NoRule
    BY <1>2, <1>4, <2>1
  <2>2. CASE ~(failed \/ rules[r] = NoRule)
    <3>1. rules' = [rules EXCEPT ![r] = [rules[r] EXCEPT !.lastFired = run.firedAt]]
      BY <1>2, <2>2
    <3>2. rules[r] \in RuleRow
      BY <1>3, <1>4, <2>2
    <3>3. /\ [rules[r] EXCEPT !.lastFired = run.firedAt] \in RuleRow
          /\ [rules[r] EXCEPT !.lastFired = run.firedAt].lastFired = run.firedAt
      BY <1>3, <3>2 DEF RuleRow
    <3> QED BY <1>3, <1>4, <2>2, <3>1, <3>3
  <2> QED BY <2>1, <2>2
<1>15. FiringTyped'
  BY <1>2, <1>4, <1>10, <1>13, <1>14 DEF LogWith, FiringInv, FiringTyped
<1>16. RowsRemember'
  <2>1. r \notin overlapped => firings'[r][Len(firings'[r])] = f
    BY <1>10 DEF LogWith
  <2>2. ASSUME NEW s \in AlertRule \ overlapped, rules'[s] # NoRule, firings'[s] # <<>>,
               firings'[s][Len(firings'[s])].recorded
        PROVE  rules'[s].lastFired = firings'[s][Len(firings'[s])].at
    <3>1. CASE s = r
      BY <1>7, <1>14, <2>1, <2>2, <3>1
    <3>2. CASE s # r
      BY <1>10, <1>14, <2>2, <3>2 DEF LogWith, FiringInv, RowsRemember
    <3> QED BY <3>1, <3>2
  <2> QED BY <1>2, <2>2 DEF RowsRemember
<1> QED BY <1>10, <1>13, <1>15, <1>16 DEF LogWith, FiringInv

-----------------------------------------------------------------------------
LEMMA FiringInit ==
  ASSUME AlertInit
  PROVE  FiringInv
<1>1. /\ alertTime = 0 /\ rules = FirstRules
      /\ evaluator = [w \in Evaluator |-> NoEvaluation]
      /\ alertCall = [c \in AlertCall |-> [step |-> "idle", row |-> NoRule]]
      /\ firings = [r \in AlertRule |-> <<>>]
  BY DEF AlertInit
<1>2. \A r \in AlertRule : Len(firings[r]) = 0
  BY <1>1
<1>3. FiringTyped
  <2>1. FirstRules \in [AlertRule -> RuleRow \cup {NoRule}]
    BY AlertAssumption DEF AlertAssumption
  <2>2. firings \in [AlertRule -> Seq(Firing)]
    BY <1>1
  <2>3. \A c \in AlertCall : DOMAIN alertCall[c] = {"step", "row"} /\ alertCall[c].step # "merged"
    BY <1>1
  <2> QED BY <1>1, <2>1, <2>2, <2>3 DEF FiringTyped
<1>4. FiringsEnd /\ Spaced
  BY <1>2 DEF FiringsEnd, Spaced
<1>5. RowsRemember
  BY <1>1 DEF RowsRemember
<1>6. ASSUME NEW w \in Evaluator, NEW q \in {evaluator[w]} PROVE Run(w, q)
  <2>1. DOMAIN q = RunFields /\ q.step = "idle"
    BY <1>1 DEF NoEvaluation, RunFields
  <2> QED BY <2>1 DEF Run
<1> QED BY <1>3, <1>4, <1>5, <1>6 DEF FiringInv

LEMMA FiringStepInv ==
  ASSUME FiringInv, [AlertNext]_alertVars
  PROVE  FiringInv'
<1>1. ASSUME NEW w \in Evaluator, LoadRules(w) PROVE FiringInv'
  BY <1>1, LoadInv
<1>2. ASSUME NEW w \in Evaluator, NEW r \in AlertRule, SkipRule(w, r) \/ SkipUnread(w, r)
      PROVE  FiringInv'
  BY <1>2, SkipInv
<1>3. ASSUME NEW w \in Evaluator, NEW r \in AlertRule, StartFiring(w, r) PROVE FiringInv'
  BY <1>3, StartInv
<1>4. ASSUME NEW w \in Evaluator, NEW failed \in BOOLEAN, FireAction(w, failed) PROVE FiringInv'
  BY <1>4, FireInv
<1>5. ASSUME NEW w \in Evaluator, NEW failed \in BOOLEAN, RecordFired(w, failed) PROVE FiringInv'
  BY <1>5, RecordInv
<1>6. ASSUME NEW c \in AlertCall, CreateAlert(c) PROVE FiringInv'
  BY <1>6, CreateInv
<1>7. ASSUME NEW c \in AlertCall, ReadRule(c) PROVE FiringInv'
  BY <1>7, ReadRuleInv
<1>8. ASSUME NEW c \in AlertCall, WriteRule(c) PROVE FiringInv'
  BY <1>8, WriteRuleInv
<1>9. ASSUME NEW c \in AlertCall, DeleteAlert(c) PROVE FiringInv'
  BY <1>9, DeleteInv
<1>10. CASE AlertTick
  BY <1>10, AlertTickInv
<1>11. CASE UNCHANGED alertVars
  <2>1. /\ UNCHANGED <<alertTime, rules, evaluator, alertCall, firedVars>>
    BY <1>11 DEF alertVars, firedVars
  <2>2. alertTime' \in Nat /\ alertTime' >= alertTime
    BY <2>1 DEF FiringInv, FiringTyped
  <2>3. FiringsEnd' /\ Spaced' /\ \A v \in Evaluator : \A x \in {evaluator'[v]} : Run(v, x)'
    BY <2>1, <2>2, QuietLog, QuietRuns
  <2>4. FiringTyped' /\ RowsRemember'
    BY <2>1 DEF firedVars, FiringInv, FiringTyped, RowsRemember
  <2> QED BY <2>3, <2>4 DEF FiringInv
<1>12. ASSUME NEW w \in Evaluator, NEW e \in AlertEvent, NEW normalized \in 0..alertTime,
              CountEvent(w, e, normalized)
       PROVE  FiringInv'
  BY <1>12, CountInv
<1>13. ASSUME NEW w \in Evaluator, LoseEvaluation(w) PROVE FiringInv'
  BY <1>13, LoseInv
<1>14. CASE PruneBuckets
  <2>1. /\ UNCHANGED <<alertTime, rules, evaluator, alertCall, firedVars>>
    BY <1>14 DEF PruneBuckets
  <2>2. alertTime' \in Nat /\ alertTime' >= alertTime
    BY <2>1 DEF FiringInv, FiringTyped
  <2>3. FiringsEnd' /\ Spaced' /\ \A v \in Evaluator : \A x \in {evaluator'[v]} : Run(v, x)'
    BY <2>1, <2>2, QuietLog, QuietRuns
  <2>4. FiringTyped' /\ RowsRemember'
    BY <2>1 DEF firedVars, FiringInv, FiringTyped, RowsRemember
  <2> QED BY <2>3, <2>4 DEF FiringInv
<1> QED BY <1>1, <1>2, <1>3, <1>4, <1>5, <1>6, <1>7, <1>8, <1>9, <1>10, <1>11, <1>12, <1>13, <1>14
        DEF AlertNext

\* The log of a rule that no two workers fired at once is a sequence of
\* complete firings, each begun when the row carried the time of the one before.
THEOREM FiringInvariant == AlertSpec => []FiringInv
  BY FiringInit, FiringStepInv, PTL DEF AlertSpec

\* Two firings of a rule are a cooldown apart, whatever was edited meanwhile and
\* whatever its actions did, and a firing that ended tried every action.
THEOREM FiringsAreSound == AlertSpec => []FiringsSound
<1>1. FiringInv => FiringsSound
  <2>1. SUFFICES ASSUME FiringInv PROVE CooldownSpacesFirings /\ FiredInFull
    BY DEF FiringsSound
  <2>2. \A r \in AlertRule : DOMAIN firings[r] = 1..Len(firings[r]) /\ Len(firings[r]) \in Nat
    BY <2>1 DEF FiringInv, FiringTyped
  <2>3. ASSUME NEW r \in AlertRule \ overlapped, NEW i \in DOMAIN firings[r],
               NEW j \in DOMAIN firings[r], i < j
        PROVE  firings[r][j].start - firings[r][i].at >= firings[r][j].frequency
    <3>1. j \in 1..Len(firings[r]) /\ i \in 1..(j - 1)
      BY <2>2, <2>3
    <3> QED BY <2>1, <3>1 DEF FiringInv, Spaced
  <2>4. CooldownSpacesFirings
    BY <2>3 DEF CooldownSpacesFirings
  <2>5. FiredInFull
    BY <2>1, <2>2 DEF FiringInv, FiringsEnd, FiredInFull
  <2> QED BY <2>4, <2>5
<1> QED BY <1>1, FiringInvariant, PTL
-----------------------------------------------------------------------------
\* AlertRules: the inductive invariant of alerts that are not missed.

\* The row of a rule that nobody edits: only last_fired may differ, and it is
\* the time of a firing that was recorded.
AsFirst(row, r) ==
  /\ row \in RuleRow /\ row.enabled
  /\ row.frequency = FirstRules[r].frequency /\ row.conditions = FirstRules[r].conditions
  /\ row.lastFired \notin {Never, FirstRules[r].lastFired} =>
       \E n \in 1..Len(firings[r]) : firings[r][n].recorded /\ firings[r][n].at = row.lastFired

RowsAsFirst ==
  \A r \in AlertRule : \A row \in {rules[r]} : Untouched(r) => AsFirst(row, r)

\* A worker that judges an event read the rules after the event was counted.
Reading(q) ==
  /\ q.step = "idle" => q.index = 0
  /\ q.step # "idle" => q.index \in 1..Len(counted)
  /\ q.step \in {"rules", "fire", "record"} =>
       /\ counted[q.index].at <= q.now
       /\ \A r \in q.queue : Untouched(r) => AsFirst(q.loaded[r], r)

\* A rule that has judged an event fired, or had no reason to.
Resolved(r, i) ==
  \/ \E cond \in FirstRules[r].conditions : ~StillHolds(cond, i)
  \/ Answered(r, counted[i].at)

Answers ==
  \A r \in AlertRule : \A i \in 1..Len(counted) : Untouched(r) /\ Judged(r, i) => Resolved(r, i)

AnswerInv ==
  /\ RowsAsFirst /\ Answers
  /\ \A w \in Evaluator : \A q \in {evaluator[w]} : Reading(q)

\* Firings are not taken back.
FiringsGo ==
  \A r \in AlertRule :
    /\ Len(firings[r]) <= Len(firings'[r])
    /\ \A n \in 1..Len(firings[r]) :
         /\ firings'[r][n].start = firings[r][n].start
         /\ firings[r][n].recorded => /\ firings'[r][n].recorded
                                      /\ firings'[r][n].at = firings[r][n].at

\* What every step keeps.
GoesOn ==
  /\ alertTime \in Nat /\ alertTime' \in Nat /\ alertTime <= alertTime'
  /\ firings \in [AlertRule -> Seq(Firing)] /\ firings' \in [AlertRule -> Seq(Firing)]
  /\ counted \in Seq(Counted) /\ counted' \in Seq(Counted)
  /\ CountsGo /\ FiringsGo
  /\ \A r \in AlertRule : Untouched(r)' => Untouched(r)

LEMMA FirstRulesAre ==
  ASSUME NEW r \in AlertRule, Untouched(r)
  PROVE  FirstRules[r] \in RuleRow /\ FirstRules[r].enabled
<1>1. FirstRules \in [AlertRule -> RuleRow \cup {NoRule}]
  BY AlertAssumption DEF AlertAssumption
<1> QED BY <1>1 DEF Untouched, NoRule

LEMMA RowStays ==
  ASSUME GoesOn, NEW r \in AlertRule, NEW row, AsFirst(row, r)
  PROVE  AsFirst(row, r)'
<1>1. ASSUME NEW n \in 1..Len(firings[r]), firings[r][n].recorded, firings[r][n].at = row.lastFired
      PROVE  \E m \in 1..Len(firings'[r]) : firings'[r][m].recorded /\ firings'[r][m].at = row.lastFired
  <2>1. Len(firings[r]) \in Nat /\ Len(firings'[r]) \in Nat
    BY DEF GoesOn
  <2>2. n \in 1..Len(firings'[r])
    BY <2>1 DEF GoesOn, FiringsGo
  <2> QED BY <1>1, <2>2 DEF GoesOn, FiringsGo
<1> QED BY <1>1 DEF AsFirst

LEMMA ConditionFails ==
  ASSUME GoesOn, NEW cond \in AlertCondition, NEW i \in 1..Len(counted), ~StillHolds(cond, i)
  PROVE  ~StillHolds(cond, i)'
<1>1. CASE cond.kind = "threshold"
  <2>1. cond.window \in Nat /\ cond.threshold \in Nat
    BY <1>1, ConstantsOfAlerts
  <2>2. InWindow(cond, i)' \subseteq InWindow(cond, i)
    <3>1. SUFFICES ASSUME NEW j \in 1..i, counted'[j].time >= alertTime' - cond.window
                   PROVE  counted[j].time >= alertTime - cond.window
      BY DEF InWindow
    <3>2. j \in 1..Len(counted) /\ Len(counted) \in Nat
      BY DEF GoesOn
    <3>3. counted[j] \in Counted /\ counted'[j].time = counted[j].time
      BY <3>2 DEF GoesOn, CountsGo
    <3>4. counted[j].time \in Int
      BY <3>3 DEF Counted
    <3> QED BY <2>1, <3>1, <3>3, <3>4 DEF GoesOn
  <2>3. IsFiniteSet(InWindow(cond, i))
    <3>1. i \in Nat /\ InWindow(cond, i) \subseteq 1..i
      BY DEF GoesOn, InWindow
    <3>2. IsFiniteSet(1..i)
      BY <3>1, FS_Interval
    <3> QED BY <3>1, <3>2, FS_Subset
  <2>4. /\ Cardinality(InWindow(cond, i)') <= Cardinality(InWindow(cond, i))
        /\ Cardinality(InWindow(cond, i)) \in Nat /\ Cardinality(InWindow(cond, i)') \in Nat
    BY <2>2, <2>3, FS_Subset, FS_CardinalityType
  <2> QED BY <1>1, <2>1, <2>4 DEF StillHolds
<1>2. CASE cond.kind # "threshold"
  <2>1. PICK e : e = counted[i].event
    OBVIOUS
  <2>2. counted'[i].event = e
    BY <2>1 DEF GoesOn, CountsGo
  <2>3. Matches(cond, e)' <=> Matches(cond, e)
    BY <1>2 DEF Matches, AttributeMatches, AttributeOf, ContainsText
  <2> QED BY <1>2, <2>1, <2>2, <2>3 DEF StillHolds
<1> QED BY <1>1, <1>2

LEMMA AnswerStays ==
  ASSUME GoesOn, NEW r \in AlertRule, NEW t, Answered(r, t)
  PROVE  Answered(r, t)'
<1>1. /\ DOMAIN firings[r] = 1..Len(firings[r]) /\ DOMAIN firings'[r] = 1..Len(firings'[r])
      /\ Len(firings[r]) \in Nat /\ Len(firings'[r]) \in Nat
  BY DEF GoesOn
<1>2. ASSUME NEW n \in DOMAIN firings[r],
             \/ firings[r][n].start >= t
             \/ firings[r][n].recorded /\ t - firings[r][n].at < FirstRules[r].frequency
      PROVE  Answered(r, t)'
  <2>1. n \in DOMAIN firings'[r]
    BY <1>1 DEF GoesOn, FiringsGo
  <2>2. /\ firings'[r][n].start = firings[r][n].start
        /\ firings[r][n].recorded => firings'[r][n].recorded /\ firings'[r][n].at = firings[r][n].at
    BY <1>1 DEF GoesOn, FiringsGo
  <2> QED BY <1>2, <2>1, <2>2 DEF Answered
<1> QED BY <1>2 DEF Answered

LEMMA ResolvedStays ==
  ASSUME GoesOn, NEW r \in AlertRule, Untouched(r), NEW i \in 1..Len(counted), Resolved(r, i)
  PROVE  Resolved(r, i)'
<1>1. counted'[i].at = counted[i].at
  BY DEF GoesOn, CountsGo
<1>2. FirstRules[r].conditions \subseteq AlertCondition
  BY FirstRulesAre DEF RuleRow
<1>3. CASE Answered(r, counted[i].at)
  <2>1. PICK t : t = counted[i].at
    OBVIOUS
  <2>2. Answered(r, t)'
    BY <1>3, <2>1, AnswerStays
  <2> QED BY <1>1, <2>1, <2>2 DEF Resolved
<1>4. ASSUME NEW cond \in FirstRules[r].conditions, ~StillHolds(cond, i) PROVE Resolved(r, i)'
  <2>1. ~StillHolds(cond, i)'
    BY <1>2, <1>4, ConditionFails
  <2> QED BY <2>1 DEF Resolved
<1> QED BY <1>3, <1>4 DEF Resolved

LEMMA ReadingStays ==
  ASSUME GoesOn, NEW q, Reading(q), q.queue \subseteq AlertRule
  PROVE  Reading(q)'
<1>1. Len(counted) \in Nat /\ Len(counted') \in Nat /\ Len(counted) <= Len(counted')
  BY DEF GoesOn, CountsGo
<1>2. q.step # "idle" => q.index \in 1..Len(counted')
  BY <1>1 DEF Reading
<1>3. q.step # "idle" => counted'[q.index].at = counted[q.index].at
  BY DEF Reading, GoesOn, CountsGo
<1>4. ASSUME q.step \in {"rules", "fire", "record"}, NEW r \in q.queue, Untouched(r)'
      PROVE  AsFirst(q.loaded[r], r)'
  <2>1. PICK row : row = q.loaded[r]
    OBVIOUS
  <2>2. AsFirst(row, r)
    BY <1>4, <2>1 DEF Reading, GoesOn
  <2>3. AsFirst(row, r)'
    BY <2>2, RowStays
  <2> QED BY <2>1, <2>3
<1> QED BY <1>2, <1>3, <1>4 DEF Reading

-----------------------------------------------------------------------------
\* Steps of a worker and steps of everyone else.

\* What a step of the worker w owes: its new record, the rows, and the rules
\* that have judged its event by this step.
WorkerStep(w, q) ==
  /\ evaluator' = [evaluator EXCEPT ![w] = q]
  /\ Reading(q)'
  /\ RowsAsFirst'
  /\ \A r \in AlertRule : \A i \in 1..Len(counted') : Untouched(r)' /\ Judged(r, i)' =>
       \/ i \in 1..Len(counted) /\ (evaluator[w].index = i =>
            evaluator[w].step # "load" /\ r \notin evaluator[w].queue)
       \/ Resolved(r, i)'

LEMMA QueueIs ==
  ASSUME FiringInv, NEW w \in Evaluator, evaluator[w].step \in {"rules", "fire", "record"}
  PROVE  /\ DOMAIN evaluator[w] = RunFields /\ evaluator[w].queue \subseteq AlertRule
         /\ evaluator[w].now \in Nat
  BY DEF FiringInv, Run, Read

\* The queue matters only once the rules were read.
LEMMA ReadingGoesOn ==
  ASSUME FiringInv, AnswerInv, GoesOn, NEW v \in Evaluator, NEW q, q = evaluator[v]
  PROVE  Reading(q)'
<1>1. Reading(q)
  BY DEF AnswerInv
<1>2. CASE q.step \in {"rules", "fire", "record"}
  BY <1>1, <1>2, QueueIs, ReadingStays
<1>3. CASE q.step \notin {"rules", "fire", "record"}
  <2>1. Len(counted) \in Nat /\ Len(counted') \in Nat /\ Len(counted) <= Len(counted')
    BY DEF GoesOn, CountsGo
  <2> QED BY <1>1, <1>3, <2>1 DEF Reading
<1> QED BY <1>2, <1>3

LEMMA WorkerAnswers ==
  ASSUME FiringInv, AnswerInv, GoesOn, NEW w \in Evaluator, NEW q, WorkerStep(w, q)
  PROVE  AnswerInv'
<1>1. DOMAIN evaluator = Evaluator /\ evaluator' = [evaluator EXCEPT ![w] = q]
  BY DEF FiringInv, FiringTyped, WorkerStep
<1>2. evaluator'[w] = q /\ \A v \in Evaluator \ {w} : evaluator'[v] = evaluator[v]
  BY <1>1
<1>3. ASSUME NEW v \in Evaluator, NEW x \in {evaluator'[v]} PROVE Reading(x)'
  BY <1>2, ReadingGoesOn DEF WorkerStep
<1>4. RowsAsFirst'
  BY DEF WorkerStep
<1>5. ASSUME NEW r \in AlertRule, NEW i \in 1..Len(counted'), Untouched(r)', Judged(r, i)'
      PROVE  Resolved(r, i)'
  <2>1. SUFFICES ASSUME i \in 1..Len(counted),
                        evaluator[w].index = i => evaluator[w].step # "load" /\ r \notin evaluator[w].queue
                 PROVE  Resolved(r, i)'
    BY <1>5 DEF WorkerStep
  <2>2. ~counted[i].lost
    BY <1>5, <2>1 DEF Judged, GoesOn, CountsGo
  <2>3. \A v \in Evaluator : evaluator[v].index = i =>
          evaluator[v].step # "load" /\ r \notin evaluator[v].queue
    BY <1>2, <1>5, <2>1 DEF Judged
  <2>4. Judged(r, i) /\ Untouched(r)
    BY <1>5, <2>2, <2>3 DEF Judged, GoesOn
  <2>5. Resolved(r, i)
    BY <2>1, <2>4 DEF AnswerInv, Answers
  <2> QED BY <2>1, <2>4, <2>5, ResolvedStays
<1>6. Answers'
  BY <1>5 DEF Answers
<1> QED BY <1>3, <1>4, <1>6 DEF AnswerInv

LEMMA OthersAnswer ==
  ASSUME FiringInv, AnswerInv, GoesOn, UNCHANGED evaluator, UNCHANGED counted, RowsAsFirst'
  PROVE  AnswerInv'
<1>1. ASSUME NEW v \in Evaluator, NEW x \in {evaluator'[v]} PROVE Reading(x)'
  BY ReadingGoesOn
<1>2. ASSUME NEW r \in AlertRule, NEW i \in 1..Len(counted'), Untouched(r)', Judged(r, i)'
      PROVE  Resolved(r, i)'
  <2>1. Judged(r, i) /\ Untouched(r)
    BY <1>2 DEF Judged, GoesOn
  <2>2. Resolved(r, i)
    BY <2>1 DEF AnswerInv, Answers
  <2> QED BY <2>1, <2>2, ResolvedStays
<1> QED BY <1>1, <1>2 DEF AnswerInv, Answers

\* Rows stay as they are.
LEMMA SameRows ==
  ASSUME AnswerInv, GoesOn, UNCHANGED rules
  PROVE  RowsAsFirst'
<1>1. SUFFICES ASSUME NEW r \in AlertRule, NEW row \in {rules'[r]}, Untouched(r)'
               PROVE  AsFirst(row, r)'
  BY DEF RowsAsFirst
<1>2. AsFirst(row, r)
  BY <1>1 DEF AnswerInv, RowsAsFirst, GoesOn
<1> QED BY <1>2, RowStays

\* The facts of the other invariants, before and after a step.
LEMMA StepTypes ==
  ASSUME BucketInv, FiringInv, BucketInv', FiringInv'
  PROVE  /\ alertTime \in Nat /\ alertTime' \in Nat
         /\ firings \in [AlertRule -> Seq(Firing)] /\ firings' \in [AlertRule -> Seq(Firing)]
         /\ counted \in Seq(Counted) /\ counted' \in Seq(Counted)
         /\ DOMAIN alertCall = AlertCall /\ DOMAIN evaluator = Evaluator
  BY DEF BucketInv, BucketsTyped, FiringInv, FiringTyped

LEMMA UnchangedGoes ==
  ASSUME BucketInv, FiringInv, BucketInv', FiringInv', UNCHANGED alertTime
  PROVE  /\ UNCHANGED counted => CountsGo
         /\ UNCHANGED firings => FiringsGo
         /\ UNCHANGED alertCall => \A r \in AlertRule : Untouched(r)' => Untouched(r)
         /\ CountsGo /\ FiringsGo /\ UNCHANGED alertCall => GoesOn
<1>1. UNCHANGED counted => CountsGo
  BY StepTypes DEF CountsGo
<1>2. UNCHANGED firings => FiringsGo
  BY StepTypes DEF FiringsGo
<1>3. UNCHANGED alertCall => \A r \in AlertRule : Untouched(r)' => Untouched(r)
  BY DEF Untouched
<1> QED BY <1>1, <1>2, <1>3, StepTypes DEF GoesOn

-----------------------------------------------------------------------------
\* Requests leave rules without one alone.

LEMMA RequestAnswers ==
  ASSUME BucketInv, FiringInv, AnswerInv, BucketInv', FiringInv',
         UNCHANGED <<alertTime, counted, evaluator, firings>>, NEW c \in AlertCall, NEW q,
         alertCall' = [alertCall EXCEPT ![c] = q], q.step # "idle",
         \A s \in AlertRule : s # AlertInput[c].rule => rules'[s] = rules[s]
  PROVE  AnswerInv'
<1>1. alertCall'[c] = q /\ \A d \in AlertCall \ {c} : alertCall'[d] = alertCall[d]
  BY StepTypes
<1>2. ASSUME NEW s \in AlertRule, Untouched(s)' PROVE Untouched(s) /\ s # AlertInput[c].rule
  BY <1>1, <1>2 DEF Untouched
<1>3. GoesOn
  BY <1>2, StepTypes, UnchangedGoes DEF GoesOn
<1>4. RowsAsFirst'
  <2>1. SUFFICES ASSUME NEW s \in AlertRule, NEW row \in {rules'[s]}, Untouched(s)'
                 PROVE  AsFirst(row, s)'
    BY DEF RowsAsFirst
  <2>2. row = rules[s] /\ Untouched(s)
    BY <1>2, <2>1
  <2>3. AsFirst(row, s)
    BY <2>2 DEF AnswerInv, RowsAsFirst
  <2> QED BY <1>3, <2>3, RowStays
<1> QED BY <1>3, <1>4, OthersAnswer

LEMMA RequestsAnswer ==
  ASSUME BucketInv, FiringInv, AnswerInv, BucketInv', FiringInv', NEW c \in AlertCall,
         CreateAlert(c) \/ ReadRule(c) \/ WriteRule(c) \/ DeleteAlert(c)
  PROVE  AnswerInv'
<1>1. /\ UNCHANGED <<alertTime, counted, evaluator, firings>>
      /\ rules \in [AlertRule -> RuleRow \cup {NoRule}]
      /\ DOMAIN alertCall[c] = {"step", "row"}
  BY DEF CreateAlert, ReadRule, WriteRule, DeleteAlert, countVars, firedVars, FiringInv, FiringTyped
<1>2. PICK r : r = AlertInput[c].rule
  OBVIOUS
<1>3. \A s \in AlertRule : s # r => rules'[s] = rules[s]
  <2>1. \E x : rules' = [rules EXCEPT ![r] = x] \/ rules' = rules
    BY <1>2 DEF CreateAlert, ReadRule, WriteRule, DeleteAlert
  <2> QED BY <1>1, <2>1
<1>4. PICK q : alertCall' = [alertCall EXCEPT ![c] = q] /\ q.step # "idle"
  <2>1. CASE CreateAlert(c) \/ DeleteAlert(c)
    <3>1. PICK x : x = [alertCall[c] EXCEPT !.step = "done"]
      OBVIOUS
    <3>2. alertCall' = [alertCall EXCEPT ![c] = x]
      BY <2>1, <3>1 DEF CreateAlert, DeleteAlert
    <3>3. x.step = "done"
      BY <1>1, <3>1
    <3> QED BY <3>2, <3>3
  <2>2. CASE ReadRule(c)
    <3>1. PICK x : x = IF rules[r] = NoRule THEN [step |-> "done", row |-> NoRule]
                       ELSE [step |-> "merged", row |-> MergeRule(rules[r], AlertInput[c].fields)]
      OBVIOUS
    <3>2. alertCall' = [alertCall EXCEPT ![c] = x]
      BY <1>2, <2>2, <3>1 DEF ReadRule
    <3>3. x.step = "done" \/ x.step = "merged"
      BY <3>1
    <3> QED BY <3>2, <3>3
  <2>3. CASE WriteRule(c)
    <3>1. PICK x : x = [step |-> "done", row |-> NoRule]
      OBVIOUS
    <3>2. alertCall' = [alertCall EXCEPT ![c] = x]
      BY <2>3, <3>1 DEF WriteRule
    <3>3. x.step = "done"
      BY <3>1
    <3> QED BY <3>2, <3>3
  <2> QED BY <2>1, <2>2, <2>3
<1> QED BY <1>1, <1>2, <1>3, <1>4, RequestAnswers

\* The clock and the retention.
LEMMA QuietAnswers ==
  ASSUME BucketInv, FiringInv, AnswerInv, BucketInv', FiringInv', alertTime <= alertTime',
         UNCHANGED <<counted, evaluator, firings, alertCall, rules>>
  PROVE  AnswerInv'
<1>1. GoesOn
  <2>1. CountsGo /\ FiringsGo
    BY StepTypes DEF CountsGo, FiringsGo
  <2>2. \A r \in AlertRule : Untouched(r)' => Untouched(r)
    BY DEF Untouched
  <2> QED BY <2>1, <2>2, StepTypes DEF GoesOn
<1>2. RowsAsFirst'
  BY <1>1, SameRows
<1> QED BY <1>1, <1>2, OthersAnswer

-----------------------------------------------------------------------------
\* Steps of a worker.

LEMMA JudgedNow ==
  ASSUME FiringInv, NEW w \in Evaluator, NEW q, evaluator' = [evaluator EXCEPT ![w] = q],
         NEW r, NEW i, Judged(r, i)'
  PROVE  ~counted'[i].lost /\ (q.index = i => q.step # "load" /\ r \notin q.queue)
<1>1. evaluator'[w] = q
  BY DEF FiringInv, FiringTyped
<1> QED BY <1>1 DEF Judged

LEMMA SameReading ==
  ASSUME GoesOn, NEW p, NEW q, Reading(p), p.step \in {"rules", "fire", "record"},
         p.queue \subseteq AlertRule,
         q.step \in {"rules", "fire", "record"}, q.index = p.index, q.now = p.now,
         q.queue \subseteq p.queue, q.loaded = p.loaded
  PROVE  Reading(q)'
<1>1. Reading(p)'
  BY ReadingStays
<1>2. PICK loaded : loaded = p.loaded
  OBVIOUS
<1>3. ASSUME NEW r \in q.queue, Untouched(r)' PROVE AsFirst(q.loaded[r], r)'
  <2>1. AsFirst(p.loaded[r], r)'
    BY <1>1, <1>3 DEF Reading
  <2> QED BY <2>1
<1> QED BY <1>1, <1>3 DEF Reading

LEMMA FinishedReads ==
  ASSUME NEW run, NEW q, q = Finished(run)
  PROVE  Reading(q)'
  BY FinishedIs DEF Reading

LEMMA CountAnswers ==
  ASSUME BucketInv, FiringInv, AnswerInv, BucketInv', FiringInv', NEW w \in Evaluator,
         NEW e \in AlertEvent, NEW normalized \in 0..alertTime, CountEvent(w, e, normalized)
  PROVE  AnswerInv'
<1>1. PICK q, n : q = [evaluator[w] EXCEPT !.step = "load", !.index = n] /\ n = Len(counted) + 1
  OBVIOUS
<1>2. /\ evaluator' = [evaluator EXCEPT ![w] = q] /\ evaluator[w].step = "idle"
      /\ UNCHANGED <<alertTime, rules, alertCall, firings>>
  BY <1>1 DEF CountEvent, firedVars
<1>3. PICK time : time = NormalizedTime(e, normalized)
  OBVIOUS
<1>4. CountsGo /\ Len(counted') = n /\ n \in Nat /\ n = Len(counted) + 1 /\ Len(counted) \in Nat
  BY <1>1, <1>3, StepTypes, CountIs
<1>5. GoesOn
  BY <1>2, <1>4, UnchangedGoes
<1>6. DOMAIN evaluator[w] = RunFields /\ evaluator[w].index = 0
  BY <1>2 DEF FiringInv, Run, AnswerInv, Reading
<1>7. q.step = "load" /\ q.index = n
  BY <1>1, <1>6 DEF RunFields
<1>8. Reading(q)'
  BY <1>4, <1>7 DEF Reading
<1>9. ASSUME NEW r \in AlertRule, NEW i \in 1..Len(counted'), Untouched(r)', Judged(r, i)'
      PROVE  i \in 1..Len(counted) /\ evaluator[w].index # i
  <2>1. i # n
    BY <1>2, <1>7, <1>9, JudgedNow
  <2> QED BY <1>4, <1>6, <2>1
<1>10. RowsAsFirst'
  BY <1>2, <1>5, SameRows
<1>11. WorkerStep(w, q)
  BY <1>2, <1>8, <1>9, <1>10 DEF WorkerStep
<1> QED BY <1>5, <1>11, WorkerAnswers

LEMMA LoadAnswers ==
  ASSUME BucketInv, FiringInv, AnswerInv, BucketInv', FiringInv', NEW w \in Evaluator, LoadRules(w)
  PROVE  AnswerInv'
<1> DEFINE enabled == {r \in AlertRule : rules[r].enabled}
           known == [r \in enabled |-> Cardinality({i \in DOMAIN firings[r] : firings[r][i].recorded})]
           loaded == [r \in enabled |-> rules[r]]
           begun == [evaluator[w] EXCEPT !.step = "rules", !.now = alertTime, !.queue = enabled,
                       !.loaded = loaded, !.known = known]
<1>1. PICK q : q = IF enabled = {} THEN Finished(evaluator[w]) ELSE begun
  OBVIOUS
<1>2. /\ evaluator' = [evaluator EXCEPT ![w] = q] /\ evaluator[w].step = "load"
      /\ UNCHANGED <<alertTime, rules, alertCall, firings, counted>>
  BY <1>1 DEF LoadRules, firedVars, countVars
<1>3. GoesOn
  BY <1>2, UnchangedGoes
<1>4. DOMAIN evaluator[w] = RunFields /\ Reading(evaluator[w])
  BY DEF FiringInv, Run, AnswerInv
<1>5. evaluator[w].index \in 1..Len(counted)
  BY <1>2, <1>4 DEF Reading
<1>6. /\ begun.step = "rules" /\ begun.now = alertTime /\ begun.queue = enabled
      /\ begun.loaded = loaded /\ begun.index = evaluator[w].index
  BY <1>4 DEF RunFields
<1>7. counted[evaluator[w].index].at <= alertTime
  BY <1>5 DEF BucketInv, BucketsTyped
<1>8. ASSUME NEW r \in AlertRule, Untouched(r)', NEW row, row = rules[r]
      PROVE  r \in enabled /\ loaded[r] = row /\ AsFirst(row, r)'
  <2>1. AsFirst(row, r)
    BY <1>3, <1>8 DEF AnswerInv, RowsAsFirst, GoesOn
  <2>2. r \in enabled /\ loaded[r] = row
    BY <1>8, <2>1 DEF AsFirst
  <2> QED BY <1>3, <2>1, <2>2, RowStays
<1> HIDE DEF enabled, loaded, known, begun
<1>9. Reading(q)'
  <2>1. CASE enabled = {}
    BY <1>1, <2>1, FinishedReads
  <2>2. CASE enabled # {}
    <3>1. q = begun
      BY <1>1, <2>2
    <3>2. ASSUME NEW r \in q.queue, Untouched(r)' PROVE AsFirst(q.loaded[r], r)'
      <4>1. r \in AlertRule
        BY <1>6, <3>1, <3>2 DEF enabled
      <4>2. PICK row : row = rules[r]
        OBVIOUS
      <4>3. loaded[r] = row /\ AsFirst(row, r)'
        BY <1>8, <3>2, <4>1, <4>2
      <4>4. q.loaded[r] = row
        BY <1>6, <3>1, <4>3
      <4> QED BY <4>3, <4>4
    <3> QED BY <1>2, <1>5, <1>6, <1>7, <3>1, <3>2 DEF Reading
  <2> QED BY <2>1, <2>2
<1>10. ASSUME NEW r \in AlertRule, NEW i \in 1..Len(counted'), Untouched(r)', Judged(r, i)'
       PROVE  i \in 1..Len(counted) /\ evaluator[w].index # i
  <2>1. r \in enabled
    BY <1>8, <1>10
  <2>2. q = begun
    BY <1>1, <2>1
  <2>3. r \in q.queue /\ q.index = evaluator[w].index
    BY <1>6, <2>1, <2>2
  <2>4. q.index = i => r \notin q.queue
    BY <1>2, <1>10, JudgedNow
  <2> QED BY <1>2, <1>10, <2>3, <2>4
<1>11. RowsAsFirst'
  BY <1>2, <1>3, SameRows
<1>12. WorkerStep(w, q)
  BY <1>2, <1>9, <1>10, <1>11 DEF WorkerStep
<1> QED BY <1>3, <1>12, WorkerAnswers

\* A worker that keeps its event and drops a rule from its queue, or ends.
LEMMA WithoutIs ==
  ASSUME FiringInv, AnswerInv, GoesOn, NEW w \in Evaluator, NEW r \in AlertRule, NEW q,
         evaluator[w].step = "rules", q = Without(evaluator[w], r)
  PROVE  /\ Reading(q)'
         /\ \A s \in AlertRule : s # r /\ s \in evaluator[w].queue =>
              q.index = evaluator[w].index /\ s \in q.queue
<1>1. PICK run, p : run = evaluator[w] /\ p = [run EXCEPT !.queue = run.queue \ {r}]
  OBVIOUS
<1>2. DOMAIN run = RunFields /\ Reading(run) /\ run.queue \subseteq AlertRule
  BY <1>1, QueueIs DEF AnswerInv
<1>3. /\ p.step = "rules" /\ p.index = run.index /\ p.now = run.now /\ p.loaded = run.loaded
      /\ p.queue = run.queue \ {r}
  BY <1>1, <1>2 DEF RunFields
<1>4. Reading(p)'
  BY <1>1, <1>2, <1>3, SameReading
<1>5. q = Resume(p)
  BY <1>1 DEF Without
<1>6. CASE p.queue = {}
  <2>1. q = Finished(p)
    BY <1>3, <1>5, <1>6 DEF Resume
  <2> QED BY <1>1, <1>3, <1>6, <2>1, FinishedReads
<1>7. CASE p.queue # {}
  <2>1. q = p
    BY <1>5, <1>7 DEF Resume
  <2> QED BY <1>1, <1>3, <1>4, <2>1
<1> QED BY <1>6, <1>7

\* A fault settles the event.
LEMMA LossAnswers ==
  ASSUME BucketInv, FiringInv, AnswerInv, BucketInv', FiringInv', NEW w \in Evaluator,
         Lose(evaluator[w].index), NEW q, evaluator' = [evaluator EXCEPT ![w] = q], Reading(q)',
         UNCHANGED <<alertTime, rules, alertCall, firings>>
  PROVE  AnswerInv'
<1>1. PICK n : n = evaluator[w].index
  OBVIOUS
<1>2. /\ Len(counted') = Len(counted) /\ CountsGo
      /\ \A j \in 1..Len(counted) : counted'[j].lost <=> counted[j].lost \/ j = n
  BY <1>1, StepTypes, LostIs
<1>3. GoesOn
  BY <1>2, UnchangedGoes
<1>4. ASSUME NEW r \in AlertRule, NEW i \in 1..Len(counted'), Judged(r, i)'
      PROVE  i \in 1..Len(counted) /\ evaluator[w].index # i
  BY <1>1, <1>2, <1>4 DEF Judged
<1>5. RowsAsFirst'
  BY <1>3, SameRows
<1>6. WorkerStep(w, q)
  BY <1>4, <1>5 DEF WorkerStep
<1> QED BY <1>3, <1>6, WorkerAnswers

LEMMA LoseAnswers ==
  ASSUME BucketInv, FiringInv, AnswerInv, BucketInv', FiringInv', NEW w \in Evaluator, LoseEvaluation(w)
  PROVE  AnswerInv'
<1>1. PICK q : q = Finished(evaluator[w])
  OBVIOUS
<1>2. /\ Lose(evaluator[w].index) /\ evaluator' = [evaluator EXCEPT ![w] = q]
      /\ UNCHANGED <<alertTime, rules, alertCall, firings>>
  BY <1>1 DEF LoseEvaluation, firedVars
<1> QED BY <1>1, <1>2, FinishedReads, LossAnswers

LEMMA SkipUnreadAnswers ==
  ASSUME BucketInv, FiringInv, AnswerInv, BucketInv', FiringInv', NEW w \in Evaluator,
         NEW r \in AlertRule, SkipUnread(w, r)
  PROVE  AnswerInv'
<1>1. PICK q : q = Without(evaluator[w], r)
  OBVIOUS
<1>2. /\ Lose(evaluator[w].index) /\ evaluator' = [evaluator EXCEPT ![w] = q]
      /\ UNCHANGED <<alertTime, rules, alertCall, firings>> /\ evaluator[w].step = "rules"
  BY <1>1 DEF SkipUnread, firedVars
<1>3. GoesOn
  <2>1. CountsGo
    BY <1>2, StepTypes, LostIs
  <2> QED BY <1>2, <2>1, UnchangedGoes
<1>4. Reading(q)'
  BY <1>1, <1>2, <1>3, WithoutIs
<1> QED BY <1>2, <1>4, LossAnswers

\* A rule that is not fired has not cooled down, or one of its conditions fails,
\* and then fails by what was counted up to the event.
LEMMA SkippedIsResolved ==
  ASSUME BucketInv, FiringInv, AnswerInv, NEW w \in Evaluator, NEW r \in evaluator[w].queue,
         evaluator[w].step = "rules", ~Fires(w, r), Untouched(r), NEW i, i = evaluator[w].index
  PROVE  Resolved(r, i)
<1>1. PICK run, row, first : run = evaluator[w] /\ row = run.loaded[r] /\ first = FirstRules[r]
  OBVIOUS
<1>2. /\ r \in AlertRule /\ run.now \in Nat /\ i \in 1..Len(counted) /\ counted[i].at <= run.now
      /\ AsFirst(row, r)
  BY <1>1, QueueIs DEF AnswerInv, Reading
<1>3. /\ row \in RuleRow /\ row.frequency = first.frequency /\ row.conditions = first.conditions
      /\ row.conditions \subseteq AlertCondition /\ row.frequency \in Int
      /\ row.lastFired \in Nat \cup {Never}
  BY <1>1, <1>2 DEF AsFirst, RuleRow
<1>4. PICK t : t = counted[i].at
  OBVIOUS
<1>5. t \in Nat /\ t <= run.now
  <2>1. counted[i] \in Counted
    BY <1>2 DEF BucketInv, BucketsTyped
  <2> QED BY <1>2, <1>4, <2>1 DEF Counted
<1>6. CASE Cooling(w, r)
  <2>1. row.lastFired # Never /\ run.now - row.lastFired < row.frequency
    BY <1>1, <1>6 DEF Cooling
  <2>2. t - row.lastFired < first.frequency
    BY <1>2, <1>3, <1>5, <2>1
  <2>3. CASE row.lastFired = first.lastFired
    BY <1>1, <1>4, <2>1, <2>2, <2>3 DEF Resolved, Answered
  <2>4. CASE row.lastFired # first.lastFired
    <3>1. PICK n \in 1..Len(firings[r]) : firings[r][n].recorded /\ firings[r][n].at = row.lastFired
      BY <1>1, <1>2, <2>1, <2>4 DEF AsFirst
    <3>2. n \in DOMAIN firings[r]
      BY <1>2, <3>1 DEF FiringInv, FiringTyped
    <3>3. Answered(r, t)
      BY <1>1, <2>2, <3>1, <3>2 DEF Answered
    <3> QED BY <1>4, <3>3 DEF Resolved
  <2> QED BY <2>3, <2>4
<1>7. CASE ~Cooling(w, r)
  <2>1. PICK cond \in row.conditions : ~Matches(cond, counted[i].event)
    BY <1>1, <1>7 DEF Fires
  <2>2. cond \in AlertCondition /\ cond \in FirstRules[r].conditions
    BY <1>1, <1>3
  <2>3. ~StillHolds(cond, i)
    <3>1. CASE cond.kind # "threshold"
      BY <2>1, <3>1 DEF StillHolds
    <3>2. CASE cond.kind = "threshold" /\ cond.window + AlertHour <= StatsRetention
      <4>1. cond.window \in Nat /\ cond.threshold \in Nat
        BY <2>2, <3>2, ConstantsOfAlerts
      <4>2. ~(CountSince(FirstBucket(cond.window)) >= cond.threshold)
        BY <2>1, <3>2 DEF Matches, ThresholdReached
      <4>3. /\ CountSince(FirstBucket(cond.window)) \in Nat
            /\ Cardinality(InWindow(cond, i)) <= CountSince(FirstBucket(cond.window))
            /\ IsFiniteSet(InWindow(cond, i))
        BY <1>2, <3>2, <4>1, SumCoversWindow
      <4>4. Cardinality(InWindow(cond, i)) \in Nat
        BY <4>3, FS_CardinalityType
      <4>5. ~(Cardinality(InWindow(cond, i)) >= cond.threshold)
        BY <4>1, <4>2, <4>3, <4>4
      <4> QED BY <3>2, <4>5 DEF StillHolds
    <3>3. CASE cond.kind = "threshold" /\ ~(cond.window + AlertHour <= StatsRetention)
      BY <3>3 DEF StillHolds
    <3> QED BY <3>1, <3>2, <3>3
  <2> QED BY <2>2, <2>3 DEF Resolved
<1> QED BY <1>6, <1>7

LEMMA SkipAnswers ==
  ASSUME BucketInv, FiringInv, AnswerInv, BucketInv', FiringInv', NEW w \in Evaluator,
         NEW r \in AlertRule, SkipRule(w, r)
  PROVE  AnswerInv'
<1>1. PICK q : q = Without(evaluator[w], r)
  OBVIOUS
<1>2. /\ evaluator' = [evaluator EXCEPT ![w] = q] /\ evaluator[w].step = "rules"
      /\ UNCHANGED <<alertTime, rules, alertCall, firings, counted>>
      /\ r \in evaluator[w].queue /\ ~Fires(w, r)
  BY <1>1 DEF SkipRule, NextRule, firedVars, countVars
<1>3. GoesOn
  BY <1>2, UnchangedGoes
<1>4. /\ Reading(q)'
      /\ \A s \in AlertRule : s # r /\ s \in evaluator[w].queue =>
           q.index = evaluator[w].index /\ s \in q.queue
  BY <1>1, <1>2, <1>3, WithoutIs
<1>5. ASSUME NEW s \in AlertRule, NEW i \in 1..Len(counted'), Untouched(s)', Judged(s, i)',
             evaluator[w].index = i, s \in evaluator[w].queue
      PROVE  Resolved(s, i)'
  <2>1. q.index = i => s \notin q.queue
    BY <1>2, <1>5, JudgedNow
  <2>2. s = r
    BY <1>4, <1>5, <2>1
  <2>3. Untouched(s) /\ i \in 1..Len(counted)
    BY <1>2, <1>3, <1>5 DEF GoesOn
  <2>4. Resolved(s, i)
    BY <1>2, <1>5, <2>2, <2>3, SkippedIsResolved
  <2> QED BY <1>3, <2>3, <2>4, ResolvedStays
<1>6. RowsAsFirst'
  BY <1>2, <1>3, SameRows
<1>7. WorkerStep(w, q)
  BY <1>2, <1>4, <1>5, <1>6 DEF WorkerStep
<1> QED BY <1>3, <1>7, WorkerAnswers

\* A worker in a firing keeps its event and its queue, but for the rule it fires.
TimedOf(p, q) ==
  /\ q.step \in {"fire", "record"} /\ q.index = p.index /\ q.now = p.now
  /\ q.queue = p.queue /\ q.loaded = p.loaded

LEMMA TimedIs ==
  ASSUME NEW p, DOMAIN p = RunFields, p.step = "fire"
  PROVE  TimedOf(p, Timed(p))
<1>1. CASE p.left = <<>>
  <2>1. Timed(p) = [p EXCEPT !.step = "record", !.firedAt = alertTime]
    BY <1>1 DEF Timed
  <2> QED BY <2>1 DEF TimedOf, RunFields
<1>2. CASE p.left # <<>>
  <2>1. Timed(p) = p
    BY <1>2 DEF Timed
  <2> QED BY <2>1 DEF TimedOf
<1> QED BY <1>1, <1>2

LEMMA StartAnswers ==
  ASSUME BucketInv, FiringInv, AnswerInv, BucketInv', FiringInv', NEW w \in Evaluator,
         NEW r \in AlertRule, StartFiring(w, r)
  PROVE  AnswerInv'
<1>1. PICK run, row : run = evaluator[w] /\ row = run.loaded[r]
  OBVIOUS
<1>2. PICK p, new : /\ p = [run EXCEPT !.queue = run.queue \ {r}, !.step = "fire", !.rule = r,
                                       !.left = row.actions]
                    /\ new = [start |-> run.now, frequency |-> row.frequency, by |-> w,
                              actions |-> row.actions, recorded |-> FALSE, at |-> Never,
                              attempted |-> <<>>]
  OBVIOUS
<1>3. PICK q : q = Timed(p)
  OBVIOUS
<1>4. /\ evaluator' = [evaluator EXCEPT ![w] = q] /\ run.step = "rules"
      /\ UNCHANGED <<alertTime, rules, alertCall, counted>> /\ r \in run.queue
      /\ firings' = [firings EXCEPT ![r] = Append(firings[r], new)]
  BY <1>1, <1>2, <1>3 DEF StartFiring, NextRule, countVars
<1>5. /\ DOMAIN run = RunFields /\ Reading(run) /\ run.queue \subseteq AlertRule /\ run.now \in Nat
  BY <1>1, <1>4, QueueIs DEF AnswerInv
<1>6. /\ p.step = "fire" /\ p.index = run.index /\ p.now = run.now /\ p.loaded = run.loaded
      /\ p.queue = run.queue \ {r} /\ DOMAIN p = RunFields
  BY <1>2, <1>5 DEF RunFields
<1>7. TimedOf(p, q)
  BY <1>3, <1>6, TimedIs
<1>8. /\ firings \in [AlertRule -> Seq(Firing)] /\ firings'[r] = Append(firings[r], new)
      /\ firings' \in [AlertRule -> Seq(Firing)]
      /\ \A s \in AlertRule \ {r} : firings'[s] = firings[s]
  BY <1>4, StepTypes
<1>9. PICK n : n = Len(firings[r])
  OBVIOUS
<1>10. /\ n \in Nat /\ Len(firings'[r]) = n + 1 /\ firings'[r][n + 1] = new
       /\ \A m \in 1..n : firings'[r][m] = firings[r][m]
  BY <1>8, <1>9
<1>11. FiringsGo
  <2>1. SUFFICES ASSUME NEW s \in AlertRule
                 PROVE  /\ Len(firings[s]) <= Len(firings'[s])
                        /\ \A m \in 1..Len(firings[s]) : firings'[s][m] = firings[s][m]
    BY DEF FiringsGo
  <2>2. CASE s = r
    BY <1>9, <1>10, <2>2
  <2>3. CASE s # r
    BY <1>8, <2>3
  <2> QED BY <2>2, <2>3
<1>12. GoesOn
  BY <1>4, <1>11, UnchangedGoes
<1>13. Reading(q)'
  BY <1>4, <1>5, <1>6, <1>7, <1>12, SameReading DEF TimedOf
<1>14. ASSUME NEW s \in AlertRule, NEW i \in 1..Len(counted'), Judged(s, i)',
              run.index = i, s \in run.queue
       PROVE  Resolved(s, i)'
  <2>1. s = r
    BY <1>1, <1>4, <1>6, <1>7, <1>14, JudgedNow DEF TimedOf
  <2>2. counted[i].at <= run.now
    BY <1>4, <1>5, <1>14 DEF Reading
  <2>3. PICK t : t = counted[i].at
    OBVIOUS
  <2>4. t \in Nat
    <3>1. counted[i] \in Counted
      BY <1>4, <1>14, StepTypes
    <3> QED BY <2>3, <3>1 DEF Counted
  <2>5. new.start = run.now
    BY <1>2
  <2>6. n + 1 \in DOMAIN firings'[r]
    BY <1>8, <1>10
  <2>7. firings'[r][n + 1].start >= t
    BY <1>5, <1>10, <2>2, <2>3, <2>4, <2>5
  <2>8. Answered(r, t)'
    BY <2>6, <2>7 DEF Answered
  <2> QED BY <1>4, <2>1, <2>3, <2>8 DEF Resolved
<1>15. RowsAsFirst'
  BY <1>4, <1>12, SameRows
<1>16. WorkerStep(w, q)
  BY <1>1, <1>4, <1>13, <1>14, <1>15 DEF WorkerStep
<1> QED BY <1>12, <1>16, WorkerAnswers

\* Writing a firing that was not recorded takes nothing back.
Rewrites(r, c, f) ==
  /\ firings' = [firings EXCEPT ![r][c] = f]
  /\ f.start = firings[r][c].start

LEMMA RewrittenGoes ==
  ASSUME BucketInv, FiringInv, BucketInv', FiringInv', NEW w \in Evaluator,
         evaluator[w].step \in {"fire", "record"}, NEW f,
         Rewrites(evaluator[w].rule, Current(w), f)
  PROVE  FiringsGo
<1>0. PICK run, c, r : run = evaluator[w] /\ c = Current(w) /\ r = run.rule
  OBVIOUS
<1>1. /\ r \in AlertRule /\ c \in 1..Len(firings[r]) /\ ~firings[r][c].recorded
      /\ f.start = firings[r][c].start
  BY <1>0, CurrentIs DEF IsCurrent, Rewrites
<1>2. PICK log : log = [firings[r] EXCEPT ![c] = f]
  OBVIOUS
<1>3. firings' = [firings EXCEPT ![r] = log] /\ firings \in [AlertRule -> Seq(Firing)]
  BY <1>0, <1>2, StepTypes DEF Rewrites
<1>4. firings'[r] = log /\ \A s \in AlertRule \ {r} : firings'[s] = firings[s]
  BY <1>1, <1>3
<1>5. /\ DOMAIN log = DOMAIN firings[r] /\ log[c] = f
      /\ \A m \in 1..Len(firings[r]) : m # c => log[m] = firings[r][m]
  BY <1>1, <1>2, <1>3
<1>6. Len(log) = Len(firings[r])
  <2>1. firings'[r] \in Seq(Firing) /\ firings[r] \in Seq(Firing)
    BY <1>1, StepTypes
  <2>2. log \in Seq(Firing)
    BY <1>4, <2>1
  <2> QED BY <1>5, <2>1, <2>2
<1>7. SUFFICES ASSUME NEW s \in AlertRule
               PROVE  /\ Len(firings[s]) <= Len(firings'[s])
                      /\ \A m \in 1..Len(firings[s]) :
                           /\ firings'[s][m].start = firings[s][m].start
                           /\ firings[s][m].recorded => firings'[s][m] = firings[s][m]
  BY DEF FiringsGo
<1>8. CASE s = r
  BY <1>1, <1>3, <1>4, <1>5, <1>6, <1>8
<1>9. CASE s # r
  BY <1>3, <1>4, <1>9
<1> QED BY <1>8, <1>9

LEMMA FireAnswers ==
  ASSUME BucketInv, FiringInv, AnswerInv, BucketInv', FiringInv', NEW w \in Evaluator,
         NEW failed \in BOOLEAN, FireAction(w, failed)
  PROVE  AnswerInv'
<1>1. PICK run, c, p : /\ run = evaluator[w] /\ c = Current(w)
                       /\ p = [run EXCEPT !.left = LeftAfter(w, failed)]
  OBVIOUS
<1>2. PICK r, old, q : r = run.rule /\ old = firings[r][c] /\ q = Timed(p)
  OBVIOUS
<1>3. PICK f : f = [old EXCEPT !.attempted = Append(old.attempted, Head(run.left))]
  OBVIOUS
<1>4. /\ evaluator' = [evaluator EXCEPT ![w] = q] /\ run.step = "fire"
      /\ UNCHANGED <<alertTime, rules, alertCall, counted>>
      /\ firings' = [firings EXCEPT ![r][c] = f]
  BY <1>1, <1>2, <1>3 DEF FireAction, countVars
<1>5. /\ DOMAIN run = RunFields /\ Reading(run) /\ run.queue \subseteq AlertRule
  BY <1>1, <1>4, QueueIs DEF AnswerInv
<1>6. /\ p.step = "fire" /\ p.index = run.index /\ p.now = run.now /\ p.loaded = run.loaded
      /\ p.queue = run.queue /\ DOMAIN p = RunFields
  BY <1>1, <1>4, <1>5 DEF RunFields
<1>7. TimedOf(p, q)
  BY <1>2, <1>6, TimedIs
<1>8. f.start = old.start
  <2>1. r \in AlertRule /\ c \in 1..Len(firings[r])
    BY <1>1, <1>2, <1>4, CurrentIs
  <2>2. old \in Firing
    BY <1>2, <2>1, StepTypes
  <2> QED BY <1>3, <2>2 DEF Firing
<1>9. GoesOn
  <2>1. Rewrites(r, c, f)
    BY <1>2, <1>4, <1>8 DEF Rewrites
  <2>2. FiringsGo
    BY <1>1, <1>2, <1>4, <2>1, RewrittenGoes
  <2> QED BY <1>4, <2>2, UnchangedGoes
<1>10. Reading(q)'
  BY <1>4, <1>5, <1>6, <1>7, <1>9, SameReading DEF TimedOf
<1>11. ASSUME NEW s \in AlertRule, NEW i \in 1..Len(counted'), Judged(s, i)', run.index = i
       PROVE  run.step # "load" /\ s \notin run.queue
  BY <1>4, <1>6, <1>7, <1>11, JudgedNow DEF TimedOf
<1>12. RowsAsFirst'
  BY <1>4, <1>9, SameRows
<1>13. WorkerStep(w, q)
  BY <1>1, <1>4, <1>10, <1>11, <1>12 DEF WorkerStep
<1> QED BY <1>9, <1>13, WorkerAnswers

LEMMA RecordAnswers ==
  ASSUME BucketInv, FiringInv, AnswerInv, BucketInv', FiringInv', NEW w \in Evaluator,
         NEW failed \in BOOLEAN, RecordFired(w, failed)
  PROVE  AnswerInv'
<1>1. PICK run, c, p : /\ run = evaluator[w] /\ c = Current(w)
                       /\ p = [run EXCEPT !.step = "rules", !.rule = 0, !.firedAt = Never]
  OBVIOUS
<1>2. PICK r, old, q : r = run.rule /\ old = firings[r][c] /\ q = Resume(p)
  OBVIOUS
<1>3. PICK f : f = [old EXCEPT !.recorded = ~failed, !.at = run.firedAt]
  OBVIOUS
<1>4. /\ evaluator' = [evaluator EXCEPT ![w] = q] /\ run.step = "record"
      /\ UNCHANGED <<alertTime, alertCall, counted>>
      /\ firings' = [firings EXCEPT ![r][c] = f]
      /\ rules' = IF failed \/ rules[r] = NoRule THEN rules
                  ELSE [rules EXCEPT ![r] = [rules[r] EXCEPT !.lastFired = run.firedAt]]
  BY <1>1, <1>2, <1>3 DEF RecordFired, countVars
<1>5. /\ DOMAIN run = RunFields /\ Reading(run) /\ run.queue \subseteq AlertRule
  BY <1>1, <1>4, QueueIs DEF AnswerInv
<1>6. /\ p.step = "rules" /\ p.index = run.index /\ p.now = run.now /\ p.loaded = run.loaded
      /\ p.queue = run.queue /\ DOMAIN p = RunFields
  BY <1>1, <1>4, <1>5 DEF RunFields
<1>7. /\ r \in AlertRule /\ c \in 1..Len(firings[r]) /\ old \in Firing /\ run.firedAt \in Nat
  <2>1. r \in AlertRule /\ c \in 1..Len(firings[r]) /\ run.firedAt \in Nat
    BY <1>1, <1>2, <1>4, CurrentIs
  <2> QED BY <1>2, <2>1, StepTypes
<1>8. f.start = old.start /\ f.recorded = ~failed /\ f.at = run.firedAt
  BY <1>3, <1>7 DEF Firing
<1>9. GoesOn
  <2>1. Rewrites(r, c, f)
    BY <1>2, <1>4, <1>8 DEF Rewrites
  <2>2. FiringsGo
    BY <1>1, <1>2, <1>4, <2>1, RewrittenGoes
  <2> QED BY <1>4, <2>2, UnchangedGoes
<1>10. q = Finished(p) \/ (q = p /\ q.queue = run.queue /\ q.index = run.index)
  BY <1>2, <1>6 DEF Resume
<1>11. Reading(q)'
  <2>1. Reading(p)'
    BY <1>4, <1>5, <1>6, <1>9, SameReading
  <2> QED BY <1>10, <2>1, FinishedReads
<1>12. ASSUME NEW s \in AlertRule, NEW i \in 1..Len(counted'), Judged(s, i)', run.index = i
       PROVE  run.step # "load" /\ s \notin run.queue
  <2>1. CASE q = p
    BY <1>4, <1>6, <1>12, <2>1, JudgedNow
  <2>2. CASE q # p
    BY <1>2, <1>4, <1>6, <2>2 DEF Resume
  <2> QED BY <2>1, <2>2
<1>13. RowsAsFirst'
  <2>1. SUFFICES ASSUME NEW s \in AlertRule, NEW row \in {rules'[s]}, Untouched(s)'
                 PROVE  AsFirst(row, s)'
    BY DEF RowsAsFirst
  <2>2. PICK before : before = rules[s]
    OBVIOUS
  <2>3. AsFirst(before, s)
    BY <1>9, <2>1, <2>2 DEF AnswerInv, RowsAsFirst, GoesOn
  <2>4. AsFirst(before, s)'
    BY <1>9, <2>3, RowStays
  <2>5. CASE row = before
    BY <2>4, <2>5
  <2>6. CASE row # before
    <3>1. s = r /\ ~failed /\ row = [before EXCEPT !.lastFired = run.firedAt]
      <4>1. rules \in [AlertRule -> RuleRow \cup {NoRule}]
        BY DEF FiringInv, FiringTyped
      <4>2. ~(failed \/ rules[r] = NoRule)
        BY <1>4, <2>1, <2>2, <2>6
      <4>3. PICK x : x = [rules[r] EXCEPT !.lastFired = run.firedAt]
        OBVIOUS
      <4>4. rules' = [rules EXCEPT ![r] = x]
        BY <1>4, <4>2, <4>3
      <4>5. s = r /\ row = x
        BY <1>7, <2>1, <2>2, <2>6, <4>1, <4>4
      <4> QED BY <2>2, <4>2, <4>3, <4>5
    <3>2. /\ row \in RuleRow /\ row.lastFired = run.firedAt /\ row.enabled = before.enabled
          /\ row.frequency = before.frequency /\ row.conditions = before.conditions
      BY <1>7, <2>3, <3>1 DEF AsFirst, RuleRow
    <3>3. c \in 1..Len(firings'[r]) /\ firings'[r][c] = f
      <4>1. PICK log : log = [firings[r] EXCEPT ![c] = f]
        OBVIOUS
      <4>2. firings' = [firings EXCEPT ![r] = log] /\ firings \in [AlertRule -> Seq(Firing)]
        BY <1>4, <4>1, StepTypes
      <4>3. firings'[r] = log /\ log[c] = f
        BY <1>7, <4>1, <4>2
      <4>4. Len(firings[r]) <= Len(firings'[r]) /\ Len(firings[r]) \in Nat /\ Len(firings'[r]) \in Nat
        BY <1>7, <1>9, StepTypes DEF GoesOn, FiringsGo
      <4> QED BY <1>7, <4>3, <4>4
    <3>4. firings'[r][c].recorded /\ firings'[r][c].at = row.lastFired
      BY <1>8, <3>1, <3>2, <3>3
    <3> QED BY <2>3, <3>1, <3>2, <3>3, <3>4 DEF AsFirst
  <2> QED BY <2>5, <2>6
<1>14. WorkerStep(w, q)
  BY <1>1, <1>4, <1>11, <1>12, <1>13 DEF WorkerStep
<1> QED BY <1>9, <1>14, WorkerAnswers

-----------------------------------------------------------------------------
LEMMA AnswerInit ==
  ASSUME AlertInit
  PROVE  AnswerInv
<1>1. /\ rules = FirstRules /\ counted = <<>> /\ evaluator = [w \in Evaluator |-> NoEvaluation]
  BY DEF AlertInit
<1>2. Len(counted) = 0
  BY <1>1
<1>3. Answers
  BY <1>2 DEF Answers
<1>4. ASSUME NEW w \in Evaluator, NEW q \in {evaluator[w]} PROVE Reading(q)
  <2>1. q.step = "idle" /\ q.index = 0
    BY <1>1 DEF NoEvaluation
  <2> QED BY <2>1 DEF Reading
<1>5. RowsAsFirst
  <2>1. SUFFICES ASSUME NEW r \in AlertRule, Untouched(r) PROVE AsFirst(FirstRules[r], r)
    BY <1>1 DEF RowsAsFirst
  <2> QED BY <2>1, FirstRulesAre DEF AsFirst
<1> QED BY <1>3, <1>4, <1>5 DEF AnswerInv

LEMMA AnswerStepInv ==
  ASSUME BucketInv, FiringInv, AnswerInv, [AlertNext]_alertVars
  PROVE  AnswerInv'
<1>1. BucketInv' /\ FiringInv'
  BY BucketStepInv, FiringStepInv
<1>2. ASSUME NEW w \in Evaluator, NEW e \in AlertEvent, NEW normalized \in 0..alertTime,
             CountEvent(w, e, normalized)
      PROVE  AnswerInv'
  BY <1>1, <1>2, CountAnswers
<1>3. ASSUME NEW w \in Evaluator, LoadRules(w) PROVE AnswerInv'
  BY <1>1, <1>3, LoadAnswers
<1>4. ASSUME NEW w \in Evaluator, LoseEvaluation(w) PROVE AnswerInv'
  BY <1>1, <1>4, LoseAnswers
<1>5. ASSUME NEW w \in Evaluator, NEW r \in AlertRule, SkipRule(w, r) PROVE AnswerInv'
  BY <1>1, <1>5, SkipAnswers
<1>6. ASSUME NEW w \in Evaluator, NEW r \in AlertRule, SkipUnread(w, r) PROVE AnswerInv'
  BY <1>1, <1>6, SkipUnreadAnswers
<1>7. ASSUME NEW w \in Evaluator, NEW r \in AlertRule, StartFiring(w, r) PROVE AnswerInv'
  BY <1>1, <1>7, StartAnswers
<1>8. ASSUME NEW w \in Evaluator, NEW failed \in BOOLEAN, FireAction(w, failed) PROVE AnswerInv'
  BY <1>1, <1>8, FireAnswers
<1>9. ASSUME NEW w \in Evaluator, NEW failed \in BOOLEAN, RecordFired(w, failed) PROVE AnswerInv'
  BY <1>1, <1>9, RecordAnswers
<1>10. ASSUME NEW c \in AlertCall, CreateAlert(c) \/ ReadRule(c) \/ WriteRule(c) \/ DeleteAlert(c)
       PROVE  AnswerInv'
  BY <1>1, <1>10, RequestsAnswer
<1>11. CASE PruneBuckets
  <2>1. alertTime <= alertTime' /\ UNCHANGED <<counted, evaluator, firings, alertCall, rules>>
    BY <1>11, <1>1, StepTypes DEF PruneBuckets, firedVars
  <2> QED BY <1>1, <2>1, QuietAnswers
<1>12. CASE AlertTick
  <2>1. alertTime <= alertTime' /\ UNCHANGED <<counted, evaluator, firings, alertCall, rules>>
    BY <1>12, <1>1, StepTypes DEF AlertTick, firedVars, countVars
  <2> QED BY <1>1, <2>1, QuietAnswers
<1>13. CASE UNCHANGED alertVars
  <2>1. alertTime <= alertTime' /\ UNCHANGED <<counted, evaluator, firings, alertCall, rules>>
    BY <1>13, <1>1, StepTypes DEF alertVars
  <2> QED BY <1>1, <2>1, QuietAnswers
<1> QED BY <1>2, <1>3, <1>4, <1>5, <1>6, <1>7, <1>8, <1>9, <1>10, <1>11, <1>12, <1>13 DEF AlertNext

\* A rule that nobody edits has fired or cooled down, or had a condition that
\* fails, for every event it has judged.
THEOREM AnswerInvariant == AlertSpec => []AnswerInv
  BY BucketInvariant, FiringInvariant, AnswerInit, AnswerStepInv, PTL DEF AlertSpec

\* No alert is missed, for any rules and events, whatever the clients' clocks,
\* and however workers, requests, pruning and faults are interleaved.
THEOREM AlertsAreNotMissed == AlertSpec => []AlertsNotMissed
<1>1. BucketInv /\ AnswerInv => AlertsNotMissed
  <2>1. SUFFICES ASSUME BucketInv, AnswerInv, NEW r \in AlertRule, NEW i \in DOMAIN counted,
                        Untouched(r), Judged(r, i),
                        \A cond \in FirstRules[r].conditions : StillHolds(cond, i)
                 PROVE  Answered(r, counted[i].at)
    BY DEF AlertsNotMissed
  <2>2. i \in 1..Len(counted)
    BY <2>1 DEF BucketInv, BucketsTyped
  <2>3. Resolved(r, i)
    BY <2>1, <2>2 DEF AnswerInv, Answers
  <2> QED BY <2>1, <2>3 DEF Resolved
<1> QED BY <1>1, BucketInvariant, AnswerInvariant, PTL
-----------------------------------------------------------------------------
\* EnvelopeItems, what envelopes leave behind: the inductive invariant.

\* A worker's place, by the record of its work.
ItemAt(q) == ItemsInOrder[q.envelope][q.item]
TagsAt(q) == TagsOf[q.envelope][q.item]
IdAt(q) == ItemAt(q).event.id
InEvent(q) == q.step \in {"tags", "values", "bump"}
InTransaction(q) == q.step = "transaction"

PlaceOK(q) ==
  /\ DOMAIN q = WorkFields
  /\ q.envelope \in ItemEnvelope
  /\ q.item \in 1..(Len(ItemsInOrder[q.envelope]) + 1)
  /\ q.step \in {"begin", "tags", "values", "bump", "transaction"}
  /\ q.step = "begin" => q.tag = 1
  /\ InEvent(q) => /\ q.item <= Len(ItemsInOrder[q.envelope])
                   /\ ItemAt(q).is = "event"
                   /\ q.tag \in 1..(Len(TagsAt(q)) + 1)
  /\ q.step = "bump" => q.tag <= Len(TagsAt(q))
  /\ InTransaction(q) => /\ q.item <= Len(ItemsInOrder[q.envelope])
                         /\ ItemAt(q).is = "transaction"

\* The rows of event_tags: of an id, and those its first n tags make.
RowsOf(id) == {r \in eventTags : r[1] = id}
RowsFor(id, tags, n) == {<<id, tags[i][1], tags[i][2]>> : i \in 1..n}

\* The events that a worker is still writing, and the others that have a row.
Open(id) == \E w \in ItemWorker : InEvent(itemWork[w]) /\ IdAt(itemWork[w]) = id
Closed == {id \in itemEvents : ~Open(id)}

\* What there is of an item that was processed.
StoredEvent(e, i) ==
  LET id == ItemsInOrder[e][i].event.id IN
  id \in Closed /\ RowsOf(id) = RowsFor(id, TagsOf[e][i], Len(TagsOf[e][i]))
StoredTransaction(e, i) == \E r \in ToSet(transactions) : r[1] = e /\ r[2] = i
Stored(e, i) ==
  /\ ItemsInOrder[e][i].is = "event" => StoredEvent(e, i)
  /\ ItemsInOrder[e][i].is = "transaction" /\ ItemsInOrder[e][i].parses => StoredTransaction(e, i)

\* The rows of the event a worker is in.
TagsWritten(q) == IF q.step = "tags" THEN q.tag - 1 ELSE Len(TagsAt(q))
WrittenBy(q) ==
  /\ IdAt(q) \in itemEvents
  /\ RowsOf(IdAt(q)) = RowsFor(IdAt(q), TagsAt(q), TagsWritten(q))

Progress(q) ==
  /\ PlaceOK(q)
  /\ itemState[q.envelope].state = "processing"
  /\ InEvent(q) => WrittenBy(q)
  /\ \A i \in 1..(q.item - 1) : Stored(q.envelope, i)

\* No two workers have an envelope, or an event, in common.
Apart(q, r) ==
  /\ q.envelope # r.envelope
  /\ InEvent(q) /\ InEvent(r) => IdAt(q) # IdAt(r)

PlacesInv ==
  /\ \A w \in ItemWorker : \A q \in {itemWork[w]} : q.step # "idle" => Progress(q)
  /\ \A v, w \in ItemWorker : \A q \in {itemWork[v]}, r \in {itemWork[w]} :
       v # w /\ q.step # "idle" /\ r.step # "idle" => Apart(q, r)

StatesTyped ==
  /\ DOMAIN itemState = ItemEnvelope
  /\ \A e \in ItemEnvelope : DOMAIN itemState[e] = {"state", "attempts"}
AllStored(e) == \A i \in 1..Len(ItemsInOrder[e]) : Stored(e, i)
DoneStored == \A e \in ItemEnvelope : itemState[e].state = "done" => AllStored(e)
RowsTyped ==
  /\ IsFiniteSet(itemEvents) /\ IsFiniteSet(eventTags)
  /\ \A r \in eventTags : r[1] \in itemEvents /\ r = <<r[1], r[2], r[3]>>

-----------------------------------------------------------------------------
\* An event is counted once.

\* A row of event_tags that its worker has yet to count.
YetToCount(q, t) ==
  q.step = "tags" \/ \E j \in q.tag..Len(TagsAt(q)) : TagsAt(q)[j] = t
Owed(r) == \E w \in ItemWorker :
  /\ InEvent(itemWork[w]) /\ IdAt(itemWork[w]) = r[1]
  /\ YetToCount(itemWork[w], <<r[2], r[3]>>)
CountedRows(t) == {r \in eventTags : <<r[2], r[3]>> = t /\ ~Owed(r)}

CountsInv ==
  /\ \A t \in DOMAIN tagValues :
       tagValues[t] \in Nat /\ tagValues[t] <= Cardinality(CountedRows(t))
  /\ IsFiniteSet(DOMAIN hourCounts)
  /\ \A h \in DOMAIN hourCounts : hourCounts[h] \in Nat
  /\ SumOver(hourCounts, DOMAIN hourCounts) <= Cardinality(Closed)

-----------------------------------------------------------------------------
\* The statistics of a group cover its rows and what workers are about to insert.

Inserting(g) == {w \in ItemWorker : InTransaction(itemWork[w]) /\ ItemAt(itemWork[w]).group = g}
DurationOf == [i \in DOMAIN transactions |-> transactions[i][4]]
DurationBy == [w \in ItemWorker |->
  IF InTransaction(itemWork[w]) THEN Duration(ItemAt(itemWork[w])) ELSE 0]

Within(stats, d) == stats.min <= d /\ d <= stats.max

GroupCovered(g, stats) ==
  /\ stats.count \in Nat /\ stats.sum \in Nat /\ stats.min \in Nat /\ stats.max \in Nat
  /\ Cardinality(RowsOfGroup(g)) + Cardinality(Inserting(g)) <= stats.count
  /\ SumOver(DurationOf, RowsOfGroup(g)) + SumOver(DurationBy, Inserting(g)) <= stats.sum
  /\ \A i \in RowsOfGroup(g) : Within(stats, DurationOf[i])
  /\ \A w \in Inserting(g) : Within(stats, DurationBy[w])

GroupsInv ==
  /\ transactions \in Seq(ToSet(transactions))
  /\ \A i \in DOMAIN transactions :
       transactions[i][4] \in Nat /\ transactions[i][3] \in DOMAIN groupStats
  /\ \A w \in ItemWorker : InTransaction(itemWork[w]) => ItemAt(itemWork[w]).group \in DOMAIN groupStats
  /\ \A g \in DOMAIN groupStats : GroupCovered(g, groupStats[g])

ItemInv ==
  /\ PlacesInv /\ StatesTyped /\ DoneStored /\ RowsTyped
  /\ CountsInv /\ GroupsInv

-----------------------------------------------------------------------------
\* The items and the tags of an envelope.

\* The first tags read differently, and read as all of them do.
ReadAlike(s, t) == {Joined(x) : x \in ToSet(s)} = {Joined(x) : x \in ToSet(t)}

LEMMA FirstTagsAre ==
  ASSUME NEW S, NEW all \in Seq(S)
  PROVE  /\ FirstTags(all) \in Seq(S) /\ ReadAlike(FirstTags(all), all)
         /\ \A x \in ToSet(FirstTags(all)) : x \in ToSet(all)
         /\ \A k, l \in 1..Len(FirstTags(all)) : FirstTags(all)[k] = FirstTags(all)[l] => k = l
<1>1. PICK P, m : /\ P = {i \in DOMAIN all : \A j \in 1..(i - 1) : Joined(all[j]) # Joined(all[i])}
                  /\ m = Cardinality(P)
  OBVIOUS
<1>2. Len(all) \in Nat /\ DOMAIN all = 1..Len(all)
  BY SeqOfElements
<1>3. P \in SUBSET (1..Len(all))
  BY <1>1, <1>2
<1>4. PICK f : f = FirstTags(all)
  OBVIOUS
<1>5. f = Picked(all, P)
  BY <1>1, <1>4 DEF FirstTags
<1>6. f \in Seq(S) /\ \A x : x \in ToSet(f) <=> \E i \in P : x = all[i]
  BY <1>3, <1>5, PickedSeq
<1>7. \A x \in ToSet(f) : x \in ToSet(all)
  BY <1>3, <1>6, SeqOfElements
<1>8. \A i \in 1..Len(all) : \E j \in P : Joined(all[j]) = Joined(all[i])
  <2>1. SUFFICES ASSUME NEW i \in 1..Len(all) PROVE \E j \in P : Joined(all[j]) = Joined(all[i])
    OBVIOUS
  <2>2. PICK T : T = {j \in 1..Len(all) : Joined(all[j]) = Joined(all[i])}
    OBVIOUS
  <2>3. T \subseteq Nat /\ T # {}
    BY <2>2
  <2>4. PICK j \in T : \A l \in T : j <= l
    BY <2>3, LeastNumber
  <2>5. j \in 1..Len(all) /\ Joined(all[j]) = Joined(all[i])
    BY <2>2, <2>4
  <2>6. \A l \in 1..(j - 1) : l \in 1..Len(all) /\ ~ (j <= l)
    BY <1>2, <2>5
  <2>7. \A l \in 1..(j - 1) : Joined(all[l]) # Joined(all[j])
    BY <2>2, <2>4, <2>5, <2>6
  <2>8. j \in P
    BY <1>1, <1>2, <2>5, <2>7
  <2> QED BY <2>5, <2>8
<1>9. ReadAlike(f, all)
  <2>1. \A x \in ToSet(all) : \E y \in ToSet(f) : Joined(y) = Joined(x)
    <3>1. SUFFICES ASSUME NEW x \in ToSet(all) PROVE \E y \in ToSet(f) : Joined(y) = Joined(x)
      OBVIOUS
    <3>2. PICK i \in 1..Len(all) : x = all[i]
      BY <3>1, SeqOfElements
    <3>3. PICK j \in P : Joined(all[j]) = Joined(all[i])
      BY <1>8
    <3>4. all[j] \in ToSet(f)
      BY <1>6
    <3> QED BY <3>2, <3>3, <3>4
  <2> QED BY <1>7, <2>1 DEF ReadAlike
<1>10. \A k, l \in 1..Len(f) : f[k] = f[l] => k = l
  <2>1. m \in Nat /\ \E at : PickedFrom(all, P, m, at)
    BY <1>1, <1>2, <1>3, PickedAre
  <2>2. PICK at : /\ at \in [1..m -> P] /\ f = [k \in 1..m |-> all[at[k]]]
                  /\ \A k, l \in 1..m : at[k] = at[l] => k = l
    BY <1>5, <2>1 DEF PickedFrom
  <2>3. Len(f) = m
    BY <1>6, <2>1, <2>2
  <2>4. \A i, j \in P : Joined(all[i]) = Joined(all[j]) => i = j
    <3>1. SUFFICES ASSUME NEW i \in P, NEW j \in P, Joined(all[i]) = Joined(all[j]), i < j PROVE FALSE
      BY <1>3
    <3>2. i \in 1..(j - 1)
      BY <1>3, <3>1
    <3> QED BY <1>1, <3>1, <3>2
  <2>5. \A k \in 1..m : f[k] = all[at[k]] /\ at[k] \in P
    BY <2>2
  <2>6. ASSUME NEW k \in 1..m, NEW l \in 1..m, f[k] = f[l] PROVE k = l
    <3>1. all[at[k]] = all[at[l]] /\ at[k] \in P /\ at[l] \in P
      BY <2>5, <2>6
    <3>2. at[k] = at[l]
      BY <2>4, <3>1
    <3> QED BY <2>2, <3>2
  <2> QED BY <2>3, <2>6
<1> QED BY <1>4, <1>6, <1>7, <1>9, <1>10

LEMMA NamedTagsAre ==
  ASSUME NEW event, IsTags(event.tags), IsTags(event.auto)
  PROVE  \E S : NamedTags(event) \in Seq(S) /\ \A t \in S : t = <<t[1], t[2]>>
<1>1. PICK S : S = ToSet(event.tags) \cup ToSet(event.auto)
  OBVIOUS
<1>2. \A t \in S : t = <<t[1], t[2]>>
  BY <1>1 DEF IsTags
<1>3. event.tags \in Seq(S) /\ event.auto \in Seq(S)
  <2>1. event.tags \in Seq(ToSet(event.tags)) /\ event.auto \in Seq(ToSet(event.auto))
    BY DEF IsTags
  <2> QED BY <1>1, <2>1, SeqMonotonic
<1>4. ExplicitTags(event) \in Seq(S)
  <2>1. {i \in DOMAIN event.tags : event.tags[i][2] # NotText} \in SUBSET (1..Len(event.tags))
    BY <1>3, SeqOfElements
  <2> QED BY <1>3, <2>1, PickedSeq DEF ExplicitTags
<1>5. AutoTags(event) \in Seq(S)
  <2>1. {i \in DOMAIN event.auto : event.auto[i][2] # NoTag} \in SUBSET (1..Len(event.auto))
    BY <1>3, SeqOfElements
  <2> QED BY <1>3, <2>1, PickedSeq DEF AutoTags
<1>6. PICK all : all = ExplicitTags(event) \o AutoTags(event)
  OBVIOUS
<1>7. all \in Seq(S)
  BY <1>4, <1>5, <1>6, ConcatProperties
<1>8. {i \in DOMAIN all : all[i][2] # <<>>} \in SUBSET (1..Len(all))
  BY <1>7, SeqOfElements
<1>9. NamedTags(event) \in Seq(S)
  BY <1>6, <1>7, <1>8, PickedSeq DEF NamedTags
<1> QED BY <1>2, <1>9

LEMMA ItemsAre ==
  ASSUME NEW e \in ItemEnvelope
  PROVE  /\ ItemsInOrder[e] \in Seq(ToSet(ItemsOf[e])) /\ Len(ItemsInOrder[e]) \in Nat
         /\ DOMAIN ItemsInOrder[e] = 1..Len(ItemsInOrder[e])
         /\ \A i \in 1..Len(ItemsInOrder[e]) : ItemsInOrder[e][i] \in ToSet(ItemsOf[e])
<1>1. PICK s, S : s = ItemsOf[e] /\ S = ToSet(s)
  OBVIOUS
<1>2. s \in Seq(S)
  BY <1>1, ItemAssumption DEF ItemAssumption
<1>3. ASSUME NEW kind PROVE Picked(s, {i \in DOMAIN s : s[i].is = kind}) \in Seq(S)
  <2>1. {i \in DOMAIN s : s[i].is = kind} \in SUBSET (1..Len(s))
    BY <1>2, SeqOfElements
  <2> QED BY <1>2, <2>1, PickedSeq
<1>4. PICK a, b, c : /\ a = Picked(s, {i \in DOMAIN s : s[i].is = "event"})
                     /\ b = Picked(s, {i \in DOMAIN s : s[i].is = "transaction"})
                     /\ c = Picked(s, {i \in DOMAIN s : s[i].is = "user_report"})
  OBVIOUS
<1>5. a \in Seq(S) /\ b \in Seq(S) /\ c \in Seq(S)
  BY <1>3, <1>4
<1>6. InOrder(s) = a \o b \o c
  BY <1>4 DEF InOrder
<1>7. a \o b \in Seq(S)
  BY <1>5, ConcatProperties
<1>8. InOrder(s) \in Seq(S)
  BY <1>5, <1>6, <1>7, ConcatProperties
<1>9. ItemsInOrder[e] = InOrder(s)
  BY <1>1 DEF ItemsInOrder
<1>10. PICK items : items = ItemsInOrder[e]
  OBVIOUS
<1>11. items \in Seq(S)
  BY <1>8, <1>9, <1>10
<1>12. Len(items) \in Nat /\ DOMAIN items = 1..Len(items) /\ \A i \in 1..Len(items) : items[i] \in S
  BY <1>11
<1> QED BY <1>1, <1>10, <1>11, <1>12

\* The tags an event is stored with are pairs, no two the same, and read as its own.
ByPosition(s) == \A x : x \in ToSet(s) <=> \E k \in 1..Len(s) : x = s[k]
NoneTwice(tags) == \A k, l \in 1..Len(tags) : tags[k] = tags[l] => k = l
AllPairs(tags) == \A k \in 1..Len(tags) : tags[k] = <<tags[k][1], tags[k][2]>>

LEMMA TagsAre ==
  ASSUME NEW e \in ItemEnvelope, NEW i \in 1..Len(ItemsInOrder[e]),
         ItemsInOrder[e][i].is = "event", NEW tags, tags = TagsOf[e][i]
  PROVE  /\ Len(tags) \in Nat
         /\ ByPosition(tags)
         /\ AllPairs(tags)
         /\ NoneTwice(tags)
         /\ ReadAlike(tags, NamedTags(ItemsInOrder[e][i].event))
<1>1. PICK item : item = ItemsInOrder[e][i]
  OBVIOUS
<1>2. item.is = "event" /\ item \in ToSet(ItemsOf[e]) /\ i \in DOMAIN ItemsInOrder[e]
  BY <1>1, ItemsAre
<1>3. IsTags(item.event.tags) /\ IsTags(item.event.auto)
  BY <1>2, ItemAssumption DEF ItemAssumption
<1>4. PICK named : named = NamedTags(item.event)
  OBVIOUS
<1>5. PICK S : named \in Seq(S) /\ \A t \in S : t = <<t[1], t[2]>>
  BY <1>3, <1>4, NamedTagsAre
<1>6. tags = FirstTags(named)
  BY <1>1, <1>2, <1>4 DEF TagsOf
<1>7. /\ tags \in Seq(S) /\ ReadAlike(tags, named)
      /\ \A k, l \in 1..Len(tags) : tags[k] = tags[l] => k = l
  BY <1>5, <1>6, FirstTagsAre
<1>8. /\ Len(tags) \in Nat
      /\ \A x : x \in ToSet(tags) <=> \E k \in 1..Len(tags) : x = tags[k]
  <2>1. tags \in Seq(S)
    BY <1>7
  <2> QED BY ONLY <2>1, SeqOfElements
<1>9. \A k \in 1..Len(tags) : tags[k] \in S
  BY <1>7
<1> QED BY <1>1, <1>4, <1>5, <1>7, <1>8, <1>9 DEF ByPosition, NoneTwice, AllPairs

-----------------------------------------------------------------------------
\* Sums as numbers of units.

LEMMA UnitsAre ==
  ASSUME NEW f, NEW S, NEW p
  PROVE  p \in UnitsOf(f, S) <=> \E x \in S : p \in {x} \X (1..f[x])
  BY DEF UnitsOf

LEMMA UnitsFinite ==
  ASSUME NEW f, NEW S, IsFiniteSet(S), \A x \in S : f[x] \in Nat
  PROVE  IsFiniteSet(UnitsOf(f, S)) /\ SumOver(f, S) \in Nat
<1>1. PICK img, T : img = [x \in S |-> {x} \X (1..f[x])] /\ T = {{x} \X (1..f[x]) : x \in S}
  OBVIOUS
<1>2. img \in Surjection(S, T)
  BY <1>1 DEF Surjection
<1>3. IsFiniteSet(T)
  BY <1>2, FS_Surjection
<1>4. ASSUME NEW X \in T PROVE IsFiniteSet(X)
  <2>1. PICK x \in S : X = {x} \X (1..f[x])
    BY <1>1
  <2>2. PICK n : n = f[x] /\ n \in Nat
    BY <2>1
  <2>3. IsFiniteSet({x})
    BY FS_Singleton
  <2>4. IsFiniteSet(1..n)
    BY <2>2, FS_Interval
  <2> QED BY <2>1, <2>2, <2>3, <2>4, FS_Product
<1>5. IsFiniteSet(UNION T)
  BY <1>3, <1>4, FS_UNION
<1>6. UnitsOf(f, S) = UNION T
  BY <1>1 DEF UnitsOf
<1> QED BY <1>5, <1>6, FS_CardinalityType DEF SumOver

LEMMA UnitsAgree ==
  ASSUME NEW f, NEW g, NEW S, \A x \in S : f[x] = g[x]
  PROVE  UnitsOf(f, S) = UnitsOf(g, S) /\ SumOver(f, S) = SumOver(g, S)
<1>1. \A p : p \in UnitsOf(f, S) <=> p \in UnitsOf(g, S)
  BY UnitsAre
<1> QED BY <1>1 DEF SumOver

LEMMA FewerUnits ==
  ASSUME NEW f, NEW S, NEW T, T \subseteq S, IsFiniteSet(S), \A x \in S : f[x] \in Nat
  PROVE  SumOver(f, T) \in Nat /\ SumOver(f, S) \in Nat /\ SumOver(f, T) <= SumOver(f, S)
<1>1. UnitsOf(f, T) \in SUBSET UnitsOf(f, S)
  BY UnitsAre
<1>2. IsFiniteSet(UnitsOf(f, S)) /\ SumOver(f, S) \in Nat
  BY UnitsFinite
<1>3. IsFiniteSet(UnitsOf(f, T)) /\ Cardinality(UnitsOf(f, T)) <= Cardinality(UnitsOf(f, S))
  BY <1>1, <1>2, FS_Subset
<1> QED BY <1>2, <1>3, FS_CardinalityType DEF SumOver

LEMMA OneMoreSummand ==
  ASSUME NEW f, NEW S, NEW y, y \notin S, IsFiniteSet(S), \A x \in S \cup {y} : f[x] \in Nat
  PROVE  SumOver(f, S) \in Nat /\ SumOver(f, S \cup {y}) = SumOver(f, S) + f[y]
<1>1. PICK n \in Nat : n = f[y]
  OBVIOUS
<1>2. PICK U, V : U = UnitsOf(f, S) /\ V = {y} \X (1..n)
  OBVIOUS
<1>3. IsFiniteSet(U) /\ Cardinality(U) \in Nat
  BY <1>2, UnitsFinite DEF SumOver
<1>4. IsFiniteSet(V) /\ Cardinality(V) = n
  <2>1. IsFiniteSet({y}) /\ Cardinality({y}) = 1
    BY FS_Singleton
  <2>2. IsFiniteSet(1..n) /\ Cardinality(1..n) = n
    BY FS_Interval
  <2>3. IsFiniteSet(V) /\ Cardinality(V) = Cardinality({y}) * Cardinality(1..n)
    BY <1>2, <2>1, <2>2, FS_Product
  <2> QED BY <2>1, <2>2, <2>3
<1>5. U \cap V = {}
  <2>1. SUFFICES ASSUME NEW p, p \in U, p \in V PROVE FALSE
    OBVIOUS
  <2>2. PICK x \in S : p \in {x} \X (1..f[x])
    BY <1>2, <2>1, UnitsAre
  <2> QED BY <1>2, <2>1, <2>2
<1>6. UnitsOf(f, S \cup {y}) = U \cup V
  <2>1. \A p : p \in UnitsOf(f, S \cup {y}) <=> p \in U \/ p \in V
    BY <1>1, <1>2, UnitsAre
  <2> QED BY <2>1
<1>7. /\ Cardinality(U \cup V) = Cardinality(U) + Cardinality(V) - Cardinality(U \cap V)
      /\ Cardinality(U \cap V) = 0
  BY <1>3, <1>4, <1>5, FS_Union, FS_EmptySet
<1>8. Cardinality(U \cup V) = Cardinality(U) + n
  BY <1>3, <1>4, <1>7
<1>9. SumOver(f, S) = Cardinality(U) /\ SumOver(f, S \cup {y}) = Cardinality(U \cup V)
  BY <1>2, <1>6 DEF SumOver
<1> QED BY <1>1, <1>3, <1>8, <1>9

\* One of the summands grows by one.
LEMMA OneCountedMore ==
  ASSUME NEW f, NEW g, NEW S, NEW y \in S, IsFiniteSet(S), \A x \in S : f[x] \in Nat,
         \A x \in S : g[x] = IF x = y THEN f[x] + 1 ELSE f[x]
  PROVE  SumOver(f, S) \in Nat /\ SumOver(g, S) = SumOver(f, S) + 1
<1>1. PICK T : T = S \ {y}
  OBVIOUS
<1>2. y \notin T /\ S = T \cup {y} /\ IsFiniteSet(T)
  BY <1>1, FS_RemoveElement
<1>3. /\ SumOver(f, T) \in Nat
      /\ SumOver(f, S) = SumOver(f, T) + f[y]
  <2>1. \A x \in T \cup {y} : f[x] \in Nat
    BY <1>2
  <2> QED BY <1>2, <2>1, OneMoreSummand
<1>4. SumOver(g, S) = SumOver(g, T) + g[y]
  <2>1. \A x \in T \cup {y} : g[x] \in Nat
    BY <1>2
  <2> QED BY <1>2, <2>1, OneMoreSummand
<1>5. SumOver(g, T) = SumOver(f, T)
  <2>1. \A x \in T : g[x] = f[x]
    BY <1>1
  <2> QED BY <2>1, UnitsAgree
<1>6. g[y] = f[y] + 1 /\ f[y] \in Nat
  OBVIOUS
<1> QED BY <1>3, <1>4, <1>5, <1>6

-----------------------------------------------------------------------------
\* How steps of workers and tables change what the invariant counts.

Moves(w, r) == itemWork' = [itemWork EXCEPT ![w] = r]

LEMMA OnlyOneMoves ==
  ASSUME WorkShape, NEW w \in ItemWorker, NEW r, Moves(w, r)
  PROVE  itemWork'[w] = r /\ \A v \in ItemWorker \ {w} : itemWork'[v] = itemWork[v]
  BY DEF WorkShape, Moves

\* A worker that begins no event and no transaction, and owes no more counts.
QuietEvent(q, r) == InEvent(r) =>
  InEvent(q) /\ IdAt(r) = IdAt(q) /\ \A t : YetToCount(r, t) => YetToCount(q, t)
QuietTransaction(q, r) == InTransaction(r) => InTransaction(q) /\ ItemAt(r) = ItemAt(q)

QuietEvents == \A w \in ItemWorker : QuietEvent(itemWork[w], itemWork'[w])
QuietTransactions == \A w \in ItemWorker : QuietTransaction(itemWork[w], itemWork'[w])

LEMMA QuietMove ==
  ASSUME WorkShape, NEW w \in ItemWorker, NEW r, Moves(w, r)
  PROVE  /\ QuietEvent(itemWork[w], r) => QuietEvents
         /\ QuietTransaction(itemWork[w], r) => QuietTransactions
<1>1. itemWork'[w] = r /\ \A v \in ItemWorker \ {w} : itemWork'[v] = itemWork[v]
  BY OnlyOneMoves
<1>2. \A q : QuietEvent(q, q) /\ QuietTransaction(q, q)
  BY DEF QuietEvent, QuietTransaction
<1>3. ASSUME QuietEvent(itemWork[w], r), NEW v \in ItemWorker
      PROVE  QuietEvent(itemWork[v], itemWork'[v])
  BY <1>1, <1>2, <1>3
<1>4. ASSUME QuietTransaction(itemWork[w], r), NEW v \in ItemWorker
      PROVE  QuietTransaction(itemWork[v], itemWork'[v])
  BY <1>1, <1>2, <1>4
<1> QED BY <1>3, <1>4 DEF QuietEvents, QuietTransactions

LEMMA QuietEventsOwe ==
  ASSUME QuietEvents
  PROVE  (\A id : Open(id)' => Open(id)) /\ (\A r : Owed(r)' => Owed(r))
  BY DEF QuietEvents, QuietEvent, Open, Owed

LEMMA CountsKept ==
  ASSUME CountsInv, IsFiniteSet(eventTags'), IsFiniteSet(itemEvents'),
         UNCHANGED <<tagValues, hourCounts>>,
         \A t : CountedRows(t) \subseteq CountedRows(t)', Closed \subseteq Closed'
  PROVE  CountsInv'
<1>1. ASSUME NEW t \in DOMAIN tagValues
      PROVE  tagValues[t] \in Nat /\ tagValues[t] <= Cardinality(CountedRows(t)')
  <2>1. CountedRows(t)' \in SUBSET eventTags'
    BY DEF CountedRows
  <2>2. IsFiniteSet(CountedRows(t)')
    BY <2>1, FS_Subset
  <2>3. PICK U, V : U = CountedRows(t) /\ V = CountedRows(t)'
    OBVIOUS
  <2>4. U \in SUBSET V /\ IsFiniteSet(V)
    BY <2>2, <2>3
  <2>5. IsFiniteSet(U) /\ Cardinality(U) <= Cardinality(V)
    BY <2>4, FS_Subset
  <2>6. Cardinality(U) \in Nat /\ Cardinality(V) \in Nat
    BY <2>4, <2>5, FS_CardinalityType
  <2>7. tagValues[t] \in Nat /\ tagValues[t] <= Cardinality(U)
    BY <2>3 DEF CountsInv
  <2> QED BY <2>3, <2>5, <2>6, <2>7
<1>2. SumOver(hourCounts, DOMAIN hourCounts) <= Cardinality(Closed')
  <2>1. Closed' \in SUBSET itemEvents'
    BY DEF Closed
  <2>2. PICK U, V : U = Closed /\ V = Closed'
    OBVIOUS
  <2>3. U \in SUBSET V /\ IsFiniteSet(V)
    BY <2>1, <2>2, FS_Subset
  <2>4. IsFiniteSet(U) /\ Cardinality(U) <= Cardinality(V)
    BY <2>3, FS_Subset
  <2>5. Cardinality(U) \in Nat /\ Cardinality(V) \in Nat
    BY <2>3, <2>4, FS_CardinalityType
  <2>6. SumOver(hourCounts, DOMAIN hourCounts) <= Cardinality(U)
    BY <2>2 DEF CountsInv
  <2>7. SumOver(hourCounts, DOMAIN hourCounts) \in Nat
    BY UnitsFinite DEF CountsInv
  <2> QED BY <2>2, <2>4, <2>5, <2>6, <2>7
<1>3. tagValues' = tagValues /\ hourCounts' = hourCounts
  OBVIOUS
<1>4. /\ IsFiniteSet(DOMAIN hourCounts')
      /\ \A h \in DOMAIN hourCounts' : hourCounts'[h] \in Nat
  BY <1>3 DEF CountsInv
<1>5. SumOver(hourCounts', DOMAIN hourCounts') <= Cardinality(Closed')
  BY <1>2, <1>3
<1>6. \A t \in DOMAIN tagValues' :
        tagValues'[t] \in Nat /\ tagValues'[t] <= Cardinality(CountedRows(t)')
  BY <1>1, <1>3
<1> QED BY <1>4, <1>5, <1>6 DEF CountsInv, SumOver

LEMMA CountsStay ==
  ASSUME CountsInv, RowsTyped, QuietEvents,
         UNCHANGED <<itemEvents, eventTags, tagValues, hourCounts>>
  PROVE  CountsInv'
<1>1. (\A id : Open(id)' => Open(id)) /\ (\A r : Owed(r)' => Owed(r))
  BY QuietEventsOwe
<1>2. IsFiniteSet(eventTags') /\ IsFiniteSet(itemEvents') /\ UNCHANGED <<tagValues, hourCounts>>
  BY DEF RowsTyped
<1>3. \A t : CountedRows(t) \subseteq CountedRows(t)'
  BY <1>1 DEF CountedRows
<1>4. Closed \subseteq Closed'
  BY <1>1 DEF Closed
<1> QED BY <1>2, <1>3, <1>4, CountsKept

LEMMA ItemWorkers == IsFiniteSet(ItemWorker)
  BY ItemAssumption DEF ItemAssumption

LEMMA InsertingFinite ==
  ASSUME NEW g
  PROVE  /\ Inserting(g) \in SUBSET ItemWorker /\ IsFiniteSet(Inserting(g))
         /\ Cardinality(Inserting(g)) \in Nat
<1>1. Inserting(g) \in SUBSET ItemWorker
  BY DEF Inserting
<1> QED BY <1>1, ItemWorkers, FS_Subset, FS_CardinalityType

\* Transactions of envelopes have durations that are not negative.
LEMMA DurationIs ==
  ASSUME NEW e \in ItemEnvelope, NEW i \in 1..Len(ItemsInOrder[e]),
         ItemsInOrder[e][i].is = "transaction"
  PROVE  Duration(ItemsInOrder[e][i]) \in Nat
<1>1. PICK item : item = ItemsInOrder[e][i]
  OBVIOUS
<1>2. item.start \in Int /\ item.end \in Int
  BY <1>1, ItemsAre, ItemAssumption DEF ItemAssumption
<1>3. PICK a : a = item.end - item.start
  OBVIOUS
<1>4. a \in Int
  BY <1>2, <1>3
<1>5. Max({a, 0}) = CHOOSE x \in {a, 0} : \A y \in {a, 0} : x >= y
  BY DEF Max
<1>6. \E x \in {a, 0} : \A y \in {a, 0} : x >= y
  <2>1. CASE a >= 0
    BY <1>4, <2>1
  <2>2. CASE ~ (a >= 0)
    BY <1>4, <2>2
  <2> QED BY <2>1, <2>2
<1>7. Max({a, 0}) \in {a, 0} /\ Max({a, 0}) >= 0
  BY <1>5, <1>6
<1>8. Max({a, 0}) \in Nat
  BY <1>4, <1>7
<1> QED BY <1>1, <1>3, <1>8 DEF Duration

LEMMA InsertedBy ==
  ASSUME PlacesInv, NEW w \in ItemWorker, InTransaction(itemWork[w])
  PROVE  DurationBy[w] \in Nat /\ DurationBy[w] = Duration(ItemAt(itemWork[w]))
<1>1. PICK q : q = itemWork[w]
  OBVIOUS
<1>2. PlaceOK(q)
  BY <1>1 DEF PlacesInv, Progress, InTransaction
<1>3. /\ q.envelope \in ItemEnvelope /\ q.item \in 1..(Len(ItemsInOrder[q.envelope]) + 1)
      /\ q.item <= Len(ItemsInOrder[q.envelope]) /\ ItemAt(q).is = "transaction"
  BY <1>1, <1>2 DEF PlaceOK
<1>4. q.item \in 1..Len(ItemsInOrder[q.envelope])
  BY <1>3, ItemsAre
<1>5. Duration(ItemAt(q)) \in Nat
  BY <1>3, <1>4, DurationIs DEF ItemAt
<1> QED BY <1>1, <1>5 DEF DurationBy

LEMMA GroupsStay ==
  ASSUME GroupsInv, PlacesInv, QuietTransactions, UNCHANGED <<groupStats, transactions>>
  PROVE  GroupsInv'
<1>1. \A w \in ItemWorker : InTransaction(itemWork'[w]) =>
        InTransaction(itemWork[w]) /\ ItemAt(itemWork'[w]) = ItemAt(itemWork[w])
  BY DEF QuietTransactions, QuietTransaction
<1>2. \A g : Inserting(g)' \in SUBSET Inserting(g)
  BY <1>1 DEF Inserting
<1>3. \A g : \A w \in Inserting(g)' : DurationBy'[w] = DurationBy[w]
  BY <1>1 DEF Inserting, DurationBy
<1>4. DurationOf' = DurationOf /\ \A g : RowsOfGroup(g)' = RowsOfGroup(g)
  BY DEF DurationOf, RowsOfGroup
<1>5. ASSUME NEW g \in DOMAIN groupStats PROVE GroupCovered(g, groupStats[g])'
  <2>1. PICK s : s = groupStats[g] /\ s = groupStats'[g]
    OBVIOUS
  <2>2. PICK I, J, rows : I = Inserting(g) /\ J = Inserting(g)' /\ rows = RowsOfGroup(g) /\ rows = RowsOfGroup(g)'
    BY <1>4
  <2>3. PICK f, h, d : f = DurationBy /\ h = DurationBy' /\ d = DurationOf /\ d = DurationOf'
    BY <1>4
  <2>4. /\ s.count \in Nat /\ s.sum \in Nat /\ s.min \in Nat /\ s.max \in Nat
        /\ Cardinality(rows) + Cardinality(I) <= s.count
        /\ SumOver(d, rows) + SumOver(f, I) <= s.sum
        /\ \A i \in rows : Within(s, d[i])
        /\ \A w \in I : Within(s, f[w])
    BY <2>1, <2>2, <2>3 DEF GroupsInv, GroupCovered
  <2>5. J \in SUBSET I /\ IsFiniteSet(I) /\ \A w \in J : h[w] = f[w]
    BY <1>2, <1>3, <2>2, <2>3, InsertingFinite
  <2>6. \A w \in I : f[w] \in Nat
    BY <2>2, <2>3, InsertedBy DEF Inserting
  <2>7. Cardinality(J) \in Nat /\ Cardinality(I) \in Nat /\ Cardinality(J) <= Cardinality(I)
    BY <2>5, FS_Subset, FS_CardinalityType
  <2>8. SumOver(f, J) \in Nat /\ SumOver(f, I) \in Nat /\ SumOver(f, J) <= SumOver(f, I)
    BY <2>5, <2>6, FewerUnits
  <2>9. SumOver(h, J) = SumOver(f, J)
    BY <2>5, UnitsAgree
  <2>10. Cardinality(rows) \in Nat /\ SumOver(d, rows) \in Nat
    <3>1. Len(transactions) \in Nat /\ DOMAIN transactions = 1..Len(transactions)
      BY SeqOfElements DEF GroupsInv
    <3>2. rows \in SUBSET (1..Len(transactions))
      BY <2>2, <3>1 DEF RowsOfGroup
    <3>3. IsFiniteSet(rows)
      <4>1. IsFiniteSet(1..Len(transactions))
        BY <3>1, FS_Interval
      <4> QED BY <3>2, <4>1, FS_Subset
    <3>4. \A i \in rows : d[i] \in Nat
      BY <2>3, <3>1, <3>2 DEF GroupsInv, DurationOf
    <3> QED BY <3>3, <3>4, UnitsFinite, FS_CardinalityType
  <2>11. Cardinality(rows) + Cardinality(J) <= s.count
    BY <2>4, <2>7, <2>10
  <2>12. SumOver(d, rows) + SumOver(h, J) <= s.sum
    BY <2>4, <2>8, <2>9, <2>10
  <2>13. \A w \in J : Within(s, h[w])
    BY <2>4, <2>5
  <2>14. GroupCovered(g, s)'
    BY <2>2, <2>3, <2>4, <2>11, <2>12, <2>13 DEF GroupCovered, SumOver
  <2> QED BY <2>1, <2>14
<1>6. /\ transactions' \in Seq(ToSet(transactions'))
      /\ \A i \in DOMAIN transactions' :
           transactions'[i][4] \in Nat /\ transactions'[i][3] \in DOMAIN groupStats'
  BY DEF GroupsInv
<1>7. \A w \in ItemWorker : InTransaction(itemWork'[w]) =>
        ItemAt(itemWork'[w]).group \in DOMAIN groupStats'
  BY <1>1 DEF GroupsInv
<1>8. DOMAIN groupStats' = DOMAIN groupStats
  OBVIOUS
<1> QED BY <1>5, <1>6, <1>7, <1>8 DEF GroupsInv

\* What was stored stays: no event that is closed is written to, and no row of a
\* transaction is lost.
TablesGrow ==
  /\ itemEvents \subseteq itemEvents'
  /\ \A id \in itemEvents : Open(id)' => Open(id)
  /\ \A id \in Closed : RowsOf(id)' = RowsOf(id)
  /\ ToSet(transactions) \subseteq ToSet(transactions)'

LEMMA StoredStays ==
  ASSUME TablesGrow, NEW e, NEW i, Stored(e, i)
  PROVE  Stored(e, i)'
<1>1. \A id \in Closed : id \in Closed' /\ RowsOf(id)' = RowsOf(id)
  BY DEF TablesGrow, Closed
<1>2. StoredEvent(e, i) => StoredEvent(e, i)'
  BY <1>1 DEF StoredEvent
<1>3. StoredTransaction(e, i) => StoredTransaction(e, i)'
  BY DEF StoredTransaction, TablesGrow
<1> QED BY <1>2, <1>3 DEF Stored

LEMMA DoneStays ==
  ASSUME TablesGrow, DoneStored,
         \A e \in ItemEnvelope : itemState'[e].state = "done" =>
           itemState[e].state = "done" \/ AllStored(e)'
  PROVE  DoneStored'
<1>1. SUFFICES ASSUME NEW e \in ItemEnvelope, itemState'[e].state = "done" PROVE AllStored(e)'
  BY DEF DoneStored
<1>2. AllStored(e) => AllStored(e)'
  BY StoredStays DEF AllStored
<1> QED BY <1>1, <1>2 DEF DoneStored

\* The rows and states of other workers' events and envelopes stay as they are.
OthersStay(w) == \A v \in ItemWorker \ {w} : \A q \in {itemWork[v]} : q.step # "idle" =>
  /\ itemState'[q.envelope].state = itemState[q.envelope].state
  /\ InEvent(q) => RowsOf(IdAt(q))' = RowsOf(IdAt(q))

ApartFromOthers(w, r) == \A v \in ItemWorker \ {w} : \A q \in {itemWork[v]} :
  q.step # "idle" => Apart(q, r)

LEMMA PlacesStep ==
  ASSUME WorkShape, PlacesInv, NEW w \in ItemWorker, NEW r, Moves(w, r),
         TablesGrow, OthersStay(w),
         r.step # "idle" => Progress(r)' /\ ApartFromOthers(w, r)
  PROVE  PlacesInv'
<1>1. itemWork'[w] = r /\ \A v \in ItemWorker \ {w} : itemWork'[v] = itemWork[v]
  BY OnlyOneMoves
<1>2. ASSUME NEW v \in ItemWorker \ {w}, NEW q, q = itemWork[v], q.step # "idle"
      PROVE  Progress(q)'
  <2>1. Progress(q)
    BY <1>2 DEF PlacesInv
  <2>2. /\ itemState'[q.envelope].state = "processing"
        /\ InEvent(q) => RowsOf(IdAt(q))' = RowsOf(IdAt(q))
    BY <1>2, <2>1 DEF OthersStay, Progress
  <2>3. InEvent(q) => WrittenBy(q)'
    BY <2>1, <2>2 DEF Progress, WrittenBy, TablesGrow
  <2>4. \A i \in 1..(q.item - 1) : Stored(q.envelope, i)'
    BY <2>1, StoredStays DEF Progress
  <2> QED BY <2>1, <2>2, <2>3, <2>4 DEF Progress
<1>3. \A v \in ItemWorker : \A q \in {itemWork'[v]} : q.step # "idle" => Progress(q)'
  BY <1>1, <1>2
<1>4. ASSUME NEW u \in ItemWorker, NEW v \in ItemWorker, NEW q, NEW s,
             q = itemWork'[u], s = itemWork'[v], u # v, q.step # "idle", s.step # "idle"
      PROVE  Apart(q, s)
  <2>1. \A a, b : Apart(a, b) => Apart(b, a)
    BY DEF Apart
  <2>2. CASE u = w
    BY <1>1, <1>4, <2>1, <2>2 DEF ApartFromOthers
  <2>3. CASE v = w
    BY <1>1, <1>4, <2>3 DEF ApartFromOthers
  <2>4. CASE u # w /\ v # w
    BY <1>1, <1>4, <2>4 DEF PlacesInv
  <2> QED BY <2>2, <2>3, <2>4
<1> QED BY <1>3, <1>4 DEF PlacesInv

\* What the invariant asks of a worker's new place, before the step.
Ready(r) ==
  /\ PlaceOK(r)
  /\ itemState'[r.envelope].state = "processing"
  /\ InEvent(r) => WrittenBy(r)
  /\ \A i \in 1..(r.item - 1) : Stored(r.envelope, i)

StatesStay(w) == \A v \in ItemWorker \ {w} : itemWork[v].step # "idle" =>
  itemState'[itemWork[v].envelope].state = itemState[itemWork[v].envelope].state

DoneAreStored == \A e \in ItemEnvelope : itemState'[e].state = "done" =>
  itemState[e].state = "done" \/ AllStored(e)

LEMMA QuietTables ==
  ASSUME QuietEvents, UNCHANGED <<itemEvents, eventTags, transactions>>
  PROVE  TablesGrow /\ (\A id : RowsOf(id)' = RowsOf(id)) /\ (RowsTyped => RowsTyped')
<1>1. \A id : Open(id)' => Open(id)
  BY QuietEventsOwe
<1>2. \A id : RowsOf(id)' = RowsOf(id)
  BY DEF RowsOf
<1> QED BY <1>1, <1>2 DEF TablesGrow, RowsTyped

\* A worker goes on without writing what the invariant reads.
LEMMA QuietItemStep ==
  ASSUME WorkShape, ItemInv, NEW w \in ItemWorker, NEW r, Moves(w, r),
         QuietEvent(itemWork[w], r), QuietTransaction(itemWork[w], r),
         UNCHANGED <<itemEvents, eventTags, tagValues, hourCounts, groupStats, transactions>>,
         StatesTyped', StatesStay(w), DoneAreStored,
         r.step # "idle" => Ready(r) /\ ApartFromOthers(w, r)
  PROVE  ItemInv'
<1>1. QuietEvents /\ QuietTransactions
  BY QuietMove
<1>2. TablesGrow /\ (\A id : RowsOf(id)' = RowsOf(id)) /\ RowsTyped'
  BY <1>1, QuietTables DEF ItemInv
<1>3. DoneStored'
  <2>1. \A e : AllStored(e) => AllStored(e)'
    BY <1>2, StoredStays DEF AllStored
  <2> QED BY <1>2, <2>1, DoneStays DEF DoneAreStored, ItemInv
<1>4. OthersStay(w)
  BY <1>2 DEF OthersStay, StatesStay
<1>5. r.step # "idle" => Progress(r)'
  <2>1. SUFFICES ASSUME r.step # "idle" PROVE Progress(r)'
    OBVIOUS
  <2>2. Ready(r)
    BY <2>1
  <2>3. InEvent(r) => WrittenBy(r)'
    BY <1>2, <2>2 DEF Ready, WrittenBy
  <2>4. \A i \in 1..(r.item - 1) : Stored(r.envelope, i)'
    BY <1>2, <2>2, StoredStays DEF Ready
  <2> QED BY <2>2, <2>3, <2>4 DEF Ready, Progress
<1>6. PlacesInv'
  BY <1>2, <1>4, <1>5, PlacesStep DEF ItemInv
<1>7. CountsInv'
  BY <1>1, CountsStay DEF ItemInv
<1>8. GroupsInv'
  BY <1>1, GroupsStay DEF ItemInv
<1> QED BY <1>2, <1>3, <1>6, <1>7, <1>8 DEF ItemInv

LEMMA SameEnvelope ==
  ASSUME PlacesInv, NEW w \in ItemWorker, itemWork[w].step # "idle",
         NEW r, r.envelope = itemWork[w].envelope,
         InEvent(r) => InEvent(itemWork[w]) /\ IdAt(r) = IdAt(itemWork[w])
  PROVE  ApartFromOthers(w, r)
  BY DEF PlacesInv, ApartFromOthers, Apart

LEMMA PlaceOf ==
  ASSUME PlacesInv, NEW w \in ItemWorker, NEW q, q = itemWork[w], q.step # "idle"
  PROVE  /\ PlaceOK(q) /\ itemState[q.envelope].state = "processing"
         /\ InEvent(q) => WrittenBy(q)
         /\ \A i \in 1..(q.item - 1) : Stored(q.envelope, i)
         /\ q.envelope \in ItemEnvelope /\ q.item \in Nat
  BY ItemsAre DEF PlacesInv, Progress, PlaceOK

\* The place after an item.
AfterItem(q, r) ==
  /\ r.step = "begin" /\ r.envelope = q.envelope /\ r.item = q.item + 1 /\ r.tag = 1
  /\ DOMAIN r = WorkFields

LEMMA NextItemIs ==
  ASSUME PlacesInv, NEW w \in ItemWorker, NEW q, q = itemWork[w], q.step # "idle",
         NextItem(w), q.item <= Len(ItemsInOrder[q.envelope])
  PROVE  \E r : /\ Moves(w, r) /\ AfterItem(q, r) /\ PlaceOK(r)
                /\ QuietEvent(q, r) /\ QuietTransaction(q, r) /\ ApartFromOthers(w, r)
<1>1. PlaceOK(q) /\ DOMAIN q = WorkFields
  BY PlaceOf DEF PlaceOK
<1>2. PICK r : r = [q EXCEPT !.step = "begin", !.item = q.item + 1, !.tag = 1]
  OBVIOUS
<1>3. Moves(w, r)
  BY <1>2 DEF Moves, NextItem
<1>4. AfterItem(q, r)
  BY <1>1, <1>2 DEF AfterItem, WorkFields
<1>5. ~ InEvent(r) /\ ~ InTransaction(r)
  BY <1>4 DEF AfterItem, InEvent, InTransaction
<1>6. q.envelope \in ItemEnvelope /\ Len(ItemsInOrder[q.envelope]) \in Nat /\ q.item \in Nat
  BY PlaceOf, ItemsAre
<1>7. r.item \in 1..(Len(ItemsInOrder[r.envelope]) + 1)
  BY <1>4, <1>6 DEF AfterItem
<1>8. PlaceOK(r)
  BY <1>4, <1>5, <1>6, <1>7 DEF PlaceOK, AfterItem
<1>9. ApartFromOthers(w, r)
  BY <1>4, <1>5, SameEnvelope DEF AfterItem
<1> QED BY <1>3, <1>4, <1>5, <1>8, <1>9 DEF QuietEvent, QuietTransaction

\* A worker leaves an item that left no row behind.
LEMMA PassedOver ==
  ASSUME WorkShape, ItemInv, NEW w \in ItemWorker, NEW q, q = itemWork[w], q.step # "idle",
         NextItem(w), q.item <= Len(ItemsInOrder[q.envelope]), Stored(q.envelope, q.item),
         UNCHANGED <<itemState, itemEvents, eventTags, tagValues, hourCounts, groupStats,
                     transactions>>
  PROVE  ItemInv'
<1>1. PICK r : /\ Moves(w, r) /\ AfterItem(q, r) /\ PlaceOK(r)
               /\ QuietEvent(q, r) /\ QuietTransaction(q, r) /\ ApartFromOthers(w, r)
  BY NextItemIs DEF ItemInv
<1>2. /\ itemState[q.envelope].state = "processing" /\ q.item \in Nat
      /\ \A i \in 1..(q.item - 1) : Stored(q.envelope, i)
  BY PlaceOf DEF ItemInv
<1>3. \A i \in 1..(r.item - 1) : Stored(r.envelope, i)
  <2>1. SUFFICES ASSUME NEW i \in 1..(r.item - 1) PROVE Stored(q.envelope, i)
    BY <1>1 DEF AfterItem
  <2>2. i \in 1..(q.item - 1) \/ i = q.item
    BY <1>1, <1>2 DEF AfterItem
  <2> QED BY <1>2, <2>2
<1>4. Ready(r)
  BY <1>1, <1>2, <1>3 DEF Ready, AfterItem, InEvent
<1>5. StatesTyped' /\ StatesStay(w) /\ DoneAreStored
  BY DEF ItemInv, StatesTyped, StatesStay, DoneAreStored
<1> QED BY <1>1, <1>4, <1>5, QuietItemStep

LEMMA AtItemIs ==
  ASSUME NEW w \in ItemWorker, NEW kind, AtItem(w, kind), NEW q, q = itemWork[w]
  PROVE  /\ q.step = "begin" /\ q.item <= Len(ItemsInOrder[q.envelope])
         /\ ItemAt(q).is = kind /\ CurrentEnvelopeItem(w) = ItemAt(q)
  BY DEF AtItem, ItemAt, CurrentEnvelopeItem

LEMMA SkipTransactionKeeps ==
  ASSUME WorkShape, ItemInv, NEW w \in ItemWorker, SkipTransaction(w)
  PROVE  ItemInv'
<1>1. PICK q : q = itemWork[w]
  OBVIOUS
<1>2. /\ q.step = "begin" /\ q.item <= Len(ItemsInOrder[q.envelope])
      /\ ItemAt(q).is = "transaction" /\ ~ ItemAt(q).parses
  BY <1>1, AtItemIs DEF SkipTransaction
<1>3. Stored(q.envelope, q.item)
  BY <1>2 DEF Stored, ItemAt
<1>4. /\ NextItem(w)
      /\ UNCHANGED <<itemState, itemEvents, eventTags, tagValues, hourCounts, groupStats,
                     transactions>>
  BY DEF SkipTransaction, itemTables
<1> QED BY <1>1, <1>2, <1>3, <1>4, PassedOver

LEMMA InsertReportKeeps ==
  ASSUME WorkShape, ItemInv, NEW w \in ItemWorker, InsertReport(w)
  PROVE  ItemInv'
<1>1. PICK q : q = itemWork[w]
  OBVIOUS
<1>2. /\ q.step = "begin" /\ q.item <= Len(ItemsInOrder[q.envelope])
      /\ ItemAt(q).is = "user_report"
  BY <1>1, AtItemIs DEF InsertReport
<1>3. Stored(q.envelope, q.item)
  BY <1>2 DEF Stored, ItemAt
<1>4. /\ NextItem(w)
      /\ UNCHANGED <<itemState, itemEvents, eventTags, tagValues, hourCounts, groupStats,
                     transactions>>
  BY DEF InsertReport, itemTables
<1> QED BY <1>1, <1>2, <1>3, <1>4, PassedOver

LEMMA IdleIsQuiet ==
  ASSUME NEW q
  PROVE  IdleWork.step = "idle" /\ QuietEvent(q, IdleWork) /\ QuietTransaction(q, IdleWork)
  BY DEF IdleWork, QuietEvent, QuietTransaction, InEvent, InTransaction

\* A worker's envelope changes its state.
LEMMA StateWritten ==
  ASSUME ItemInv, NEW e \in ItemEnvelope, NEW row, DOMAIN row = {"state", "attempts"},
         itemState' = [itemState EXCEPT ![e] = row]
  PROVE  /\ StatesTyped' /\ itemState'[e] = row
         /\ \A x \in ItemEnvelope \ {e} : itemState'[x] = itemState[x]
  BY DEF ItemInv, StatesTyped

LEMMA FailEnvelopeKeeps ==
  ASSUME WorkShape, ItemInv, NEW w \in ItemWorker, itemWork[w].step # "idle", FailEnvelope(w),
         UNCHANGED <<itemEvents, eventTags, tagValues, hourCounts, groupStats, transactions>>
  PROVE  ItemInv'
<1>1. PICK q : q = itemWork[w]
  OBVIOUS
<1>2. q.envelope \in ItemEnvelope
  BY <1>1, PlaceOf DEF ItemInv
<1>3. PICK row : /\ DOMAIN row = {"state", "attempts"} /\ row.state # "done"
                 /\ itemState' = [itemState EXCEPT ![q.envelope] = row]
  <2>1. PICK row : /\ row = [state |-> IF itemState[q.envelope].attempts + 1 >= MaxItemAttempts
                                       THEN "dead" ELSE "failed",
                             attempts |-> itemState[q.envelope].attempts + 1]
                   /\ itemState' = [itemState EXCEPT ![q.envelope] = row]
    BY <1>1 DEF FailEnvelope
  <2>2. DOMAIN row = {"state", "attempts"} /\ row.state # "done"
    BY <2>1
  <2> QED BY <2>1, <2>2
<1>4. /\ StatesTyped' /\ itemState'[q.envelope] = row
      /\ \A x \in ItemEnvelope \ {q.envelope} : itemState'[x] = itemState[x]
  BY <1>2, <1>3, StateWritten
<1>5. StatesStay(w)
  <2>1. SUFFICES ASSUME NEW v \in ItemWorker \ {w}, itemWork[v].step # "idle"
                 PROVE  itemState'[itemWork[v].envelope].state = itemState[itemWork[v].envelope].state
    BY DEF StatesStay
  <2>2. itemWork[v].envelope \in ItemEnvelope /\ itemWork[v].envelope # q.envelope
    BY <1>1, <2>1, PlaceOf DEF ItemInv, PlacesInv, Apart
  <2> QED BY <1>4, <2>2
<1>6. DoneAreStored
  BY <1>3, <1>4 DEF DoneAreStored
<1>7. Moves(w, IdleWork)
  BY DEF FailEnvelope, Moves
<1> QED BY <1>4, <1>5, <1>6, <1>7, IdleIsQuiet, QuietItemStep

LEMMA StatementFailsKeeps ==
  ASSUME WorkShape, ItemInv, NEW w \in ItemWorker, StatementFails(w)
  PROVE  ItemInv'
<1>1. FailEnvelope(w) /\ UNCHANGED itemTables
  BY DEF StatementFails
<1>2. itemWork[w].step # "idle"
  BY DEF StatementFails, AtItem
<1>3. UNCHANGED <<itemEvents, eventTags, tagValues, hourCounts, groupStats, transactions>>
  BY <1>1 DEF itemTables
<1> QED BY <1>1, <1>2, <1>3, FailEnvelopeKeeps

LEMMA FinishEnvelopeKeeps ==
  ASSUME WorkShape, ItemInv, NEW w \in ItemWorker, FinishEnvelope(w)
  PROVE  ItemInv'
<1>1. PICK q : q = itemWork[w]
  OBVIOUS
<1>2. /\ q.step = "begin" /\ q.item > Len(ItemsInOrder[q.envelope])
      /\ itemState' = [itemState EXCEPT ![q.envelope].state = "done"]
      /\ Moves(w, IdleWork)
      /\ UNCHANGED <<itemEvents, eventTags, tagValues, hourCounts, groupStats, transactions>>
  BY <1>1 DEF FinishEnvelope, itemTables, Moves
<1>3. /\ q.envelope \in ItemEnvelope /\ q.item \in Nat
      /\ \A i \in 1..(q.item - 1) : Stored(q.envelope, i)
  BY <1>1, <1>2, PlaceOf DEF ItemInv
<1>4. AllStored(q.envelope)
  <2>1. Len(ItemsInOrder[q.envelope]) \in Nat
    BY <1>3, ItemsAre
  <2>2. \A i \in 1..Len(ItemsInOrder[q.envelope]) : i \in 1..(q.item - 1)
    BY <1>2, <1>3, <2>1
  <2> QED BY <1>3, <2>2 DEF AllStored
<1>5. PICK row : row = [itemState[q.envelope] EXCEPT !.state = "done"]
  OBVIOUS
<1>6. DOMAIN row = {"state", "attempts"}
  BY <1>3, <1>5 DEF ItemInv, StatesTyped
<1>7. itemState' = [itemState EXCEPT ![q.envelope] = row]
  BY <1>2, <1>5
<1>8. /\ StatesTyped'
      /\ \A x \in ItemEnvelope \ {q.envelope} : itemState'[x] = itemState[x]
  BY <1>3, <1>6, <1>7, StateWritten
<1>9. StatesStay(w)
  <2>1. SUFFICES ASSUME NEW v \in ItemWorker \ {w}, itemWork[v].step # "idle"
                 PROVE  itemState'[itemWork[v].envelope].state = itemState[itemWork[v].envelope].state
    BY DEF StatesStay
  <2>2. itemWork[v].envelope \in ItemEnvelope /\ itemWork[v].envelope # q.envelope
    BY <1>1, <1>2, <2>1, PlaceOf DEF ItemInv, PlacesInv, Apart
  <2> QED BY <1>8, <2>2
<1>10. DoneAreStored
  BY <1>4, <1>8 DEF DoneAreStored
<1> QED BY <1>2, <1>8, <1>9, <1>10, IdleIsQuiet, QuietItemStep

LEMMA TakeEnvelopeKeeps ==
  ASSUME WorkShape, ItemInv, NEW w \in ItemWorker, NEW e \in ItemEnvelope, TakeEnvelope(w, e)
  PROVE  ItemInv'
<1>1. PICK r : r = [step |-> "begin", envelope |-> e, item |-> 1, tag |-> 1, recount |-> {}]
  OBVIOUS
<1>2. r.step = "begin" /\ r.envelope = e /\ r.item = 1 /\ r.tag = 1 /\ DOMAIN r = WorkFields
  BY <1>1 DEF WorkFields
<1>3. /\ itemState' = [itemState EXCEPT ![e].state = "processing"]
      /\ Moves(w, r) /\ \A v \in ItemWorker : ~ Working(v, e)
      /\ UNCHANGED <<itemEvents, eventTags, tagValues, hourCounts, groupStats, transactions>>
  BY <1>1 DEF TakeEnvelope, itemTables, Moves
<1>4. PICK row : row = [itemState[e] EXCEPT !.state = "processing"]
  OBVIOUS
<1>5. DOMAIN row = {"state", "attempts"} /\ row.state = "processing"
  BY <1>4 DEF ItemInv, StatesTyped
<1>6. itemState' = [itemState EXCEPT ![e] = row]
  BY <1>3, <1>4
<1>7. /\ StatesTyped' /\ itemState'[e] = row
      /\ \A x \in ItemEnvelope \ {e} : itemState'[x] = itemState[x]
  BY <1>5, <1>6, StateWritten
<1>8. StatesStay(w)
  <2>1. SUFFICES ASSUME NEW v \in ItemWorker \ {w}, itemWork[v].step # "idle"
                 PROVE  itemState'[itemWork[v].envelope].state = itemState[itemWork[v].envelope].state
    BY DEF StatesStay
  <2>2. itemWork[v].envelope \in ItemEnvelope /\ itemWork[v].envelope # e
    BY <1>3, <2>1, PlaceOf DEF ItemInv, Working
  <2> QED BY <1>7, <2>2
<1>9. DoneAreStored
  BY <1>5, <1>7 DEF DoneAreStored
<1>10. ~ InEvent(r) /\ ~ InTransaction(r)
  BY <1>2 DEF InEvent, InTransaction
<1>11. PlaceOK(r)
  BY <1>2, <1>10, ItemsAre DEF PlaceOK
<1>12. Ready(r)
  BY <1>2, <1>5, <1>7, <1>10, <1>11 DEF Ready
<1>13. ApartFromOthers(w, r)
  BY <1>2, <1>3, <1>10 DEF ApartFromOthers, Apart, Working
<1>14. QuietEvent(itemWork[w], r) /\ QuietTransaction(itemWork[w], r)
  BY <1>10 DEF QuietEvent, QuietTransaction
<1> QED BY <1>3, <1>7, <1>8, <1>9, <1>12, <1>13, <1>14, QuietItemStep

\* A place in the same item of the same envelope.
LEMMA SamePlaceKeeps ==
  ASSUME WorkShape, ItemInv, NEW w \in ItemWorker, NEW q, q = itemWork[w],
         NEW r, Moves(w, r), PlaceOK(r), InEvent(q), InEvent(r),
         r.envelope = q.envelope, r.item = q.item,
         RowsFor(IdAt(r), TagsAt(r), TagsWritten(r)) = RowsFor(IdAt(q), TagsAt(q), TagsWritten(q)),
         QuietEvent(q, r),
         UNCHANGED <<itemState, itemEvents, eventTags, tagValues, hourCounts, groupStats,
                     transactions>>
  PROVE  ItemInv'
<1>1. /\ itemState[q.envelope].state = "processing" /\ WrittenBy(q)
      /\ \A i \in 1..(q.item - 1) : Stored(q.envelope, i)
  BY PlaceOf DEF ItemInv, InEvent
<1>2. ItemAt(r) = ItemAt(q) /\ IdAt(r) = IdAt(q)
  BY DEF ItemAt, IdAt
<1>3. WrittenBy(r)
  BY <1>1, <1>2 DEF WrittenBy
<1>4. Ready(r)
  BY <1>1, <1>3 DEF Ready
<1>5. ApartFromOthers(w, r)
  BY <1>2, SameEnvelope DEF ItemInv, InEvent
<1>6. QuietTransaction(q, r)
  BY DEF QuietTransaction, InTransaction, InEvent
<1>7. StatesTyped' /\ StatesStay(w) /\ DoneAreStored
  BY DEF ItemInv, StatesTyped, StatesStay, DoneAreStored
<1> QED BY <1>4, <1>5, <1>6, <1>7, QuietItemStep

LEMMA RecountKeyKeeps ==
  ASSUME WorkShape, ItemInv, NEW w \in ItemWorker, NEW key, RecountKey(w, key)
  PROVE  ItemInv'
<1>1. PICK q : q = itemWork[w]
  OBVIOUS
<1>2. PICK r : r = [q EXCEPT !.recount = q.recount \ {key}]
  OBVIOUS
<1>3. /\ q.step = "values" /\ Moves(w, r)
      /\ UNCHANGED <<itemState, itemEvents, eventTags, tagValues, hourCounts, groupStats,
                     transactions>>
  BY <1>1, <1>2 DEF RecountKey, Moves
<1>4. PlaceOK(q) /\ DOMAIN q = WorkFields
  BY <1>1, <1>3, PlaceOf DEF ItemInv, PlaceOK
<1>5. /\ r.step = q.step /\ r.envelope = q.envelope /\ r.item = q.item /\ r.tag = q.tag
      /\ DOMAIN r = WorkFields
  BY <1>2, <1>4 DEF WorkFields
<1>6. PlaceOK(r) /\ InEvent(q) /\ InEvent(r)
  BY <1>3, <1>4, <1>5 DEF PlaceOK, InEvent, InTransaction, ItemAt, TagsAt
<1>7. RowsFor(IdAt(r), TagsAt(r), TagsWritten(r)) = RowsFor(IdAt(q), TagsAt(q), TagsWritten(q))
  BY <1>5 DEF IdAt, ItemAt, TagsAt, TagsWritten
<1>8. QuietEvent(q, r)
  BY <1>3, <1>5, <1>6 DEF QuietEvent, IdAt, ItemAt, YetToCount, TagsAt
<1> QED BY <1>1, <1>3, <1>5, <1>6, <1>7, <1>8, SamePlaceKeeps

LEMMA ItemCrashKeeps ==
  ASSUME WorkShape, ItemInv, ItemCrash
  PROVE  ItemInv'
<1>1. /\ itemWork' = [w \in ItemWorker |-> IdleWork] /\ itemState' = itemState
      /\ UNCHANGED <<itemEvents, eventTags, tagValues, hourCounts, groupStats, transactions>>
  BY DEF ItemCrash, itemTables
<1>2. \A w \in ItemWorker : itemWork'[w].step = "idle"
  BY <1>1 DEF IdleWork
<1>3. QuietEvents /\ QuietTransactions
  BY <1>2 DEF QuietEvents, QuietTransactions, QuietEvent, QuietTransaction, InEvent, InTransaction
<1>4. TablesGrow /\ RowsTyped'
  BY <1>1, <1>3, QuietTables DEF ItemInv
<1>5. DoneStored'
  BY <1>1, <1>4, DoneStays DEF ItemInv
<1>6. PlacesInv'
  BY <1>2 DEF PlacesInv
<1>7. StatesTyped'
  BY <1>1 DEF ItemInv, StatesTyped
<1>8. CountsInv' /\ GroupsInv'
  BY <1>1, <1>3, CountsStay, GroupsStay DEF ItemInv
<1> QED BY <1>4, <1>5, <1>6, <1>7, <1>8 DEF ItemInv

LEMMA PruneHoursKeeps ==
  ASSUME WorkShape, ItemInv, NEW cutoff, PruneHours(cutoff)
  PROVE  ItemInv'
<1>1. PICK S : S = {h \in DOMAIN hourCounts : h >= cutoff}
  OBVIOUS
<1>2. /\ hourCounts' = [h \in S |-> hourCounts[h]]
      /\ UNCHANGED <<itemState, itemWork, itemEvents, eventTags, tagValues, groupStats, transactions>>
  BY <1>1 DEF PruneHours, Restrict
<1>3. QuietEvents /\ QuietTransactions
  BY <1>2 DEF QuietEvents, QuietTransactions, QuietEvent, QuietTransaction
<1>4. \A id : Open(id)' = Open(id)
  BY <1>2 DEF Open
<1>5. Closed' = Closed /\ \A id : RowsOf(id)' = RowsOf(id)
  BY <1>2, <1>4 DEF Closed, RowsOf
<1>6. \A e, i : Stored(e, i)' = Stored(e, i)
  BY <1>2, <1>5 DEF Stored, StoredEvent, StoredTransaction
<1>7. \A q : Progress(q) => Progress(q)'
  BY <1>2, <1>5, <1>6 DEF Progress, WrittenBy
<1>8. PlacesInv'
  BY <1>2, <1>7 DEF ItemInv, PlacesInv
<1>9. StatesTyped' /\ DoneStored' /\ RowsTyped'
  BY <1>2, <1>6 DEF ItemInv, StatesTyped, DoneStored, AllStored, RowsTyped
<1>10. GroupsInv'
  BY <1>2, <1>3, GroupsStay DEF ItemInv
<1>11. \A t : CountedRows(t)' = CountedRows(t)
  <2>1. \A r : Owed(r)' = Owed(r)
    BY <1>2 DEF Owed
  <2> QED BY <1>2, <2>1 DEF CountedRows
<1>12. SumOver(hourCounts', DOMAIN hourCounts') <= Cardinality(Closed')
  <2>1. PICK f, D, n : f = hourCounts /\ D = DOMAIN hourCounts /\ n = Cardinality(Closed)
    OBVIOUS
  <2>2. S \subseteq D /\ IsFiniteSet(D) /\ (\A h \in D : f[h] \in Nat) /\ SumOver(f, D) <= n
    BY <1>1, <2>1 DEF ItemInv, CountsInv
  <2>3. SumOver(f, S) \in Nat /\ SumOver(f, D) \in Nat /\ SumOver(f, S) <= SumOver(f, D)
    BY <2>2, FewerUnits
  <2>4. n \in Nat
    <3>1. Closed \in SUBSET itemEvents /\ IsFiniteSet(itemEvents)
      BY DEF Closed, ItemInv, RowsTyped
    <3> QED BY <2>1, <3>1, FS_Subset, FS_CardinalityType
  <2>5. SumOver(f, S) <= n
    BY <2>2, <2>3, <2>4
  <2>6. DOMAIN hourCounts' = S /\ \A h \in S : hourCounts'[h] = f[h]
    BY <1>2, <2>1
  <2>7. SumOver(hourCounts', S) = SumOver(f, S)
    BY <2>6, UnitsAgree
  <2> QED BY <1>5, <2>1, <2>5, <2>6, <2>7
<1>13. CountsInv'
  <2>1. S \in SUBSET DOMAIN hourCounts /\ IsFiniteSet(S) /\ DOMAIN hourCounts' = S
    <3>1. S \in SUBSET DOMAIN hourCounts /\ IsFiniteSet(DOMAIN hourCounts)
      BY <1>1 DEF ItemInv, CountsInv
    <3> QED BY <1>2, <3>1, FS_Subset
  <2>2. \A h \in DOMAIN hourCounts' : hourCounts'[h] \in Nat
    BY <1>2, <2>1 DEF ItemInv, CountsInv
  <2>3. \A t \in DOMAIN tagValues' :
          tagValues'[t] \in Nat /\ tagValues'[t] <= Cardinality(CountedRows(t)')
    BY <1>2, <1>11 DEF ItemInv, CountsInv
  <2> QED BY <1>12, <2>1, <2>2, <2>3 DEF CountsInv, SumOver
<1> QED BY <1>8, <1>9, <1>10, <1>13 DEF ItemInv

\* A worker writes in its event.
LEMMA EventStep ==
  ASSUME WorkShape, ItemInv, NEW w \in ItemWorker, NEW r, Moves(w, r),
         TablesGrow, OthersStay(w), QuietTransaction(itemWork[w], r),
         UNCHANGED <<itemState, groupStats, transactions>>,
         Progress(r)', ApartFromOthers(w, r), RowsTyped', CountsInv'
  PROVE  ItemInv'
<1>1. PlacesInv'
  BY PlacesStep DEF ItemInv
<1>2. GroupsInv'
  BY QuietMove, GroupsStay DEF ItemInv
<1>3. StatesTyped'
  BY DEF ItemInv, StatesTyped
<1>4. DoneStored'
  BY DoneStays DEF ItemInv
<1> QED BY <1>1, <1>2, <1>3, <1>4 DEF ItemInv

\* What is not yet written has no rows.
LEMMA NewEventStored ==
  ASSUME WorkShape, ItemInv, NEW w \in ItemWorker, NEW q, q = itemWork[w], q.step = "begin",
         q.item <= Len(ItemsInOrder[q.envelope]), ItemAt(q).is = "event",
         IdAt(q) \notin itemEvents,
         itemEvents' = itemEvents \cup {IdAt(q)},
         itemWork' = [itemWork EXCEPT ![w].step = "tags"],
         UNCHANGED <<itemState, eventTags, tagValues, hourCounts, groupStats, transactions>>
  PROVE  ItemInv'
<1>1. PICK r : r = [q EXCEPT !.step = "tags"]
  OBVIOUS
<1>2. Moves(w, r)
  BY <1>1 DEF Moves
<1>3. /\ PlaceOK(q) /\ itemState[q.envelope].state = "processing"
      /\ \A i \in 1..(q.item - 1) : Stored(q.envelope, i)
  BY PlaceOf DEF ItemInv
<1>4. /\ r.step = "tags" /\ r.envelope = q.envelope /\ r.item = q.item /\ r.tag = 1
      /\ DOMAIN r = WorkFields
  BY <1>1, <1>3 DEF PlaceOK, WorkFields
<1>5. ItemAt(r) = ItemAt(q) /\ IdAt(r) = IdAt(q) /\ TagsAt(r) = TagsAt(q)
  BY <1>4 DEF ItemAt, IdAt, TagsAt
<1>6. InEvent(r) /\ ~ InTransaction(r) /\ ~ InEvent(q)
  BY <1>4 DEF InEvent, InTransaction
<1>7. q.envelope \in ItemEnvelope /\ q.item \in 1..Len(ItemsInOrder[q.envelope])
  BY <1>3, ItemsAre DEF PlaceOK
<1>8. Len(TagsAt(r)) \in Nat
  BY <1>5, <1>7, TagsAre DEF TagsAt, ItemAt
<1>9. PlaceOK(r)
  BY <1>3, <1>4, <1>5, <1>6, <1>8 DEF PlaceOK
<1>10. itemWork'[w] = r /\ \A v \in ItemWorker \ {w} : itemWork'[v] = itemWork[v]
  BY <1>2, OnlyOneMoves
<1>11. \A id \in itemEvents : Open(id)' => Open(id)
  BY <1>5, <1>10 DEF Open
<1>12. \A id : RowsOf(id)' = RowsOf(id)
  BY DEF RowsOf
<1>13. TablesGrow
  BY <1>11, <1>12 DEF TablesGrow
<1>14. OthersStay(w)
  BY <1>12 DEF OthersStay
<1>15. WrittenBy(r)'
  <2>1. RowsOf(IdAt(q)) = {}
    BY DEF RowsOf, ItemInv, RowsTyped
  <2>2. TagsWritten(r) = 0
    BY <1>4 DEF TagsWritten
  <2>3. RowsFor(IdAt(r), TagsAt(r), 0) = {}
    BY DEF RowsFor
  <2>4. IdAt(r) \in itemEvents' /\ RowsOf(IdAt(r))' = {}
    BY <1>5, <1>12, <2>1
  <2> QED BY <2>2, <2>3, <2>4 DEF WrittenBy
<1>16. Progress(r)'
  <2>1. \A i \in 1..(r.item - 1) : Stored(r.envelope, i)'
    BY <1>3, <1>4, <1>13, StoredStays
  <2>2. itemState'[r.envelope].state = "processing"
    BY <1>3, <1>4
  <2> QED BY <1>9, <1>15, <2>1, <2>2 DEF Progress
<1>17. ApartFromOthers(w, r)
  <2>1. SUFFICES ASSUME NEW v \in ItemWorker \ {w}, NEW p, p = itemWork[v], p.step # "idle"
                 PROVE  Apart(p, r)
    BY DEF ApartFromOthers
  <2>2. p.envelope # q.envelope
    BY <2>1 DEF ItemInv, PlacesInv, Apart
  <2>3. InEvent(p) => IdAt(p) \in itemEvents
    BY <2>1, PlaceOf DEF ItemInv, WrittenBy
  <2> QED BY <1>4, <1>5, <2>2, <2>3 DEF Apart
<1>18. RowsTyped'
  BY FS_AddElement DEF ItemInv, RowsTyped
<1>19. \A x \in eventTags : Owed(x)' => Owed(x)
  <2>1. \A x \in eventTags : x[1] # IdAt(r)
    BY <1>5 DEF ItemInv, RowsTyped
  <2> QED BY <1>10, <2>1 DEF Owed
<1>20. \A t : CountedRows(t) \subseteq CountedRows(t)'
  BY <1>19 DEF CountedRows
<1>21. Closed \subseteq Closed'
  BY <1>11 DEF Closed
<1>22. CountsInv'
  BY <1>18, <1>20, <1>21, CountsKept DEF ItemInv, RowsTyped
<1> QED BY <1>2, <1>6, <1>13, <1>14, <1>16, <1>17, <1>18, <1>22, EventStep DEF QuietTransaction

LEMMA InsertEventKeeps ==
  ASSUME WorkShape, ItemInv, NEW w \in ItemWorker, InsertEvent(w)
  PROVE  ItemInv'
<1>1. PICK q : q = itemWork[w]
  OBVIOUS
<1>2. /\ q.step = "begin" /\ q.item <= Len(ItemsInOrder[q.envelope])
      /\ ItemAt(q).is = "event" /\ CurrentEnvelopeItem(w) = ItemAt(q)
  BY <1>1, AtItemIs DEF InsertEvent
<1>3. UNCHANGED <<eventTags, tagValues, hourCounts, groupStats, transactions>>
  BY DEF InsertEvent
<1>4. CASE FailEnvelope(w) /\ UNCHANGED itemEvents
  BY <1>1, <1>2, <1>3, <1>4, FailEnvelopeKeeps
<1>5. CASE /\ IdAt(q) \notin itemEvents /\ itemEvents' = itemEvents \cup {IdAt(q)}
           /\ itemWork' = [itemWork EXCEPT ![w].step = "tags"] /\ UNCHANGED itemState
  BY <1>1, <1>2, <1>3, <1>5, NewEventStored
<1> QED BY <1>2, <1>4, <1>5 DEF InsertEvent, IdAt

\* The next rows of an event.
LEMMA LeastOfTwo ==
  ASSUME NEW a \in Int, NEW b \in Int
  PROVE  Min({a, b}) \in {a, b} /\ Min({a, b}) <= a /\ Min({a, b}) <= b
<1>1. Min({a, b}) = CHOOSE x \in {a, b} : \A y \in {a, b} : x <= y
  BY DEF Min
<1>2. \E x \in {a, b} : \A y \in {a, b} : x <= y
  <2>1. CASE a <= b
    BY <2>1
  <2>2. CASE ~ (a <= b)
    BY <2>2
  <2> QED BY <2>1, <2>2
<1> QED BY <1>1, <1>2

LEMMA GreatestOfTwo ==
  ASSUME NEW a \in Int, NEW b \in Int
  PROVE  Max({a, b}) \in {a, b} /\ a <= Max({a, b}) /\ b <= Max({a, b})
<1>1. Max({a, b}) = CHOOSE x \in {a, b} : \A y \in {a, b} : x >= y
  BY DEF Max
<1>2. \E x \in {a, b} : \A y \in {a, b} : x >= y
  <2>1. CASE a <= b
    BY <2>1
  <2>2. CASE ~ (a <= b)
    BY <2>2
  <2> QED BY <2>1, <2>2
<1> QED BY <1>1, <1>2

LEMMA RowsFinite ==
  ASSUME NEW id, NEW tags, NEW n \in Nat
  PROVE  IsFiniteSet(RowsFor(id, tags, n))
<1>1. PICK row, T : /\ row = [i \in 1..n |-> <<id, tags[i][1], tags[i][2]>>]
                    /\ T = {<<id, tags[i][1], tags[i][2]>> : i \in 1..n}
  OBVIOUS
<1>2. row \in Surjection(1..n, T)
  BY <1>1 DEF Surjection
<1>3. IsFiniteSet(1..n)
  BY FS_Interval
<1>4. IsFiniteSet(T)
  BY <1>2, <1>3, FS_Surjection
<1> QED BY <1>1, <1>4 DEF RowsFor

LEMMA RowsWritten ==
  ASSUME WorkShape, ItemInv, NEW w \in ItemWorker, NEW q, q = itemWork[w], q.step = "tags",
         NEW last \in Nat, q.tag - 1 <= last, last <= Len(TagsAt(q)),
         eventTags' = eventTags \cup
           {<<IdAt(q), TagsAt(q)[i][1], TagsAt(q)[i][2]>> : i \in q.tag..last},
         NEW r, Moves(w, r), DOMAIN r = WorkFields, r.envelope = q.envelope, r.item = q.item,
         r.step \in {"tags", "values"}, r.tag \in 1..(Len(TagsAt(q)) + 1),
         TagsWritten(r) = last,
         UNCHANGED <<itemState, itemEvents, tagValues, hourCounts, groupStats, transactions>>
  PROVE  ItemInv'
<1>1. PICK id, tags, t : id = IdAt(q) /\ tags = TagsAt(q) /\ t = q.tag
  OBVIOUS
<1>2. /\ PlaceOK(q) /\ itemState[q.envelope].state = "processing" /\ InEvent(q) /\ WrittenBy(q)
      /\ \A i \in 1..(q.item - 1) : Stored(q.envelope, i)
  BY PlaceOf DEF ItemInv, InEvent
<1>3. t \in Nat \ {0} /\ Len(tags) \in Nat
  <2>1. q.envelope \in ItemEnvelope /\ q.item \in 1..Len(ItemsInOrder[q.envelope])
    BY <1>2, ItemsAre DEF PlaceOK
  <2>2. Len(tags) \in Nat
    BY <1>1, <1>2, <2>1, TagsAre DEF TagsAt, ItemAt, PlaceOK
  <2> QED BY <1>1, <1>2, <2>2 DEF PlaceOK
<1>4. RowsOf(id) = RowsFor(id, tags, t - 1) /\ id \in itemEvents
  BY <1>1, <1>2 DEF WrittenBy, TagsWritten
<1>5. ItemAt(r) = ItemAt(q) /\ IdAt(r) = id /\ TagsAt(r) = tags
  BY <1>1 DEF ItemAt, IdAt, TagsAt
<1>6. InEvent(r) /\ ~ InTransaction(r)
  BY DEF InEvent, InTransaction
<1>7. PlaceOK(r)
  BY <1>1, <1>2, <1>3, <1>5, <1>6 DEF PlaceOK
<1>8. PICK new : new = {<<id, tags[i][1], tags[i][2]>> : i \in t..last}
  OBVIOUS
<1>9. eventTags' = eventTags \cup new /\ \A x \in new : x[1] = id
  BY <1>1, <1>8
<1>10. \A other : other # id => RowsOf(other)' = RowsOf(other)
  BY <1>9 DEF RowsOf
<1>11. RowsOf(id)' = RowsFor(id, tags, last)
  <2>1. RowsOf(id)' = RowsOf(id) \cup new
    BY <1>9 DEF RowsOf
  <2>2. 1..last = (1..(t - 1)) \cup (t..last)
    BY <1>1, <1>3
  <2>3. RowsFor(id, tags, last) = RowsFor(id, tags, t - 1) \cup new
    BY <1>8, <2>2 DEF RowsFor
  <2> QED BY <1>4, <2>1, <2>3
<1>12. itemWork'[w] = r /\ \A v \in ItemWorker \ {w} : itemWork'[v] = itemWork[v]
  BY OnlyOneMoves
<1>13. \A x : Open(x)' => Open(x)
  BY <1>1, <1>2, <1>5, <1>12 DEF Open
<1>14. TablesGrow
  <2>1. Open(id)
    BY <1>1, <1>2 DEF Open
  <2>2. \A x \in Closed : x # id
    BY <2>1 DEF Closed
  <2> QED BY <1>10, <1>13, <2>2 DEF TablesGrow
<1>15. OthersStay(w)
  <2>1. ASSUME NEW v \in ItemWorker \ {w}, NEW p, p = itemWork[v], p.step # "idle", InEvent(p)
        PROVE  RowsOf(IdAt(p))' = RowsOf(IdAt(p))
    <3>1. IdAt(p) # id
      BY <1>1, <1>2, <2>1 DEF ItemInv, PlacesInv, Apart
    <3> QED BY <1>10, <3>1
  <2> QED BY <2>1 DEF OthersStay
<1>16. ApartFromOthers(w, r)
  BY <1>1, <1>2, <1>5, SameEnvelope DEF ItemInv, InEvent
<1>17. Progress(r)'
  <2>1. \A i \in 1..(r.item - 1) : Stored(r.envelope, i)'
    BY <1>2, <1>14, StoredStays
  <2>2. itemState'[r.envelope].state = "processing"
    BY <1>2
  <2>3. WrittenBy(r)'
    BY <1>4, <1>5, <1>11 DEF WrittenBy
  <2> QED BY <1>7, <2>1, <2>2, <2>3 DEF Progress
<1>18. RowsTyped'
  <2>1. IsFiniteSet(RowsFor(id, tags, last))
    BY RowsFinite
  <2>2. eventTags' = eventTags \cup RowsFor(id, tags, last)
    <3>1. \A x \in RowsFor(id, tags, last) : x \in eventTags'
      BY <1>11 DEF RowsOf
    <3>2. \A x \in new : x \in RowsFor(id, tags, last)
      BY <1>3, <1>8 DEF RowsFor
    <3> QED BY <1>9, <3>1, <3>2
  <2>3. IsFiniteSet(eventTags')
    <3>1. PICK R : R = RowsFor(id, tags, last)
      OBVIOUS
    <3>2. IsFiniteSet(eventTags) /\ IsFiniteSet(R)
      BY <2>1, <3>1 DEF ItemInv, RowsTyped
    <3>3. IsFiniteSet(eventTags \cup R)
      BY ONLY <3>2, FS_Union
    <3> QED BY <2>2, <3>1, <3>3
  <2>4. \A x \in new : x[1] \in itemEvents /\ x = <<x[1], x[2], x[3]>>
    BY <1>4, <1>8
  <2> QED BY <1>9, <2>3, <2>4 DEF ItemInv, RowsTyped
<1>19. CountsInv'
  <2>1. \A x \in eventTags : Owed(x)' => Owed(x)
    <3>1. \A x : x[1] = id => Owed(x)
      BY <1>1, <1>2 DEF Owed, YetToCount
    <3>2. \A x : x[1] # id /\ Owed(x)' => Owed(x)
      BY <1>5, <1>12 DEF Owed
    <3> QED BY <3>1, <3>2
  <2>2. \A x : CountedRows(x) \subseteq CountedRows(x)'
    BY <1>9, <2>1 DEF CountedRows
  <2>3. Closed \subseteq Closed'
    BY <1>13 DEF Closed
  <2> QED BY <1>18, <2>2, <2>3, CountsKept DEF ItemInv, RowsTyped
<1> QED BY <1>6, <1>14, <1>15, <1>16, <1>17, <1>18, <1>19, EventStep DEF QuietTransaction

LEMMA InsertTagsKeeps ==
  ASSUME WorkShape, ItemInv, NEW w \in ItemWorker, InsertTags(w)
  PROVE  ItemInv'
<1>1. PICK q, tags, t : q = itemWork[w] /\ tags = TagsAt(q) /\ t = q.tag
  OBVIOUS
<1>2. q.step = "tags" /\ CurrentTags(w) = tags /\ CurrentEnvelopeItem(w).event.id = IdAt(q)
  BY <1>1 DEF InsertTags, CurrentTags, TagsAt, CurrentEnvelopeItem, IdAt, ItemAt
<1>3. PlaceOK(q) /\ DOMAIN q = WorkFields /\ t \in Nat \ {0} /\ Len(tags) \in Nat /\ t <= Len(tags) + 1
  <2>1. PlaceOK(q)
    BY <1>1, <1>2, PlaceOf DEF ItemInv
  <2>2. q.envelope \in ItemEnvelope /\ q.item \in 1..Len(ItemsInOrder[q.envelope])
    BY <1>2, <2>1, ItemsAre DEF PlaceOK, InEvent
  <2>3. Len(tags) \in Nat
    BY <1>1, <1>2, <2>1, <2>2, TagsAre DEF TagsAt, ItemAt, PlaceOK, InEvent
  <2> QED BY <1>1, <1>2, <2>1, <2>3 DEF PlaceOK, InEvent
<1>4. PICK a, b : a = t + TagChunk - 1 /\ b = Len(tags)
  OBVIOUS
<1>5. a \in Int /\ b \in Int /\ t <= a /\ t <= b + 1
  BY <1>3, <1>4, ItemAssumption DEF ItemAssumption
<1>6. PICK last : last = Min({a, b})
  OBVIOUS
<1>7. last \in {a, b} /\ last <= a /\ last <= b
  BY <1>5, <1>6, LeastOfTwo
<1>8. last \in Nat /\ t - 1 <= last /\ last <= Len(tags)
  BY <1>3, <1>4, <1>5, <1>7
<1>9. /\ eventTags' = eventTags \cup {<<IdAt(q), tags[i][1], tags[i][2]>> : i \in t..last}
      /\ itemWork' = IF last = Len(tags)
                     THEN [itemWork EXCEPT ![w].step = "values", ![w].tag = 1]
                     ELSE [itemWork EXCEPT ![w].tag = last + 1]
      /\ UNCHANGED <<itemState, itemEvents, tagValues, hourCounts, groupStats, transactions>>
  BY <1>1, <1>2, <1>4, <1>6 DEF InsertTags
<1>10. CASE last = Len(tags)
  <2>1. PICK r : r = [q EXCEPT !.step = "values", !.tag = 1]
    OBVIOUS
  <2>2. Moves(w, r)
    BY <1>1, <1>9, <1>10, <2>1 DEF Moves
  <2>3. /\ r.step = "values" /\ r.envelope = q.envelope /\ r.item = q.item /\ r.tag = 1
        /\ DOMAIN r = WorkFields
    BY <1>3, <2>1 DEF WorkFields
  <2>4. TagsWritten(r) = last
    BY <1>1, <1>10, <2>3 DEF TagsWritten, TagsAt
  <2>5. r.tag \in 1..(Len(tags) + 1)
    BY <1>3, <2>3
  <2> QED BY <1>1, <1>2, <1>8, <1>9, <2>2, <2>3, <2>4, <2>5, RowsWritten
<1>11. CASE last # Len(tags)
  <2>1. PICK r : r = [q EXCEPT !.tag = last + 1]
    OBVIOUS
  <2>2. Moves(w, r)
    BY <1>1, <1>9, <1>11, <2>1 DEF Moves
  <2>3. /\ r.step = "tags" /\ r.envelope = q.envelope /\ r.item = q.item /\ r.tag = last + 1
        /\ DOMAIN r = WorkFields
    BY <1>2, <1>3, <2>1 DEF WorkFields
  <2>4. TagsWritten(r) = last
    BY <1>8, <2>3 DEF TagsWritten
  <2>5. r.tag \in 1..(Len(tags) + 1)
    BY <1>3, <1>8, <2>3
  <2> QED BY <1>1, <1>2, <1>8, <1>9, <2>2, <2>3, <2>4, <2>5, RowsWritten
<1> QED BY <1>10, <1>11

\* A worker counts a value, or finds it over the cap.
LEMMA ValueWritten ==
  ASSUME WorkShape, ItemInv, NEW w \in ItemWorker, NEW q, q = itemWork[w],
         q.step \in {"values", "bump"}, q.tag <= Len(TagsAt(q)),
         NEW r, Moves(w, r), DOMAIN r = WorkFields, r.envelope = q.envelope, r.item = q.item,
         r.step = "values", r.tag = q.tag + 1,
         NEW tag, tag = TagsAt(q)[q.tag],
         \A t \in DOMAIN tagValues' :
           \/ t = tag /\ tagValues'[t] = 1
           \/ t = tag /\ t \in DOMAIN tagValues /\ tagValues'[t] = tagValues[t] + 1
           \/ t # tag /\ t \in DOMAIN tagValues /\ tagValues'[t] = tagValues[t],
         UNCHANGED <<itemState, itemEvents, eventTags, hourCounts, groupStats, transactions>>
  PROVE  ItemInv'
<1>1. PICK id, tags, n : id = IdAt(q) /\ tags = TagsAt(q) /\ n = q.tag
  OBVIOUS
<1>2. /\ PlaceOK(q) /\ itemState[q.envelope].state = "processing" /\ InEvent(q) /\ WrittenBy(q)
      /\ \A i \in 1..(q.item - 1) : Stored(q.envelope, i)
  BY PlaceOf DEF ItemInv, InEvent
<1>3. /\ Len(tags) \in Nat /\ n \in 1..Len(tags) /\ tag = tags[n] /\ tag = <<tag[1], tag[2]>>
      /\ \A k, l \in 1..Len(tags) : tags[k] = tags[l] => k = l
  <2>1. q.envelope \in ItemEnvelope /\ q.item \in 1..Len(ItemsInOrder[q.envelope])
    BY <1>2, ItemsAre DEF PlaceOK
  <2>2. PICK e, i : e = q.envelope /\ i = q.item
    OBVIOUS
  <2>3. /\ e \in ItemEnvelope /\ i \in 1..Len(ItemsInOrder[e]) /\ ItemsInOrder[e][i].is = "event"
        /\ tags = TagsOf[e][i]
    BY <1>1, <1>2, <2>1, <2>2 DEF TagsAt, ItemAt, PlaceOK
  <2>4. Len(tags) \in Nat
    BY <2>3, TagsAre
  <2>5. AllPairs(tags)
    BY <2>3, TagsAre
  <2>6. NoneTwice(tags)
    BY <2>3, TagsAre
  <2>7. n \in 1..Len(tags)
    BY <1>1, <1>2, <2>4 DEF PlaceOK
  <2> QED BY <1>1, <2>4, <2>5, <2>6, <2>7 DEF NoneTwice, AllPairs
<1>4. RowsOf(id) = RowsFor(id, tags, Len(tags)) /\ id \in itemEvents
  BY <1>1, <1>2 DEF WrittenBy, TagsWritten
<1>5. ItemAt(r) = ItemAt(q) /\ IdAt(r) = id /\ TagsAt(r) = tags
  BY <1>1 DEF ItemAt, IdAt, TagsAt
<1>6. InEvent(r) /\ ~ InTransaction(r)
  BY DEF InEvent, InTransaction
<1>7. PlaceOK(r)
  BY <1>1, <1>2, <1>3, <1>5, <1>6 DEF PlaceOK
<1>8. QuietEvent(q, r)
  <2>1. \A t : YetToCount(r, t) => YetToCount(q, t)
    BY <1>1, <1>3, <1>5 DEF YetToCount
  <2> QED BY <1>1, <1>2, <1>5, <2>1 DEF QuietEvent
<1>9. QuietEvents
  BY <1>8, QuietMove
<1>10. /\ TablesGrow /\ (\A x : RowsOf(x)' = RowsOf(x)) /\ RowsTyped'
       /\ (\A x : Open(x)' => Open(x)) /\ \A x : Owed(x)' => Owed(x)
  BY <1>9, QuietTables, QuietEventsOwe DEF ItemInv
<1>11. OthersStay(w)
  BY <1>10 DEF OthersStay
<1>12. ApartFromOthers(w, r)
  BY <1>1, <1>2, <1>5, SameEnvelope DEF ItemInv, InEvent
<1>13. Progress(r)'
  <2>1. \A i \in 1..(r.item - 1) : Stored(r.envelope, i)'
    BY <1>2, <1>10, StoredStays
  <2>2. itemState'[r.envelope].state = "processing"
    BY <1>2
  <2>3. TagsWritten(r) = Len(tags)
    BY <1>5 DEF TagsWritten
  <2>4. WrittenBy(r)'
    BY <1>4, <1>5, <1>10, <2>3 DEF WrittenBy
  <2> QED BY <1>7, <2>1, <2>2, <2>4 DEF Progress
<1>14. \A t : /\ CountedRows(t) \in SUBSET CountedRows(t)' /\ IsFiniteSet(CountedRows(t)')
              /\ IsFiniteSet(CountedRows(t))
  <2>1. \A t : CountedRows(t) \in SUBSET CountedRows(t)'
    BY <1>10 DEF CountedRows
  <2>2. \A t : CountedRows(t)' \in SUBSET eventTags /\ CountedRows(t) \in SUBSET eventTags
    BY DEF CountedRows
  <2>3. IsFiniteSet(eventTags)
    BY DEF ItemInv, RowsTyped
  <2> QED BY <2>1, <2>2, <2>3, FS_Subset
<1>15. PICK row : row = <<id, tag[1], tag[2]>>
  OBVIOUS
<1>16. row \in eventTags /\ row[1] = id /\ <<row[2], row[3]>> = tag
  <2>1. row \in RowsFor(id, tags, Len(tags))
    BY <1>3, <1>15 DEF RowsFor
  <2>2. row \in eventTags
    BY <1>4, <2>1 DEF RowsOf
  <2> QED BY <1>3, <1>15, <2>2
<1>17. row \notin CountedRows(tag)
  <2>1. YetToCount(q, tag)
    BY <1>1, <1>3 DEF YetToCount
  <2> QED BY <1>1, <1>2, <1>16, <2>1 DEF CountedRows, Owed
<1>18. row \in CountedRows(tag)'
  <2>1. ~ YetToCount(r, tag)
    BY <1>1, <1>3, <1>5 DEF YetToCount
  <2>2. itemWork'[w] = r /\ \A v \in ItemWorker \ {w} : itemWork'[v] = itemWork[v]
    BY OnlyOneMoves
  <2>3. \A v \in ItemWorker \ {w} : ~ (InEvent(itemWork[v]) /\ IdAt(itemWork[v]) = id)
    <3>1. SUFFICES ASSUME NEW v \in ItemWorker \ {w}, NEW p, p = itemWork[v], InEvent(p),
                          IdAt(p) = id
                   PROVE  FALSE
      OBVIOUS
    <3>2. p.step # "idle"
      BY <3>1 DEF InEvent
    <3> QED BY <1>1, <1>2, <3>1, <3>2 DEF ItemInv, PlacesInv, Apart
  <2>4. ~ Owed(row)'
    BY <1>16, <2>1, <2>2, <2>3 DEF Owed
  <2>5. row \in eventTags'
    BY <1>16
  <2> QED BY <1>16, <2>4, <2>5 DEF CountedRows
<1>19. \A t \in DOMAIN tagValues' :
         tagValues'[t] \in Nat /\ tagValues'[t] <= Cardinality(CountedRows(t)')
  <2>1. ASSUME NEW t \in DOMAIN tagValues', NEW U, NEW V, U = CountedRows(t), V = CountedRows(t)'
        PROVE  tagValues'[t] \in Nat /\ tagValues'[t] <= Cardinality(V)
    <3>1. U \in SUBSET V /\ IsFiniteSet(V) /\ IsFiniteSet(U)
      BY <1>14, <2>1
    <3>2. Cardinality(U) \in Nat /\ Cardinality(V) \in Nat /\ Cardinality(U) <= Cardinality(V)
      BY <3>1, FS_Subset, FS_CardinalityType
    <3>3. t = tag => Cardinality(U) + 1 <= Cardinality(V)
      <4>1. SUFFICES ASSUME t = tag PROVE Cardinality(U) + 1 <= Cardinality(V)
        OBVIOUS
      <4>2. row \in V /\ row \notin U
        BY <1>17, <1>18, <2>1, <4>1
      <4>3. U \cup {row} \in SUBSET V
        BY <3>1, <4>2
      <4>4. Cardinality(U \cup {row}) = Cardinality(U) + 1
        BY <3>1, <4>2, FS_AddElement
      <4>5. Cardinality(U \cup {row}) <= Cardinality(V)
        BY <3>1, <4>3, FS_Subset
      <4> QED BY <4>4, <4>5
    <3>4. t \in DOMAIN tagValues => tagValues[t] \in Nat /\ tagValues[t] <= Cardinality(U)
      BY <2>1 DEF ItemInv, CountsInv
    <3>5. \/ t = tag /\ tagValues'[t] = 1
          \/ t = tag /\ t \in DOMAIN tagValues /\ tagValues'[t] = tagValues[t] + 1
          \/ t # tag /\ t \in DOMAIN tagValues /\ tagValues'[t] = tagValues[t]
      BY <2>1
    <3>6. PICK a, b, c : a = tagValues[t] /\ b = Cardinality(U) /\ c = Cardinality(V)
      OBVIOUS
    <3> QED BY <3>2, <3>3, <3>4, <3>5, <3>6
  <2> QED BY <2>1
<1>20. CountsInv'
  <2>1. PICK U, V : U = Closed /\ V = Closed'
    OBVIOUS
  <2>2. U \in SUBSET V /\ V \in SUBSET itemEvents
    BY <1>10, <2>1 DEF Closed
  <2>3. IsFiniteSet(V) /\ IsFiniteSet(U)
    BY <2>2, FS_Subset DEF ItemInv, RowsTyped
  <2>4. Cardinality(U) \in Nat /\ Cardinality(V) \in Nat /\ Cardinality(U) <= Cardinality(V)
    BY <2>2, <2>3, FS_Subset, FS_CardinalityType
  <2>5. PICK s : s = SumOver(hourCounts, DOMAIN hourCounts)
    OBVIOUS
  <2>6. s \in Nat
    BY <2>5, UnitsFinite DEF ItemInv, CountsInv
  <2>7. s <= Cardinality(U)
    BY <2>1, <2>5 DEF ItemInv, CountsInv
  <2>8. s <= Cardinality(V)
    BY <2>4, <2>6, <2>7
  <2>9. SumOver(hourCounts', DOMAIN hourCounts') = s
    BY <2>5
  <2>10. IsFiniteSet(DOMAIN hourCounts') /\ \A h \in DOMAIN hourCounts' : hourCounts'[h] \in Nat
    BY DEF ItemInv, CountsInv
  <2>11. SumOver(hourCounts', DOMAIN hourCounts') <= Cardinality(Closed')
    BY <2>1, <2>8, <2>9
  <2> QED BY <1>19, <2>10, <2>11 DEF CountsInv, SumOver
<1> QED BY <1>6, <1>10, <1>11, <1>12, <1>13, <1>20, EventStep DEF QuietTransaction

LEMMA AtTag ==
  ASSUME PlacesInv, NEW w \in ItemWorker, NEW q, q = itemWork[w], q.step \in {"values", "bump"}
  PROVE  /\ CurrentTags(w) = TagsAt(q) /\ PlaceOK(q) /\ DOMAIN q = WorkFields
         /\ q.tag \in Nat \ {0} /\ Len(TagsAt(q)) \in Nat /\ q.tag <= Len(TagsAt(q)) + 1
         /\ q.item \in 1..Len(ItemsInOrder[q.envelope]) /\ q.envelope \in ItemEnvelope
<1>1. PlaceOK(q) /\ InEvent(q)
  BY PlaceOf DEF InEvent
<1>2. q.envelope \in ItemEnvelope /\ q.item \in 1..Len(ItemsInOrder[q.envelope])
  BY <1>1, ItemsAre DEF PlaceOK
<1>3. Len(TagsAt(q)) \in Nat
  BY <1>1, <1>2, TagsAre DEF TagsAt, ItemAt, PlaceOK
<1> QED BY <1>1, <1>2, <1>3 DEF PlaceOK, CurrentTags, TagsAt

LEMMA InsertValueKeeps ==
  ASSUME WorkShape, ItemInv, NEW w \in ItemWorker, InsertValue(w)
  PROVE  ItemInv'
<1>1. PICK q : q = itemWork[w]
  OBVIOUS
<1>2. /\ CurrentTags(w) = TagsAt(q) /\ PlaceOK(q) /\ DOMAIN q = WorkFields /\ q.step = "values"
      /\ q.tag \in Nat \ {0} /\ Len(TagsAt(q)) \in Nat /\ q.tag <= Len(TagsAt(q))
      /\ q.envelope \in ItemEnvelope /\ q.item \in 1..Len(ItemsInOrder[q.envelope])
  <2>1. q.step = "values"
    BY <1>1 DEF InsertValue
  <2> QED BY <1>1, <2>1, AtTag DEF InsertValue, ItemInv
<1>3. PICK tag : tag = TagsAt(q)[q.tag]
  OBVIOUS
<1>4. UNCHANGED <<itemState, itemEvents, eventTags, hourCounts, groupStats, transactions>>
  BY DEF InsertValue
<1>5. CASE /\ tag \notin DOMAIN tagValues
           /\ tagValues' = [t \in DOMAIN tagValues \cup {tag} |-> IF t = tag THEN 1 ELSE tagValues[t]]
           /\ AfterValue(w, itemWork[w].recount \cup {tag[1]})
  <2>1. PICK r : r = [q EXCEPT !.step = "values", !.tag = q.tag + 1,
                               !.recount = q.recount \cup {tag[1]}]
    OBVIOUS
  <2>2. Moves(w, r)
    BY <1>1, <1>5, <2>1 DEF Moves, AfterValue
  <2>3. /\ DOMAIN r = WorkFields /\ r.envelope = q.envelope /\ r.item = q.item
        /\ r.step = "values" /\ r.tag = q.tag + 1
    BY <1>2, <2>1 DEF WorkFields
  <2>4. \A t \in DOMAIN tagValues' :
          \/ t = tag /\ tagValues'[t] = 1
          \/ t # tag /\ t \in DOMAIN tagValues /\ tagValues'[t] = tagValues[t]
    BY <1>5
  <2> QED BY <1>1, <1>2, <1>3, <1>4, <2>2, <2>3, <2>4, ValueWritten
<1>6. CASE itemWork' = [itemWork EXCEPT ![w].step = "bump"] /\ UNCHANGED tagValues
  <2>1. PICK r : r = [q EXCEPT !.step = "bump"]
    OBVIOUS
  <2>2. Moves(w, r)
    BY <1>1, <1>6, <2>1 DEF Moves
  <2>3. /\ DOMAIN r = WorkFields /\ r.envelope = q.envelope /\ r.item = q.item
        /\ r.step = "bump" /\ r.tag = q.tag
    BY <1>2, <2>1 DEF WorkFields
  <2>4. ItemAt(r) = ItemAt(q) /\ IdAt(r) = IdAt(q) /\ TagsAt(r) = TagsAt(q)
    BY <2>3 DEF ItemAt, IdAt, TagsAt
  <2>5. InEvent(r) /\ InEvent(q) /\ ~ InTransaction(r)
    BY <1>2, <2>3 DEF InEvent, InTransaction
  <2>6. PlaceOK(r)
    BY <1>2, <2>3, <2>4, <2>5 DEF PlaceOK
  <2>7. RowsFor(IdAt(r), TagsAt(r), TagsWritten(r)) = RowsFor(IdAt(q), TagsAt(q), TagsWritten(q))
    BY <1>2, <2>3, <2>4 DEF TagsWritten
  <2>8. QuietEvent(q, r)
    BY <1>2, <2>3, <2>4, <2>5 DEF QuietEvent, YetToCount
  <2> QED BY <1>1, <1>4, <1>6, <2>2, <2>3, <2>5, <2>6, <2>7, <2>8, SamePlaceKeeps
<1> QED
  <2>1. CurrentTags(w)[itemWork[w].tag] = tag
    BY <1>1, <1>2, <1>3
  <2> QED BY <1>5, <1>6, <2>1 DEF InsertValue

LEMMA BumpValueKeeps ==
  ASSUME WorkShape, ItemInv, NEW w \in ItemWorker, BumpValue(w)
  PROVE  ItemInv'
<1>1. PICK q : q = itemWork[w]
  OBVIOUS
<1>2. q.step = "bump"
  BY <1>1 DEF BumpValue
<1>3. /\ CurrentTags(w) = TagsAt(q) /\ PlaceOK(q) /\ DOMAIN q = WorkFields /\ q.tag <= Len(TagsAt(q))
  BY <1>1, <1>2, AtTag DEF ItemInv, PlaceOK
<1>4. PICK tag : tag = TagsAt(q)[q.tag]
  OBVIOUS
<1>5. /\ UNCHANGED <<itemState, itemEvents, eventTags, hourCounts, groupStats, transactions>>
      /\ tagValues' = [t \in DOMAIN tagValues |-> IF t = tag THEN tagValues[t] + 1 ELSE tagValues[t]]
      /\ AfterValue(w, itemWork[w].recount)
  BY <1>1, <1>3, <1>4 DEF BumpValue
<1>6. PICK r : r = [q EXCEPT !.step = "values", !.tag = q.tag + 1, !.recount = q.recount]
  OBVIOUS
<1>7. Moves(w, r)
  BY <1>1, <1>5, <1>6 DEF Moves, AfterValue
<1>8. /\ DOMAIN r = WorkFields /\ r.envelope = q.envelope /\ r.item = q.item
      /\ r.step = "values" /\ r.tag = q.tag + 1
  BY <1>3, <1>6 DEF WorkFields
<1>9. \A t \in DOMAIN tagValues' :
        \/ t = tag /\ t \in DOMAIN tagValues /\ tagValues'[t] = tagValues[t] + 1
        \/ t # tag /\ t \in DOMAIN tagValues /\ tagValues'[t] = tagValues[t]
  BY <1>5
<1> QED BY <1>1, <1>2, <1>3, <1>4, <1>5, <1>7, <1>8, <1>9, ValueWritten

\* A worker counts the hour of its event and leaves it.
LEMMA CountHourKeeps ==
  ASSUME WorkShape, ItemInv, NEW w \in ItemWorker, CountHour(w)
  PROVE  ItemInv'
<1>1. PICK q, id, h, tags : /\ q = itemWork[w] /\ id = IdAt(q) /\ h = ItemAt(q).event.hour
                            /\ tags = TagsAt(q)
  OBVIOUS
<1>2. /\ q.step = "values" /\ NextItem(w)
      /\ UNCHANGED <<itemState, itemEvents, eventTags, tagValues, groupStats, transactions>>
  BY <1>1 DEF CountHour
<1>3. /\ PlaceOK(q) /\ DOMAIN q = WorkFields /\ q.tag > Len(tags) /\ Len(tags) \in Nat /\ q.tag \in Nat
      /\ q.item \in 1..Len(ItemsInOrder[q.envelope]) /\ q.envelope \in ItemEnvelope
      /\ Len(ItemsInOrder[q.envelope]) \in Nat
  BY <1>1, <1>2, AtTag, ItemsAre DEF CountHour, ItemInv
<1>4. /\ itemState[q.envelope].state = "processing" /\ InEvent(q) /\ WrittenBy(q)
      /\ \A i \in 1..(q.item - 1) : Stored(q.envelope, i)
  BY <1>1, <1>2, PlaceOf DEF ItemInv, InEvent
<1>5. PICK r : /\ Moves(w, r) /\ AfterItem(q, r) /\ PlaceOK(r)
               /\ QuietEvent(q, r) /\ QuietTransaction(q, r) /\ ApartFromOthers(w, r)
  <2>1. q.step # "idle" /\ q.item <= Len(ItemsInOrder[q.envelope])
    BY <1>2, <1>3
  <2> QED BY <1>1, <1>2, <2>1, NextItemIs DEF ItemInv
<1>6. QuietEvents /\ ~ InEvent(r)
  BY <1>1, <1>5, QuietMove DEF AfterItem, InEvent
<1>7. /\ TablesGrow /\ (\A x : RowsOf(x)' = RowsOf(x)) /\ RowsTyped'
      /\ (\A x : Open(x)' => Open(x)) /\ \A x : Owed(x)' => Owed(x)
  BY <1>2, <1>6, QuietTables, QuietEventsOwe DEF ItemInv
<1>8. OthersStay(w)
  BY <1>2, <1>7 DEF OthersStay
<1>9. id \in itemEvents /\ RowsOf(id) = RowsFor(id, tags, Len(tags))
  BY <1>1, <1>2, <1>4 DEF WrittenBy, TagsWritten
<1>10. Open(id) /\ ~ Open(id)'
  <2>1. Open(id)
    BY <1>1, <1>4 DEF Open
  <2>2. itemWork'[w] = r /\ \A v \in ItemWorker \ {w} : itemWork'[v] = itemWork[v]
    BY <1>5, OnlyOneMoves
  <2>3. ASSUME NEW v \in ItemWorker \ {w}, NEW p, p = itemWork[v], InEvent(p) PROVE IdAt(p) # id
    <3>1. p.step # "idle" /\ q.step # "idle"
      BY <1>2, <2>3 DEF InEvent
    <3> QED BY <1>1, <1>4, <2>3, <3>1 DEF ItemInv, PlacesInv, Apart
  <2>4. ~ Open(id)'
    BY <1>6, <2>2, <2>3 DEF Open
  <2> QED BY <2>1, <2>4
<1>11. Stored(q.envelope, q.item)'
  <2>1. id \in Closed'
    BY <1>2, <1>9, <1>10 DEF Closed
  <2>2. StoredEvent(q.envelope, q.item)'
    BY <1>1, <1>7, <1>9, <2>1 DEF StoredEvent, IdAt, ItemAt, TagsAt
  <2>3. ItemsInOrder[q.envelope][q.item].is = "event"
    BY <1>3, <1>4 DEF PlaceOK, ItemAt
  <2> QED BY <2>2, <2>3 DEF Stored
<1>12. Progress(r)'
  <2>1. ASSUME NEW i \in 1..(r.item - 1) PROVE Stored(r.envelope, i)'
    <3>1. i \in 1..(q.item - 1) \/ i = q.item
      BY <1>3, <1>5, <2>1 DEF AfterItem
    <3>2. \A j \in 1..(q.item - 1) : Stored(q.envelope, j)'
      BY <1>4, <1>7, StoredStays
    <3> QED BY <1>5, <1>11, <3>1, <3>2 DEF AfterItem
  <2>2. itemState'[r.envelope].state = "processing"
    BY <1>2, <1>4, <1>5 DEF AfterItem
  <2> QED BY <1>5, <1>6, <2>1, <2>2 DEF Progress
<1>13. CountsInv'
  <2>1. \A t : CountedRows(t) \in SUBSET CountedRows(t)' /\ CountedRows(t)' \in SUBSET eventTags
    BY <1>2, <1>7 DEF CountedRows
  <2>2. ASSUME NEW t \in DOMAIN tagValues'
        PROVE  tagValues'[t] \in Nat /\ tagValues'[t] <= Cardinality(CountedRows(t)')
    <3>1. PICK U, V, c : U = CountedRows(t) /\ V = CountedRows(t)' /\ c = tagValues[t]
      OBVIOUS
    <3>2. U \in SUBSET V /\ V \in SUBSET eventTags
      BY <2>1, <3>1
    <3>3. IsFiniteSet(V) /\ IsFiniteSet(U)
      BY <3>2, FS_Subset DEF ItemInv, RowsTyped
    <3>4. Cardinality(U) \in Nat /\ Cardinality(V) \in Nat /\ Cardinality(U) <= Cardinality(V)
      BY <3>2, <3>3, FS_Subset, FS_CardinalityType
    <3>5. c \in Nat /\ c <= Cardinality(U) /\ tagValues' = tagValues
      BY <1>2, <2>2, <3>1 DEF ItemInv, CountsInv
    <3> QED BY <3>1, <3>4, <3>5
  <2>3. PICK U, V : U = Closed /\ V = Closed'
    OBVIOUS
  <2>4. U \cup {id} \in SUBSET V /\ id \notin U /\ V \in SUBSET itemEvents
    BY <1>2, <1>7, <1>9, <1>10, <2>3 DEF Closed
  <2>5. IsFiniteSet(V) /\ IsFiniteSet(U)
    BY <2>4, FS_Subset DEF ItemInv, RowsTyped
  <2>6. Cardinality(U) \in Nat /\ Cardinality(V) \in Nat /\ Cardinality(U) + 1 <= Cardinality(V)
    <3>1. Cardinality(U \cup {id}) = Cardinality(U) + 1
      BY <2>4, <2>5, FS_AddElement
    <3>2. Cardinality(U \cup {id}) <= Cardinality(V)
      BY <2>4, <2>5, FS_Subset
    <3> QED BY <2>5, <3>1, <3>2, FS_CardinalityType
  <2>7. PICK f, g, D : f = hourCounts /\ g = hourCounts' /\ D = DOMAIN hourCounts
    OBVIOUS
  <2>8. IsFiniteSet(D) /\ (\A b \in D : f[b] \in Nat) /\ SumOver(f, D) <= Cardinality(U)
    BY <2>3, <2>7 DEF ItemInv, CountsInv
  <2>9. g = [b \in D \cup {h} |-> IF b \notin D THEN 1 ELSE IF b = h THEN f[b] + 1 ELSE f[b]]
    BY <1>1, <2>7 DEF CountHour, CurrentEnvelopeItem, ItemAt
  <2>10. DOMAIN g = D \cup {h} /\ IsFiniteSet(D \cup {h}) /\ \A b \in D \cup {h} : g[b] \in Nat
    BY <2>8, <2>9, FS_AddElement
  <2>11. SumOver(f, D) \in Nat /\ SumOver(g, D \cup {h}) = SumOver(f, D) + 1
    <3>1. CASE h \in D
      <4>1. \A b \in D : g[b] = IF b = h THEN f[b] + 1 ELSE f[b]
        BY <2>9
      <4>2. D \cup {h} = D
        BY <3>1
      <4>3. SumOver(f, D) \in Nat /\ SumOver(g, D) = SumOver(f, D) + 1
        BY <2>8, <3>1, <4>1, OneCountedMore
      <4> QED BY <4>2, <4>3
    <3>2. CASE h \notin D
      <4>1. g[h] = 1 /\ \A b \in D : g[b] = f[b]
        BY <2>9, <3>2
      <4>2. SumOver(g, D) = SumOver(f, D)
        BY <4>1, UnitsAgree
      <4>3. SumOver(g, D) \in Nat /\ SumOver(g, D \cup {h}) = SumOver(g, D) + g[h]
        BY <2>8, <2>10, <3>2, OneMoreSummand
      <4> QED BY <4>1, <4>2, <4>3
    <3> QED BY <3>1, <3>2
  <2>12. SumOver(g, D \cup {h}) <= Cardinality(V)
    BY <2>6, <2>8, <2>11
  <2>13. SumOver(hourCounts', DOMAIN hourCounts') <= Cardinality(Closed')
    BY <2>3, <2>7, <2>10, <2>12
  <2>14. IsFiniteSet(DOMAIN hourCounts') /\ \A b \in DOMAIN hourCounts' : hourCounts'[b] \in Nat
    BY <2>7, <2>10
  <2> QED BY <2>2, <2>13, <2>14 DEF CountsInv, SumOver
<1> QED BY <1>1, <1>2, <1>5, <1>7, <1>8, <1>12, <1>13, EventStep

-----------------------------------------------------------------------------
\* Transactions: a worker adds to its group before it inserts its row.

LEMMA GroupRows ==
  ASSUME GroupsInv, NEW g
  PROVE  /\ Len(transactions) \in Nat /\ DOMAIN transactions = 1..Len(transactions)
         /\ RowsOfGroup(g) \in SUBSET (1..Len(transactions)) /\ IsFiniteSet(RowsOfGroup(g))
         /\ Cardinality(RowsOfGroup(g)) \in Nat
         /\ \A i \in RowsOfGroup(g) : DurationOf[i] \in Nat
         /\ SumOver(DurationOf, RowsOfGroup(g)) \in Nat
<1>1. Len(transactions) \in Nat /\ DOMAIN transactions = 1..Len(transactions)
  BY SeqOfElements DEF GroupsInv
<1>2. RowsOfGroup(g) \in SUBSET (1..Len(transactions))
  BY <1>1 DEF RowsOfGroup
<1>3. IsFiniteSet(1..Len(transactions))
  BY <1>1, FS_Interval
<1>4. IsFiniteSet(RowsOfGroup(g))
  BY <1>2, <1>3, FS_Subset
<1>5. Cardinality(RowsOfGroup(g)) \in Nat
  BY <1>4, FS_CardinalityType
<1>6. \A i \in RowsOfGroup(g) : DurationOf[i] \in Nat
  BY <1>1, <1>2 DEF GroupsInv, DurationOf
<1>7. SumOver(DurationOf, RowsOfGroup(g)) \in Nat
  BY <1>4, <1>6, UnitsFinite
<1> QED BY <1>1, <1>2, <1>4, <1>5, <1>6, <1>7

LEMMA InsertingSums ==
  ASSUME PlacesInv, NEW g
  PROVE  /\ \A w \in Inserting(g) : DurationBy[w] \in Nat
         /\ SumOver(DurationBy, Inserting(g)) \in Nat
<1>1. \A w \in Inserting(g) : DurationBy[w] \in Nat
  BY InsertedBy DEF Inserting
<1> QED BY <1>1, InsertingFinite, UnitsFinite

\* A group that nobody writes to.
LEMMA OtherGroup ==
  ASSUME NEW g, NEW s, GroupCovered(g, s),
         RowsOfGroup(g)' = RowsOfGroup(g), Inserting(g)' = Inserting(g),
         \A i \in RowsOfGroup(g) : DurationOf'[i] = DurationOf[i],
         \A w \in Inserting(g) : DurationBy'[w] = DurationBy[w]
  PROVE  GroupCovered(g, s)'
<1>1. PICK rows, I, a, b, c, d : /\ rows = RowsOfGroup(g) /\ I = Inserting(g)
                                 /\ a = DurationOf /\ b = DurationOf'
                                 /\ c = DurationBy /\ d = DurationBy'
  OBVIOUS
<1>2. SumOver(b, rows) = SumOver(a, rows) /\ SumOver(d, I) = SumOver(c, I)
  BY <1>1, UnitsAgree
<1>3. /\ s.count \in Nat /\ s.sum \in Nat /\ s.min \in Nat /\ s.max \in Nat
      /\ Cardinality(rows) + Cardinality(I) <= s.count
      /\ SumOver(b, rows) + SumOver(d, I) <= s.sum
      /\ \A i \in rows : Within(s, b[i])
      /\ \A w \in I : Within(s, d[w])
  BY <1>1, <1>2 DEF GroupCovered
<1> QED BY <1>1, <1>3 DEF GroupCovered, SumOver

LEMMA TransactionStep ==
  ASSUME WorkShape, ItemInv, NEW w \in ItemWorker, NEW r, Moves(w, r), ~ InEvent(r),
         UNCHANGED <<itemState, itemEvents, eventTags, tagValues, hourCounts>>,
         ToSet(transactions) \subseteq ToSet(transactions)',
         TablesGrow => Progress(r)',
         ApartFromOthers(w, r), GroupsInv'
  PROVE  ItemInv'
<1>1. QuietEvents
  BY QuietMove DEF QuietEvent
<1>2. \A id : Open(id)' => Open(id)
  BY <1>1, QuietEventsOwe
<1>3. \A id : RowsOf(id)' = RowsOf(id)
  BY DEF RowsOf
<1>4. TablesGrow
  BY <1>2, <1>3 DEF TablesGrow
<1>5. OthersStay(w)
  BY <1>3 DEF OthersStay
<1>6. PlacesInv'
  BY <1>4, <1>5, PlacesStep DEF ItemInv
<1>7. StatesTyped' /\ RowsTyped'
  BY DEF ItemInv, StatesTyped, RowsTyped
<1>8. DoneStored'
  BY <1>4, DoneStays DEF ItemInv
<1>9. CountsInv'
  BY <1>1, CountsStay DEF ItemInv
<1> QED BY <1>6, <1>7, <1>8, <1>9 DEF ItemInv

\* The statistics take a duration in.
Takes(s, new, d) ==
  /\ new.count = s.count + 1 /\ new.sum = s.sum + d
  /\ new.min \in Nat /\ new.max \in Nat
  /\ new.min <= s.min /\ s.max <= new.max /\ Within(new, d)

LEMMA MergedTakes ==
  ASSUME NEW s, s.min \in Nat, s.max \in Nat, NEW d \in Nat, NEW errors
  PROVE  Takes(s, MergedGroup(s, d, errors), d)
<1>1. PICK a, b : a = Min({s.min, d}) /\ b = Max({s.max, d})
  OBVIOUS
<1>2. /\ a \in {s.min, d} /\ a <= s.min /\ a <= d
      /\ b \in {s.max, d} /\ s.max <= b /\ d <= b
  <2>1. PICK x, y : x = s.min /\ y = s.max
    OBVIOUS
  <2>2. x \in Int /\ y \in Int /\ d \in Int
    BY <2>1
  <2>3. Min({x, d}) \in {x, d} /\ Min({x, d}) <= x /\ Min({x, d}) <= d
    BY <2>2, LeastOfTwo
  <2>4. Max({y, d}) \in {y, d} /\ y <= Max({y, d}) /\ d <= Max({y, d})
    BY <2>2, GreatestOfTwo
  <2> QED BY <1>1, <2>1, <2>3, <2>4
<1>3. PICK new : new = MergedGroup(s, d, errors)
  OBVIOUS
<1>4. new.count = s.count + 1 /\ new.sum = s.sum + d /\ new.min = a /\ new.max = b
  BY <1>1, <1>3 DEF MergedGroup
<1> QED BY <1>2, <1>3, <1>4 DEF Takes, Within

\* The group of the transaction a worker has added.
LEMMA AddedToGroup ==
  ASSUME GroupsInv, PlacesInv, NEW w \in ItemWorker, NEW g, NEW new, NEW d \in Nat,
         UNCHANGED transactions, w \notin Inserting(g), Inserting(g)' = Inserting(g) \cup {w},
         DurationBy'[w] = d, \A v \in Inserting(g) : DurationBy'[v] = DurationBy[v],
         \/ g \in DOMAIN groupStats /\ Takes(groupStats[g], new, d)
         \/ /\ g \notin DOMAIN groupStats
            /\ new.count = 1 /\ new.sum = d /\ new.min = d /\ new.max = d
  PROVE  GroupCovered(g, new)'
<1>1. PICK rows, I, a, b, c : /\ rows = RowsOfGroup(g) /\ I = Inserting(g)
                              /\ a = DurationOf /\ b = DurationBy /\ c = DurationBy'
  OBVIOUS
<1>2. RowsOfGroup(g)' = rows /\ DurationOf' = a
  BY <1>1 DEF RowsOfGroup, DurationOf
<1>3. /\ IsFiniteSet(rows) /\ Cardinality(rows) \in Nat /\ SumOver(a, rows) \in Nat
      /\ \A i \in rows : a[i] \in Nat
  BY <1>1, GroupRows
<1>4. /\ IsFiniteSet(I) /\ Cardinality(I) \in Nat
  BY <1>1, InsertingFinite
<1>5. SumOver(b, I) \in Nat /\ \A v \in I : b[v] \in Nat
  BY <1>1, InsertingSums
<1>6. /\ w \notin I /\ Inserting(g)' = I \cup {w} /\ c[w] = d /\ \A v \in I : c[v] = b[v]
  BY <1>1
<1>7. Cardinality(I \cup {w}) = Cardinality(I) + 1
  BY <1>4, <1>6, FS_AddElement
<1>8. SumOver(c, I \cup {w}) = SumOver(b, I) + d
  <2>1. SumOver(c, I) = SumOver(b, I)
    BY <1>6, UnitsAgree
  <2>2. \A v \in I \cup {w} : c[v] \in Nat
    BY <1>5, <1>6
  <2>3. w \notin I /\ IsFiniteSet(I)
    BY <1>4, <1>6
  <2>4. SumOver(c, I \cup {w}) = SumOver(c, I) + c[w]
    BY ONLY <2>2, <2>3, OneMoreSummand
  <2> QED BY <1>6, <2>1, <2>4
<1>9. /\ new.count \in Nat /\ new.sum \in Nat /\ new.min \in Nat /\ new.max \in Nat
      /\ Cardinality(rows) + Cardinality(I \cup {w}) <= new.count
      /\ SumOver(a, rows) + SumOver(c, I \cup {w}) <= new.sum
      /\ \A i \in rows : Within(new, a[i])
      /\ \A v \in I \cup {w} : Within(new, c[v])
  <2>1. CASE g \in DOMAIN groupStats /\ Takes(groupStats[g], new, d)
    <3>1. PICK s : s = groupStats[g]
      OBVIOUS
    <3>2. /\ s.count \in Nat /\ s.sum \in Nat /\ s.min \in Nat /\ s.max \in Nat
          /\ Cardinality(rows) + Cardinality(I) <= s.count
          /\ SumOver(a, rows) + SumOver(b, I) <= s.sum
          /\ \A i \in rows : Within(s, a[i])
          /\ \A v \in I : Within(s, b[v])
      BY <1>1, <2>1, <3>1 DEF GroupsInv, GroupCovered
    <3>3. /\ new.count = s.count + 1 /\ new.sum = s.sum + d
          /\ new.min \in Nat /\ new.max \in Nat
          /\ new.min <= s.min /\ s.max <= new.max /\ Within(new, d)
      BY <2>1, <3>1 DEF Takes
    <3>4. new.count \in Nat /\ new.sum \in Nat
      BY <3>2, <3>3
    <3>5. Cardinality(rows) + Cardinality(I \cup {w}) <= new.count
      <4>1. PICK x, y, z : x = Cardinality(rows) /\ y = Cardinality(I) /\ z = Cardinality(I \cup {w})
        OBVIOUS
      <4> QED BY <1>3, <1>4, <1>7, <3>2, <3>3, <4>1
    <3>6. SumOver(a, rows) + SumOver(c, I \cup {w}) <= new.sum
      <4>1. PICK x, y, z : x = SumOver(a, rows) /\ y = SumOver(b, I) /\ z = SumOver(c, I \cup {w})
        OBVIOUS
      <4> QED BY <1>3, <1>5, <1>8, <3>2, <3>3, <4>1
    <3>7. \A x \in Nat : Within(s, x) => Within(new, x)
      BY <3>2, <3>3 DEF Within
    <3>8. \A i \in rows : Within(new, a[i])
      BY <1>3, <3>2, <3>7
    <3>9. \A v \in I \cup {w} : Within(new, c[v])
      BY <1>5, <1>6, <3>2, <3>3, <3>7
    <3> QED BY <3>3, <3>4, <3>5, <3>6, <3>8, <3>9
  <2>2. CASE g \notin DOMAIN groupStats /\ new.count = 1 /\ new.sum = d /\ new.min = d /\ new.max = d
    <3>1. rows = {} /\ I = {}
      BY <1>1, <2>2 DEF GroupsInv, RowsOfGroup, Inserting
    <3>2. Cardinality(rows) = 0 /\ Cardinality(I) = 0
      BY <3>1, FS_EmptySet
    <3>3. SumOver(a, rows) = 0 /\ SumOver(b, I) = 0
      <4>1. UnitsOf(a, rows) = {} /\ UnitsOf(b, I) = {}
        BY <3>1 DEF UnitsOf
      <4> QED BY <4>1, FS_EmptySet DEF SumOver
    <3>4. \A v \in I \cup {w} : c[v] = d
      BY <1>6, <3>1
    <3> QED BY <1>7, <1>8, <2>2, <3>1, <3>2, <3>3, <3>4 DEF Within
  <2> QED BY <2>1, <2>2
<1> QED BY <1>1, <1>2, <1>6, <1>9 DEF GroupCovered, SumOver

LEMMA UpsertGroupKeeps ==
  ASSUME WorkShape, ItemInv, NEW w \in ItemWorker, UpsertGroup(w)
  PROVE  ItemInv'
<1>1. PICK q, item, g, d : /\ q = itemWork[w] /\ item = ItemAt(q) /\ g = item.group
                           /\ d = Duration(item)
  OBVIOUS
<1>2. /\ q.step = "begin" /\ q.item <= Len(ItemsInOrder[q.envelope])
      /\ item.is = "transaction" /\ CurrentEnvelopeItem(w) = item
  BY <1>1, AtItemIs DEF UpsertGroup
<1>3. /\ itemWork' = [itemWork EXCEPT ![w].step = "transaction"]
      /\ UNCHANGED <<itemState, itemEvents, eventTags, tagValues, hourCounts, transactions>>
  BY DEF UpsertGroup
<1>4. PICK errors : groupStats' = [x \in DOMAIN groupStats \cup {g} |->
         IF x # g THEN groupStats[x]
         ELSE IF g \in DOMAIN groupStats THEN MergedGroup(groupStats[g], d, errors)
         ELSE NewGroup(d, errors)]
  BY <1>1, <1>2 DEF UpsertGroup
<1>5. /\ PlaceOK(q) /\ DOMAIN q = WorkFields /\ itemState[q.envelope].state = "processing"
      /\ \A i \in 1..(q.item - 1) : Stored(q.envelope, i)
  BY <1>1, <1>2, PlaceOf DEF ItemInv, PlaceOK
<1>6. q.envelope \in ItemEnvelope /\ q.item \in 1..Len(ItemsInOrder[q.envelope])
  BY <1>2, <1>5, ItemsAre DEF PlaceOK
<1>7. d \in Nat
  BY <1>1, <1>2, <1>6, DurationIs DEF ItemAt
<1>8. PICK r : r = [q EXCEPT !.step = "transaction"]
  OBVIOUS
<1>9. Moves(w, r)
  BY <1>1, <1>3, <1>8 DEF Moves
<1>10. r.step = "transaction" /\ r.envelope = q.envelope /\ r.item = q.item /\ DOMAIN r = WorkFields
  BY <1>5, <1>8 DEF WorkFields
<1>11. ItemAt(r) = item /\ ~ InEvent(r) /\ InTransaction(r) /\ ~ InTransaction(q)
  BY <1>1, <1>2, <1>10 DEF ItemAt, InEvent, InTransaction
<1>12. PlaceOK(r)
  BY <1>2, <1>5, <1>10, <1>11 DEF PlaceOK
<1>13. TablesGrow => Progress(r)'
  <2>1. SUFFICES ASSUME TablesGrow PROVE Progress(r)'
    OBVIOUS
  <2>2. \A i \in 1..(r.item - 1) : Stored(r.envelope, i)'
    BY <1>5, <1>10, <2>1, StoredStays
  <2>3. itemState'[r.envelope].state = "processing"
    BY <1>3, <1>5, <1>10
  <2> QED BY <1>11, <1>12, <2>2, <2>3 DEF Progress
<1>14. ApartFromOthers(w, r)
  BY <1>1, <1>2, <1>10, <1>11, SameEnvelope DEF ItemInv
<1>15. itemWork'[w] = r /\ \A v \in ItemWorker \ {w} : itemWork'[v] = itemWork[v]
  BY <1>9, OnlyOneMoves
<1>16. /\ w \notin Inserting(g) /\ Inserting(g)' = Inserting(g) \cup {w}
       /\ \A x : x # g => Inserting(x)' = Inserting(x)
       /\ \A x : \A v \in Inserting(x) : DurationBy'[v] = DurationBy[v]
       /\ DurationBy'[w] = d
  <2>1. w \notin Inserting(g)
    BY <1>1, <1>11 DEF Inserting
  <2>2. Inserting(g)' = Inserting(g) \cup {w}
    BY <1>1, <1>11, <1>15 DEF Inserting
  <2>3. \A x : x # g => Inserting(x)' = Inserting(x)
    BY <1>1, <1>11, <1>15 DEF Inserting
  <2>4. \A x : \A v \in Inserting(x) : DurationBy'[v] = DurationBy[v]
    BY <1>1, <1>11, <1>15 DEF Inserting, DurationBy
  <2>5. DurationBy'[w] = d
    BY <1>1, <1>11, <1>15 DEF DurationBy
  <2> QED BY <2>1, <2>2, <2>3, <2>4, <2>5
<1>17. DOMAIN groupStats' = DOMAIN groupStats \cup {g}
  BY <1>4
<1>18. ASSUME NEW x \in DOMAIN groupStats' PROVE GroupCovered(x, groupStats[x])'
  <2>1. CASE x # g
    <3>1. PICK s : s = groupStats[x] /\ s = groupStats'[x]
      BY <1>4, <1>17, <1>18, <2>1
    <3>2. GroupCovered(x, s)
      BY <1>17, <1>18, <2>1, <3>1 DEF ItemInv, GroupsInv
    <3>3. RowsOfGroup(x)' = RowsOfGroup(x) /\ DurationOf' = DurationOf
      BY <1>3 DEF RowsOfGroup, DurationOf
    <3>4. GroupCovered(x, s)'
      BY <1>16, <2>1, <3>2, <3>3, OtherGroup
    <3> QED BY <3>1, <3>4
  <2>2. CASE x = g
    <3>1. PICK new : new = groupStats'[g]
      OBVIOUS
    <3>2. ASSUME g \in DOMAIN groupStats PROVE Takes(groupStats[g], new, d)
      <4>1. PICK s : s = groupStats[g]
        OBVIOUS
      <4>2. s.min \in Nat /\ s.max \in Nat
        BY <3>2, <4>1 DEF ItemInv, GroupsInv, GroupCovered
      <4>3. new = MergedGroup(s, d, errors)
        BY <1>4, <3>1, <3>2, <4>1
      <4> QED BY <1>7, <4>1, <4>2, <4>3, MergedTakes
    <3>3. ASSUME g \notin DOMAIN groupStats
          PROVE  new.count = 1 /\ new.sum = d /\ new.min = d /\ new.max = d
      BY <1>4, <3>1, <3>3 DEF NewGroup
    <3>4. GroupCovered(g, new)'
      BY <1>3, <1>7, <1>16, <3>2, <3>3, AddedToGroup DEF ItemInv
    <3> QED BY <2>2, <3>1, <3>4
  <2> QED BY <2>1, <2>2
<1>19. GroupsInv'
  <2>1. /\ transactions' \in Seq(ToSet(transactions'))
        /\ \A i \in DOMAIN transactions' :
             transactions'[i][4] \in Nat /\ transactions'[i][3] \in DOMAIN groupStats'
    BY <1>3, <1>17 DEF ItemInv, GroupsInv
  <2>2. \A v \in ItemWorker : InTransaction(itemWork'[v]) =>
          ItemAt(itemWork'[v]).group \in DOMAIN groupStats'
    BY <1>1, <1>11, <1>15, <1>17 DEF ItemInv, GroupsInv
  <2> QED BY <1>18, <2>1, <2>2 DEF GroupsInv
<1>20. ToSet(transactions) \subseteq ToSet(transactions)'
  BY <1>3
<1> QED BY <1>3, <1>9, <1>11, <1>13, <1>14, <1>19, <1>20, TransactionStep

LEMMA InsertTransactionKeeps ==
  ASSUME WorkShape, ItemInv, NEW w \in ItemWorker, InsertTransaction(w)
  PROVE  ItemInv'
<1>1. PICK q, item, g, d, n, row : /\ q = itemWork[w] /\ item = ItemAt(q) /\ g = item.group
                              /\ d = Duration(item) /\ n = Len(transactions)
                              /\ row = <<q.envelope, q.item, g, d>>
  OBVIOUS
<1>2. /\ q.step = "transaction" /\ CurrentEnvelopeItem(w) = item /\ NextItem(w)
      /\ transactions' = Append(transactions, row)
      /\ UNCHANGED <<itemState, itemEvents, eventTags, tagValues, hourCounts, groupStats>>
  BY <1>1 DEF InsertTransaction, CurrentEnvelopeItem, ItemAt
<1>3. /\ PlaceOK(q) /\ DOMAIN q = WorkFields /\ itemState[q.envelope].state = "processing"
      /\ \A i \in 1..(q.item - 1) : Stored(q.envelope, i)
  BY <1>1, <1>2, PlaceOf DEF ItemInv, PlaceOK
<1>4. /\ q.envelope \in ItemEnvelope /\ q.item \in 1..Len(ItemsInOrder[q.envelope])
      /\ Len(ItemsInOrder[q.envelope]) \in Nat /\ item.is = "transaction" /\ InTransaction(q)
  BY <1>1, <1>2, <1>3, ItemsAre DEF PlaceOK, InTransaction
<1>5. PICK r : /\ Moves(w, r) /\ AfterItem(q, r) /\ PlaceOK(r)
               /\ QuietEvent(q, r) /\ QuietTransaction(q, r) /\ ApartFromOthers(w, r)
  <2>1. q.step # "idle" /\ q.item <= Len(ItemsInOrder[q.envelope])
    BY <1>2, <1>4
  <2> QED BY <1>1, <1>2, <2>1, NextItemIs DEF ItemInv
<1>6. ~ InEvent(r) /\ ~ InTransaction(r)
  BY <1>5 DEF AfterItem, InEvent, InTransaction
<1>7. itemWork'[w] = r /\ \A v \in ItemWorker \ {w} : itemWork'[v] = itemWork[v]
  BY <1>5, OnlyOneMoves
<1>8. PICK S : S = ToSet(transactions)
  OBVIOUS
<1>9. /\ transactions \in Seq(S) /\ n \in Nat /\ DOMAIN transactions = 1..n
      /\ \A x : x \in S <=> \E i \in 1..n : x = transactions[i]
  <2>1. transactions \in Seq(S)
    BY <1>8 DEF ItemInv, GroupsInv
  <2> QED BY <1>1, <1>8, <2>1, SeqOfElements
<1>10. /\ transactions' \in Seq(S \cup {row}) /\ Len(transactions') = n + 1
       /\ DOMAIN transactions' = 1..(n + 1)
       /\ transactions'[n + 1] = row /\ \A i \in 1..n : transactions'[i] = transactions[i]
  <2>1. PICK s : s = transactions
    OBVIOUS
  <2>2. s \in Seq(S \cup {row}) /\ Len(s) = n /\ n \in Nat
    BY <1>1, <1>9, <2>1
  <2>3. /\ Append(s, row) \in Seq(S \cup {row}) /\ Len(Append(s, row)) = n + 1
        /\ Append(s, row)[n + 1] = row /\ \A i \in 1..n : Append(s, row)[i] = s[i]
    BY <2>2
  <2>4. transactions' = Append(s, row)
    BY <1>2, <2>1
  <2>5. DOMAIN Append(s, row) = 1..(n + 1)
    BY <2>2, <2>3
  <2> QED BY <2>1, <2>3, <2>4, <2>5
<1>11. ToSet(transactions)' = S \cup {row}
  <2>1. \A x : x \in ToSet(transactions)' <=> \E i \in 1..(n + 1) : x = transactions'[i]
    BY <1>10 DEF ToSet
  <2>2. \A i \in 1..(n + 1) : i \in 1..n \/ i = n + 1
    BY <1>9
  <2>3. n + 1 \in 1..(n + 1) /\ \A i \in 1..n : i \in 1..(n + 1)
    BY <1>9
  <2> QED BY <1>9, <1>10, <2>1, <2>2, <2>3
<1>12. Stored(q.envelope, q.item)'
  <2>1. row \in ToSet(transactions)' /\ row[1] = q.envelope /\ row[2] = q.item
    BY <1>1, <1>11
  <2>2. StoredTransaction(q.envelope, q.item)'
    BY <2>1 DEF StoredTransaction
  <2>3. ItemsInOrder[q.envelope][q.item].is # "event"
    BY <1>1, <1>4 DEF ItemAt
  <2> QED BY <2>2, <2>3 DEF Stored
<1>13. TablesGrow => Progress(r)'
  <2>1. SUFFICES ASSUME TablesGrow PROVE Progress(r)'
    OBVIOUS
  <2>2. ASSUME NEW i \in 1..(r.item - 1) PROVE Stored(r.envelope, i)'
    <3>1. i \in 1..(q.item - 1) \/ i = q.item
      BY <1>4, <1>5, <2>2 DEF AfterItem
    <3>2. \A j \in 1..(q.item - 1) : Stored(q.envelope, j)'
      BY <1>3, <2>1, StoredStays
    <3> QED BY <1>5, <1>12, <3>1, <3>2 DEF AfterItem
  <2>3. itemState'[r.envelope].state = "processing"
    BY <1>2, <1>3, <1>5 DEF AfterItem
  <2> QED BY <1>5, <1>6, <2>2, <2>3 DEF Progress
<1>14. d \in Nat /\ DurationBy[w] = d
  BY <1>1, <1>4, InsertedBy DEF ItemInv
<1>15. /\ w \in Inserting(g) /\ Inserting(g)' = Inserting(g) \ {w}
       /\ \A x : x # g => Inserting(x)' = Inserting(x)
       /\ \A v \in ItemWorker \ {w} : DurationBy'[v] = DurationBy[v]
  <2>1. w \in Inserting(g)
    BY <1>1, <1>4 DEF Inserting
  <2>2. Inserting(g)' = Inserting(g) \ {w}
    BY <1>6, <1>7 DEF Inserting
  <2>3. \A x : x # g => Inserting(x)' = Inserting(x)
    BY <1>1, <1>6, <1>7 DEF Inserting
  <2>4. \A v \in ItemWorker \ {w} : DurationBy'[v] = DurationBy[v]
    BY <1>7 DEF DurationBy
  <2> QED BY <2>1, <2>2, <2>3, <2>4
<1>16. /\ RowsOfGroup(g)' = RowsOfGroup(g) \cup {n + 1}
       /\ \A x : x # g => RowsOfGroup(x)' = RowsOfGroup(x)
       /\ DurationOf'[n + 1] = d /\ \A i \in 1..n : DurationOf'[i] = DurationOf[i]
  <2>1. row[3] = g /\ row[4] = d
    BY <1>1
  <2>2. 1..(n + 1) = (1..n) \cup {n + 1} /\ n + 1 \notin 1..n
    BY <1>9
  <2>3. RowsOfGroup(g)' = RowsOfGroup(g) \cup {n + 1}
    BY <1>9, <1>10, <2>1, <2>2 DEF RowsOfGroup
  <2>4. \A x : x # g => RowsOfGroup(x)' = RowsOfGroup(x)
    BY <1>9, <1>10, <2>1, <2>2 DEF RowsOfGroup
  <2>5. DurationOf'[n + 1] = d
    BY <1>10, <2>1, <2>2 DEF DurationOf
  <2>6. \A i \in 1..n : DurationOf'[i] = DurationOf[i]
    BY <1>9, <1>10, <2>2 DEF DurationOf
  <2> QED BY <2>3, <2>4, <2>5, <2>6
<1>17. ASSUME NEW x \in DOMAIN groupStats' PROVE GroupCovered(x, groupStats[x])'
  <2>1. PICK s : s = groupStats[x] /\ s = groupStats'[x]
    BY <1>2
  <2>2. GroupCovered(x, s)
    BY <1>2, <1>17, <2>1 DEF ItemInv, GroupsInv
  <2>3. CASE x # g
    <3>1. \A i \in RowsOfGroup(x) : DurationOf'[i] = DurationOf[i]
      BY <1>9, <1>16 DEF RowsOfGroup
    <3>2. w \notin Inserting(x)
      BY <1>1, <2>3 DEF Inserting
    <3>3. \A v \in Inserting(x) : DurationBy'[v] = DurationBy[v]
      BY <1>15, <3>2 DEF Inserting
    <3>4. GroupCovered(x, s)'
      BY <1>15, <1>16, <2>2, <2>3, <3>1, <3>3, OtherGroup
    <3> QED BY <2>1, <3>4
  <2>4. CASE x = g
    <3>1. PICK rows, I, J, a, b, c, e : /\ rows = RowsOfGroup(g) /\ I = Inserting(g) /\ J = I \ {w}
                                        /\ a = DurationOf /\ b = DurationOf'
                                        /\ c = DurationBy /\ e = DurationBy'
      OBVIOUS
    <3>2. /\ s.count \in Nat /\ s.sum \in Nat /\ s.min \in Nat /\ s.max \in Nat
          /\ Cardinality(rows) + Cardinality(I) <= s.count
          /\ SumOver(a, rows) + SumOver(c, I) <= s.sum
          /\ \A i \in rows : Within(s, a[i])
          /\ \A v \in I : Within(s, c[v])
      BY <2>2, <2>4, <3>1 DEF GroupCovered
    <3>3. /\ rows \in SUBSET (1..n) /\ IsFiniteSet(rows) /\ Cardinality(rows) \in Nat
          /\ \A i \in rows : a[i] \in Nat
          /\ SumOver(a, rows) \in Nat
      BY <1>1, <3>1, GroupRows DEF ItemInv
    <3>4. IsFiniteSet(I) /\ Cardinality(I) \in Nat /\ I \in SUBSET ItemWorker
      BY <3>1, InsertingFinite
    <3>5. \A v \in I : c[v] \in Nat
      BY <3>1, InsertingSums DEF ItemInv
    <3>6. w \in I /\ IsFiniteSet(J) /\ w \notin J /\ I = J \cup {w}
      BY <1>15, <3>1, <3>4, FS_RemoveElement
    <3>7. Cardinality(J) \in Nat /\ Cardinality(I) = Cardinality(J) + 1
      BY <3>6, FS_AddElement, FS_CardinalityType
    <3>8. SumOver(c, J) \in Nat /\ SumOver(c, I) = SumOver(c, J) + d
      <4>1. \A v \in J \cup {w} : c[v] \in Nat
        BY <3>5, <3>6
      <4>2. w \notin J /\ IsFiniteSet(J)
        BY <3>6
      <4>3. SumOver(c, J) \in Nat /\ SumOver(c, J \cup {w}) = SumOver(c, J) + c[w]
        BY ONLY <4>1, <4>2, OneMoreSummand
      <4> QED BY <1>14, <3>1, <3>6, <4>3
    <3>9. SumOver(e, J) = SumOver(c, J) /\ \A v \in J : e[v] = c[v]
      <4>1. \A v \in J : e[v] = c[v]
        BY <1>15, <3>1, <3>4
      <4> QED BY <4>1, UnitsAgree
    <3>10. n + 1 \notin rows /\ \A i \in rows : b[i] = a[i]
      BY <1>9, <1>16, <3>1, <3>3
    <3>11. Cardinality(rows \cup {n + 1}) = Cardinality(rows) + 1
      BY <3>3, <3>10, FS_AddElement
    <3>12. SumOver(b, rows \cup {n + 1}) = SumOver(a, rows) + d
      <4>1. SumOver(b, rows) = SumOver(a, rows)
        BY <3>10, UnitsAgree
      <4>2. \A i \in rows \cup {n + 1} : b[i] \in Nat
        BY <1>14, <1>16, <3>1, <3>3, <3>10
      <4>3. n + 1 \notin rows /\ IsFiniteSet(rows)
        BY <3>3, <3>10
      <4>4. SumOver(b, rows \cup {n + 1}) = SumOver(b, rows) + b[n + 1]
        BY ONLY <4>2, <4>3, OneMoreSummand
      <4> QED BY <1>16, <3>1, <4>1, <4>4
    <3>13. Cardinality(rows \cup {n + 1}) + Cardinality(J) <= s.count
      <4>1. PICK k, l, m, o : /\ k = Cardinality(rows) /\ l = Cardinality(I)
                              /\ m = Cardinality(J) /\ o = Cardinality(rows \cup {n + 1})
        OBVIOUS
      <4>2. /\ k \in Nat /\ m \in Nat /\ l = m + 1 /\ o = k + 1 /\ k + l <= s.count /\ s.count \in Nat
        BY <3>2, <3>3, <3>7, <3>11, <4>1
      <4>3. o + m <= s.count
        BY ONLY <4>2
      <4> QED BY <4>1, <4>3
    <3>14. SumOver(b, rows \cup {n + 1}) + SumOver(e, J) <= s.sum
      <4>1. PICK k, l, m, o : /\ k = SumOver(a, rows) /\ l = SumOver(c, I)
                              /\ m = SumOver(c, J) /\ o = SumOver(b, rows \cup {n + 1})
        OBVIOUS
      <4>2. /\ k \in Nat /\ m \in Nat /\ l = m + d /\ o = k + d /\ k + l <= s.sum /\ s.sum \in Nat
        BY <3>2, <3>3, <3>8, <3>12, <4>1
      <4>3. o + m <= s.sum
        BY ONLY <4>2, <1>14
      <4> QED BY <3>9, <4>1, <4>3
    <3>15. \A i \in rows \cup {n + 1} : Within(s, b[i])
      <4>1. Within(s, d)
        BY <1>14, <3>1, <3>2, <3>6
      <4> QED BY <1>16, <3>1, <3>2, <3>10, <4>1
    <3>16. \A v \in J : Within(s, e[v])
      BY <3>2, <3>6, <3>9
    <3>17. RowsOfGroup(g)' = rows \cup {n + 1} /\ Inserting(g)' = J
      BY <1>15, <1>16, <3>1
    <3>18. GroupCovered(g, s)'
      BY <3>1, <3>2, <3>13, <3>14, <3>15, <3>16, <3>17 DEF GroupCovered, SumOver
    <3> QED BY <2>1, <2>4, <3>18
  <2> QED BY <2>3, <2>4
<1>18. GroupsInv'
  <2>1. transactions' \in Seq(ToSet(transactions'))
    BY <1>10, <1>11
  <2>2. ASSUME NEW i \in DOMAIN transactions'
        PROVE  transactions'[i][4] \in Nat /\ transactions'[i][3] \in DOMAIN groupStats'
    <3>1. CASE i \in 1..n
      BY <1>2, <1>9, <1>10, <3>1 DEF ItemInv, GroupsInv
    <3>2. CASE i = n + 1
      <4>1. g \in DOMAIN groupStats
        BY <1>1, <1>4 DEF ItemInv, GroupsInv
      <4> QED BY <1>1, <1>2, <1>10, <1>14, <3>2, <4>1
    <3>3. i \in 1..n \/ i = n + 1
      BY <1>9, <1>10, <2>2
    <3> QED BY <3>1, <3>2, <3>3
  <2>3. \A v \in ItemWorker : InTransaction(itemWork'[v]) =>
          ItemAt(itemWork'[v]).group \in DOMAIN groupStats'
    BY <1>2, <1>6, <1>7 DEF ItemInv, GroupsInv
  <2> QED BY <1>17, <2>1, <2>2, <2>3 DEF GroupsInv
<1>19. ToSet(transactions) \subseteq ToSet(transactions)'
  BY <1>8, <1>11
<1> QED BY <1>2, <1>5, <1>6, <1>13, <1>18, <1>19, TransactionStep

-----------------------------------------------------------------------------
\* The invariant holds, and with it what envelopes promise.

LEMMA ItemInitInv == ItemInit => ItemInv
<1> SUFFICES ASSUME ItemInit PROVE ItemInv
  OBVIOUS
<1>1. /\ \A w \in ItemWorker : itemWork[w].step = "idle"
      /\ \A w \in ItemWorker : ~ InTransaction(itemWork[w])
  BY DEF ItemInit, IdleWork, InTransaction
<1>2. itemEvents = {} /\ eventTags = {} /\ transactions = <<>>
  BY DEF ItemInit
<1>3. tagValues = NoFunction /\ hourCounts = NoFunction /\ groupStats = NoFunction
  BY DEF ItemInit
<1>4. DOMAIN NoFunction = {}
  BY DEF NoFunction
<1>5. PlacesInv
  BY <1>1 DEF PlacesInv
<1>6. StatesTyped /\ DoneStored
  BY DEF ItemInit, StatesTyped, DoneStored
<1>7. RowsTyped
  BY <1>2, FS_EmptySet DEF RowsTyped
<1>8. CountsInv
  <2>1. UnitsOf(hourCounts, {}) = {} /\ Closed = {}
    BY <1>2 DEF UnitsOf, Closed
  <2>2. Cardinality({}) = 0 /\ IsFiniteSet({})
    BY FS_EmptySet
  <2>3. SumOver(hourCounts, {}) <= Cardinality(Closed)
    BY <2>1, <2>2 DEF SumOver
  <2>4. DOMAIN tagValues = {} /\ DOMAIN hourCounts = {}
    BY <1>3, <1>4
  <2> QED BY <2>2, <2>3, <2>4 DEF CountsInv
<1>9. GroupsInv
  <2>1. transactions \in Seq(ToSet(transactions)) /\ DOMAIN transactions = {}
    BY <1>2
  <2>2. DOMAIN groupStats = {}
    BY <1>3, <1>4
  <2> QED BY <1>1, <2>1, <2>2 DEF GroupsInv
<1> QED BY <1>5, <1>6, <1>7, <1>8, <1>9 DEF ItemInv

LEMMA ItemStepInv ==
  ASSUME WorkShape, ItemInv, ItemNext
  PROVE  ItemInv'
<1>1. CASE \E w \in ItemWorker, e \in ItemEnvelope : TakeEnvelope(w, e)
  BY <1>1, TakeEnvelopeKeeps
<1>2. CASE \E w \in ItemWorker : InsertEvent(w) \/ InsertTags(w) \/ InsertValue(w) \/ BumpValue(w)
  BY <1>2, InsertEventKeeps, InsertTagsKeeps, InsertValueKeeps, BumpValueKeeps
<1>3. CASE \E w \in ItemWorker : \E k \in {t[1] : t \in DOMAIN tagValues} : RecountKey(w, k)
  BY <1>3, RecountKeyKeeps
<1>4. CASE \E w \in ItemWorker :
             CountHour(w) \/ SkipTransaction(w) \/ UpsertGroup(w) \/ InsertTransaction(w)
  BY <1>4, CountHourKeeps, SkipTransactionKeeps, UpsertGroupKeeps, InsertTransactionKeeps
<1>5. CASE \E w \in ItemWorker : InsertReport(w) \/ FinishEnvelope(w) \/ StatementFails(w)
  BY <1>5, InsertReportKeeps, FinishEnvelopeKeeps, StatementFailsKeeps
<1>6. CASE ItemCrash
  BY <1>6, ItemCrashKeeps
<1>7. CASE \E h \in DOMAIN hourCounts : PruneHours(h + 1)
  BY <1>7, PruneHoursKeeps
<1> QED BY <1>1, <1>2, <1>3, <1>4, <1>5, <1>6, <1>7 DEF ItemNext

LEMMA ItemStutterInv ==
  ASSUME ItemInv, UNCHANGED itemVars
  PROVE  ItemInv'
<1>1. UNCHANGED <<itemState, itemWork, itemEvents, eventTags, tagValues, hourCounts, groupStats,
                  transactions>>
  BY DEF itemVars, itemTables
<1>2. QuietEvents /\ QuietTransactions
  BY <1>1 DEF QuietEvents, QuietEvent, QuietTransactions, QuietTransaction
<1>3. TablesGrow /\ (\A id : RowsOf(id)' = RowsOf(id)) /\ RowsTyped'
  BY <1>1, <1>2, QuietTables DEF ItemInv
<1>4. CountsInv' /\ GroupsInv'
  BY <1>1, <1>2, CountsStay, GroupsStay DEF ItemInv
<1>5. StatesTyped' /\ DoneStored'
  BY <1>1, <1>3, DoneStays DEF ItemInv, StatesTyped
<1>6. PlacesInv'
  <2>1. \A q : Progress(q) => Progress(q)'
    BY <1>1, <1>3, StoredStays DEF Progress, WrittenBy
  <2> QED BY <1>1, <2>1 DEF ItemInv, PlacesInv
<1> QED BY <1>3, <1>4, <1>5, <1>6 DEF ItemInv

\* Every step of a worker, a failure, a crash and retention keep the invariant.
THEOREM ItemInvariant == ItemSpec => []ItemInv
<1>1. TagInv => WorkShape
  BY DEF TagInv
<1>2. WorkShape /\ ItemInv /\ [ItemNext]_itemVars => ItemInv'
  BY ItemStepInv, ItemStutterInv
<1> QED BY <1>1, <1>2, ItemInitInv, TagInvariant, PTL DEF ItemSpec

LEMMA DoneHasItsRows ==
  ASSUME ItemInv
  PROVE  DoneIsComplete
<1>1. SUFFICES ASSUME NEW e \in ItemEnvelope, itemState[e].state = "done",
                      NEW i \in DOMAIN ItemsInOrder[e], NEW item, item = ItemsInOrder[e][i]
               PROVE  /\ item.is = "event" =>
                           /\ item.event.id \in itemEvents
                           /\ {Joined(<<r[2], r[3]>>) : r \in {r \in eventTags : r[1] = item.event.id}}
                                = {Joined(t) : t \in ToSet(NamedTags(item.event))}
                      /\ item.is = "transaction" /\ item.parses =>
                           \E r \in ToSet(transactions) : r[1] = e /\ r[2] = i
  BY DEF DoneIsComplete
<1>2. i \in 1..Len(ItemsInOrder[e])
  BY <1>1, ItemsAre
<1>3. Stored(e, i)
  BY <1>1, <1>2 DEF ItemInv, DoneStored, AllStored
<1>4. ASSUME item.is = "event"
      PROVE  /\ item.event.id \in itemEvents
             /\ {Joined(<<r[2], r[3]>>) : r \in {r \in eventTags : r[1] = item.event.id}}
                  = {Joined(t) : t \in ToSet(NamedTags(item.event))}
  <2>1. PICK id, tags : id = item.event.id /\ tags = TagsOf[e][i]
    OBVIOUS
  <2>2. id \in itemEvents /\ RowsOf(id) = RowsFor(id, tags, Len(tags))
    BY <1>1, <1>3, <1>4, <2>1 DEF Stored, StoredEvent, Closed
  <2>3. AllPairs(tags) /\ ReadAlike(tags, NamedTags(item.event))
    <3>1. ItemsInOrder[e][i].is = "event" /\ tags = TagsOf[e][i]
      BY <1>1, <1>4, <2>1
    <3>2. AllPairs(tags)
      BY <1>2, <3>1, TagsAre
    <3>3. ReadAlike(tags, NamedTags(ItemsInOrder[e][i].event))
      BY ONLY <1>1, <1>2, <3>1, TagsAre
    <3> QED BY <1>1, <3>2, <3>3
  <2>4. \A x : x \in ToSet(tags) <=> \E k \in 1..Len(tags) : x = tags[k]
    <3>1. ByPosition(tags)
      BY <1>1, <1>2, <1>4, <2>1, TagsAre
    <3> QED BY <3>1 DEF ByPosition
  <2>5. {Joined(<<r[2], r[3]>>) : r \in RowsOf(id)} = {Joined(x) : x \in ToSet(tags)}
    <3>1. ASSUME NEW r \in RowsOf(id) PROVE Joined(<<r[2], r[3]>>) \in {Joined(x) : x \in ToSet(tags)}
      <4>1. PICK k \in 1..Len(tags) : r = <<id, tags[k][1], tags[k][2]>>
        BY <2>2, <3>1 DEF RowsFor
      <4>2. <<r[2], r[3]>> = tags[k]
        BY <2>3, <4>1 DEF AllPairs
      <4> QED BY <2>4, <4>2
    <3>2. ASSUME NEW x \in ToSet(tags) PROVE Joined(x) \in {Joined(<<r[2], r[3]>>) : r \in RowsOf(id)}
      <4>1. PICK k \in 1..Len(tags) : x = tags[k]
        BY <2>4, <3>2
      <4>2. PICK r : r = <<id, tags[k][1], tags[k][2]>>
        OBVIOUS
      <4>3. r \in RowsOf(id)
        BY <2>2, <4>2 DEF RowsFor
      <4>4. <<r[2], r[3]>> = x
        BY <2>3, <4>1, <4>2 DEF AllPairs
      <4> QED BY <4>3, <4>4
    <3> QED BY <3>1, <3>2
  <2>6. {Joined(x) : x \in ToSet(tags)} = {Joined(t) : t \in ToSet(NamedTags(item.event))}
    BY <2>3 DEF ReadAlike
  <2>7. RowsOf(id) = {r \in eventTags : r[1] = item.event.id}
    BY <2>1 DEF RowsOf
  <2> QED BY <2>1, <2>2, <2>5, <2>6, <2>7
<1>5. item.is = "transaction" /\ item.parses => \E r \in ToSet(transactions) : r[1] = e /\ r[2] = i
  BY <1>1, <1>3 DEF Stored, StoredTransaction
<1> QED BY <1>4, <1>5

LEMMA NothingCountedTwice ==
  ASSUME ItemInv
  PROVE  RetriesCountOnce
<1>1. ASSUME NEW t \in DOMAIN tagValues
      PROVE  tagValues[t] <= Cardinality({r \in eventTags : <<r[2], r[3]>> = t})
  <2>1. PICK U, V : U = CountedRows(t) /\ V = {r \in eventTags : <<r[2], r[3]>> = t}
    OBVIOUS
  <2>2. U \in SUBSET V /\ V \in SUBSET eventTags
    BY <2>1 DEF CountedRows
  <2>3. IsFiniteSet(V) /\ IsFiniteSet(U)
    BY <2>2, FS_Subset DEF ItemInv, RowsTyped
  <2>4. Cardinality(U) \in Nat /\ Cardinality(V) \in Nat /\ Cardinality(U) <= Cardinality(V)
    BY <2>2, <2>3, FS_Subset, FS_CardinalityType
  <2>5. PICK c : c = tagValues[t]
    OBVIOUS
  <2>6. c \in Nat /\ c <= Cardinality(U)
    BY <2>1, <2>5 DEF ItemInv, CountsInv
  <2>7. c <= Cardinality(V)
    BY <2>4, <2>6
  <2> QED BY <2>1, <2>5, <2>7
<1>2. SumOver(hourCounts, DOMAIN hourCounts) <= Cardinality(itemEvents)
  <2>1. PICK U, s : U = Closed /\ s = SumOver(hourCounts, DOMAIN hourCounts)
    OBVIOUS
  <2>2. U \in SUBSET itemEvents /\ IsFiniteSet(itemEvents)
    BY <2>1 DEF Closed, ItemInv, RowsTyped
  <2>3. /\ Cardinality(U) \in Nat /\ Cardinality(itemEvents) \in Nat
        /\ Cardinality(U) <= Cardinality(itemEvents)
    BY <2>2, FS_Subset, FS_CardinalityType
  <2>4. s \in Nat
    BY <2>1, UnitsFinite DEF ItemInv, CountsInv
  <2>5. s <= Cardinality(U)
    BY <2>1 DEF ItemInv, CountsInv
  <2> QED BY <2>1, <2>3, <2>4, <2>5
<1> QED BY <1>1, <1>2 DEF RetriesCountOnce

LEMMA RowsAreCovered ==
  ASSUME ItemInv
  PROVE  GroupsCoverTransactions
<1>1. SUFFICES ASSUME NEW i \in DOMAIN transactions, NEW g, NEW rows,
                      g = transactions[i][3], rows = RowsOfGroup(g)
               PROVE  /\ g \in DOMAIN groupStats
                      /\ Cardinality(rows) <= groupStats[g].count
                      /\ SumOver([j \in rows |-> transactions[j][4]], rows) <= groupStats[g].sum
                      /\ groupStats[g].min <= transactions[i][4]
                      /\ transactions[i][4] <= groupStats[g].max
                      /\ 0 <= groupStats[g].min
  BY DEF GroupsCoverTransactions
<1>2. g \in DOMAIN groupStats
  BY <1>1 DEF ItemInv, GroupsInv
<1>3. PICK s, a, I, b : /\ s = groupStats[g] /\ a = DurationOf
                        /\ I = Inserting(g) /\ b = DurationBy
  OBVIOUS
<1>4. /\ s.count \in Nat /\ s.sum \in Nat /\ s.min \in Nat /\ s.max \in Nat
      /\ Cardinality(rows) + Cardinality(I) <= s.count
      /\ SumOver(a, rows) + SumOver(b, I) <= s.sum
      /\ \A j \in rows : Within(s, a[j])
  BY <1>1, <1>2, <1>3 DEF ItemInv, GroupsInv, GroupCovered
<1>5. /\ Cardinality(rows) \in Nat /\ SumOver(a, rows) \in Nat /\ rows \in SUBSET DOMAIN transactions
  BY <1>1, <1>3, GroupRows DEF ItemInv
<1>6. Cardinality(I) \in Nat /\ SumOver(b, I) \in Nat
  BY <1>3, InsertingFinite, InsertingSums DEF ItemInv
<1>7. Cardinality(rows) <= s.count
  BY <1>4, <1>5, <1>6
<1>8. SumOver([j \in rows |-> transactions[j][4]], rows) <= s.sum
  <2>1. PICK f : f = [j \in rows |-> transactions[j][4]]
    OBVIOUS
  <2>2. \A j \in rows : f[j] = a[j]
    BY <1>3, <1>5, <2>1 DEF DurationOf
  <2>3. SumOver(f, rows) = SumOver(a, rows)
    BY <2>2, UnitsAgree
  <2>4. SumOver(f, rows) <= s.sum
    BY <1>4, <1>5, <1>6, <2>3
  <2> QED BY <2>1, <2>4
<1>9. Within(s, transactions[i][4])
  <2>1. i \in rows /\ a[i] = transactions[i][4]
    BY <1>1, <1>3 DEF RowsOfGroup, DurationOf
  <2> QED BY <1>4, <2>1
<1> QED BY <1>2, <1>3, <1>4, <1>7, <1>8, <1>9 DEF Within

\* What process_inner (worker/processor.rs) and index_event (worker/indexer.rs)
\* leave behind, whatever fails between two statements and however often the
\* envelope is retried: a done envelope has all its rows, an event is counted once
\* on its tags and its hour, and a group covers its transactions.
THEOREM ItemsAreAccounted == ItemSpec => []ItemsAccounted
<1>1. ItemInv => ItemsAccounted
  BY DoneHasItsRows, NothingCountedTwice, RowsAreCovered DEF ItemsAccounted
<1> QED BY <1>1, ItemInvariant, PTL

-----------------------------------------------------------------------------
\* EventGrouping: what a hang is grouped by.

\* From the frame after the n-th on a stack only waits.
WaitsAbove(frames, n) ==
  n \in 0..Len(frames) /\ \A i \in (n + 1)..Len(frames) : WaitsOnly(frames[i])

\* The frames that may be the cause of a hang and have a function's name.
NamedCauses(frames) ==
  {i \in DOMAIN frames : ~WaitsOnly(frames[i]) /\ NamedFrame(frames[i]) /\ i # EntryPoint(frames)}
ImageCauses(frames) == {i \in DOMAIN frames : ~WaitsOnly(frames[i]) /\ frames[i].image # Nothing}

\* A wait is the entry point of a stack only when nothing below it is of the app.
LEMMA EntryStays ==
  ASSUME NEW n \in Nat, NEW m \in Nat, n <= m, NEW base, NEW frames,
         DOMAIN base = 1..n, DOMAIN frames = 1..m, \A i \in 1..n : base[i] = frames[i],
         NEW i \in 1..n
  PROVE  i = EntryPoint(frames) <=> i = EntryPoint(base)
<1>1. PICK below, all :
        /\ below = {j \in DOMAIN base : base[j].inApp}
        /\ all = {j \in DOMAIN frames : frames[j].inApp}
  OBVIOUS
<1>2. below = {j \in all : j <= n} /\ all \subseteq 1..m /\ below \subseteq 1..n
  BY <1>1
<1>3. CASE below = {}
  <2>1. EntryPoint(base) = 0
    BY <1>1, <1>3 DEF EntryPoint
  <2>2. CASE all = {}
    BY <1>1, <2>1, <2>2 DEF EntryPoint
  <2>3. CASE all # {}
    <3>1. PICK first : first = CHOOSE j \in all : \A k \in all : j <= k
      OBVIOUS
    <3>2. all \subseteq Nat
      BY <1>2
    <3>3. \E j \in all : \A k \in all : j <= k
      BY <2>3, <3>2, LeastNumber
    <3>4. first \in all
      BY <3>1, <3>3
    <3>5. EntryPoint(frames) = first
      BY <1>1, <2>3, <3>1 DEF EntryPoint
    <3> QED BY <1>2, <1>3, <2>1, <3>4, <3>5
  <2> QED BY <2>2, <2>3
<1>4. CASE below # {}
  <2>1. PICK least \in below : \A k \in below : least <= k
    <3>1. below \subseteq Nat
      BY <1>2
    <3> QED BY <1>4, <3>1, LeastNumber
  <2>2. least \in all /\ \A k \in all : least <= k
    BY <1>2, <2>1
  <2>3. EntryPoint(base) = CHOOSE j \in below : \A k \in below : j <= k
    BY <1>1, <1>4 DEF EntryPoint
  <2>4. EntryPoint(frames) = CHOOSE j \in all : \A k \in all : j <= k
    BY <1>1, <2>2 DEF EntryPoint
  <2>5. ASSUME NEW T, T \subseteq Nat, least \in T, \A k \in T : least <= k
        PROVE  (CHOOSE j \in T : \A k \in T : j <= k) = least
    <3>1. PICK j : j = CHOOSE x \in T : \A k \in T : x <= k
      OBVIOUS
    <3>2. j \in T /\ \A k \in T : j <= k
      BY <2>5, <3>1
    <3>3. j <= least /\ least <= j /\ j \in Nat /\ least \in Nat
      BY <2>5, <3>2
    <3> QED BY <3>1, <3>3
  <2>6. below \subseteq Nat /\ all \subseteq Nat
    BY <1>2
  <2>7. EntryPoint(base) = least
    BY <2>1, <2>3, <2>5, <2>6
  <2>8. EntryPoint(frames) = least
    BY <2>2, <2>4, <2>5, <2>6
  <2> QED BY <2>7, <2>8
<1> QED BY <1>3, <1>4

\* hang_frame finds the same frame whatever waits are on top.
LEMMA WaitsChangeNothing ==
  ASSUME NEW frames, frames \in Seq(ToSet(frames)), NEW n, WaitsAbove(frames, n)
  PROVE  HangFrame(frames) = HangFrame(SubSeq(frames, 1, n))
<1>1. PICK m, base : m = Len(frames) /\ base = SubSeq(frames, 1, n)
  OBVIOUS
<1>2. /\ m \in Nat /\ n \in Nat /\ n <= m /\ DOMAIN frames = 1..m
      /\ \A i \in (n + 1)..m : WaitsOnly(frames[i])
  BY <1>1 DEF WaitsAbove
<1>3. DOMAIN base = 1..n /\ \A i \in 1..n : base[i] = frames[i]
  BY <1>1, <1>2
<1>4. \A i \in 1..n : i = EntryPoint(frames) <=> i = EntryPoint(base)
  BY <1>2, <1>3, EntryStays
<1>5. \A i \in 1..m : ~WaitsOnly(frames[i]) => i \in 1..n
  BY <1>2
<1>6. PICK named, images : named = NamedCauses(base) /\ images = ImageCauses(base)
  OBVIOUS
<1>7. named \subseteq 1..n /\ images \subseteq 1..n
  BY <1>3, <1>6 DEF NamedCauses, ImageCauses
<1>8. NamedCauses(frames) = named
  BY <1>2, <1>3, <1>4, <1>5, <1>6 DEF NamedCauses
<1>9. ImageCauses(frames) = images
  BY <1>2, <1>3, <1>5, <1>6 DEF ImageCauses
<1>10. ASSUME NEW T, T \subseteq 1..n, T # {} PROVE base[LastOf(T)] = frames[LastOf(T)]
  <2>1. \E i \in T : \A j \in T : j <= i
    <3>1. T \subseteq 0..n
      BY <1>2, <1>10
    <3> QED BY <1>2, <1>10, <3>1, GreatestNumber
  <2>2. LastOf(T) \in T
    BY <2>1 DEF LastOf
  <2> QED BY <1>3, <1>10, <2>2
<1>11. ASSUME NEW stack, NamedCauses(stack) = named, ImageCauses(stack) = images
       PROVE  HangFrame(stack) =
                CASE named # {} -> << [image |-> stack[LastOf(named)].image,
                                       function |-> stack[LastOf(named)].function] >>
                  [] named = {} /\ images # {} ->
                       << [image |-> stack[LastOf(images)].image, function |-> Nothing] >>
                  [] OTHER -> <<>>
  <2>1. /\ {i \in {j \in DOMAIN stack : ~WaitsOnly(stack[j])} :
              NamedFrame(stack[i]) /\ i # EntryPoint(stack)} = named
        /\ {i \in {j \in DOMAIN stack : ~WaitsOnly(stack[j])} : stack[i].image # Nothing} = images
    BY <1>11 DEF NamedCauses, ImageCauses
  <2> QED BY <2>1 DEF HangFrame
<1>12. CASE named # {}
  BY <1>1, <1>6, <1>7, <1>8, <1>9, <1>10, <1>11, <1>12
<1>13. CASE named = {} /\ images # {}
  BY <1>1, <1>6, <1>7, <1>8, <1>9, <1>10, <1>11, <1>13
<1>14. CASE named = {} /\ images = {}
  BY <1>1, <1>6, <1>8, <1>9, <1>11, <1>14
<1> QED BY <1>12, <1>13, <1>14

-----------------------------------------------------------------------------
\* EventGrouping: what a build's words stand for.

\* A name of the source that a build's map has for a word, or the word itself.
StandsFor(pairs, name, word) ==
  /\ \A i \in DOMAIN pairs : pairs[i][2] = word => pairs[i][1] = name
  /\ (\A i \in DOMAIN pairs : pairs[i][2] # word) => name = word

LEMMA NameIsFound ==
  ASSUME NEW pairs, pairs \in Seq(ToSet(pairs)), NEW name, NEW word, StandsFor(pairs, name, word)
  PROVE  Deobfuscated(pairs, word) = name
<1>1. PICK n, known : n = Len(pairs) /\ known = {i \in DOMAIN pairs : pairs[i][2] = word}
  OBVIOUS
<1>2. n \in Nat /\ DOMAIN pairs = 1..n
  BY <1>1
<1>3. CASE known = {}
  BY <1>1, <1>3 DEF Deobfuscated, StandsFor
<1>4. CASE known # {}
  <2>1. \E i \in known : \A j \in known : j <= i
    <3>1. known \subseteq 0..n
      BY <1>1, <1>2
    <3> QED BY <1>2, <1>4, <3>1, GreatestNumber
  <2>2. LastOf(known) \in known
    BY <2>1 DEF LastOf
  <2>3. pairs[LastOf(known)][1] = name
    BY <1>1, <2>2 DEF StandsFor
  <2> QED BY <1>1, <1>4, <2>3 DEF Deobfuscated
<1> QED BY <1>3, <1>4

\* The words of a type and of a value that are names.
TypeStands(pairs, type, sent) ==
  IF Len(sent) = 1 THEN type = <<type[1]>> /\ StandsFor(pairs, type[1], sent[1]) ELSE type = sent
ValueStands(pairs, value, sent) ==
  /\ value = [i \in DOMAIN sent |-> value[i]]
  /\ \A i \in DOMAIN sent :
       IF i > 1 /\ sent[i - 1] = "Instance of" THEN StandsFor(pairs, value[i], sent[i])
       ELSE value[i] = sent[i]

\* What is grouped of an event.
SameContents(d, e) ==
  /\ d.fingerprint = e.fingerprint /\ d.mechanism = e.mechanism /\ d.message = e.message
  /\ d.logger = e.logger /\ d.level = e.level /\ d.platform = e.platform
  /\ d.transaction = e.transaction

\* The exceptions as the source says them of the ones a build sent.
StandFor(pairs, exceptions, sent) ==
  \E types, values :
    /\ exceptions = [n \in DOMAIN sent |-> [sent[n] EXCEPT !.type = types[n], !.value = values[n]]]
    /\ \A n \in DOMAIN sent : /\ TypeStands(pairs, types[n], sent[n].type)
                              /\ ValueStands(pairs, values[n], sent[n].value)

\* An event says what another says in the words of its build, whose map is the
\* only one of the event's images.
Says(e, d) ==
  /\ DOMAIN d = DOMAIN e /\ SameContents(d, e)
  /\ \/ MapsOf(e) = {} /\ d.exceptions = e.exceptions
     \/ \E m \in DartMaps : MapsOf(e) = {m} /\ StandFor(m.pairs, d.exceptions, e.exceptions)

LEMMA NamesAreRestored ==
  ASSUME NEW e, "exceptions" \in DOMAIN e, NEW pairs, pairs \in Seq(ToSet(pairs)),
         NEW exceptions, StandFor(pairs, exceptions, e.exceptions)
  PROVE  NamedBy(e, pairs).exceptions = exceptions
<1>1. PICK sent : sent = e.exceptions /\ StandFor(pairs, exceptions, sent)
  OBVIOUS
<1>2. PICK types, values :
        /\ exceptions = [n \in DOMAIN sent |-> [sent[n] EXCEPT !.type = types[n], !.value = values[n]]]
        /\ \A n \in DOMAIN sent : /\ TypeStands(pairs, types[n], sent[n].type)
                                  /\ ValueStands(pairs, values[n], sent[n].value)
  BY <1>1 DEF StandFor
<1>3. ASSUME NEW n \in DOMAIN sent
      PROVE  (IF Len(sent[n].type) = 1 THEN <<Deobfuscated(pairs, sent[n].type[1])>> ELSE sent[n].type)
               = types[n]
  <2>1. PICK type, word : type = types[n] /\ word = sent[n].type
    OBVIOUS
  <2>2. TypeStands(pairs, type, word)
    BY <1>2, <2>1
  <2>3. CASE Len(word) = 1
    <3>1. type = <<type[1]>> /\ StandsFor(pairs, type[1], word[1])
      BY <2>2, <2>3 DEF TypeStands
    <3>2. Deobfuscated(pairs, word[1]) = type[1]
      BY <3>1, NameIsFound
    <3> QED BY <2>1, <2>3, <3>1, <3>2
  <2>4. CASE Len(word) # 1
    BY <2>1, <2>2, <2>4 DEF TypeStands
  <2> QED BY <2>3, <2>4
<1>4. ASSUME NEW n \in DOMAIN sent PROVE RewrittenValue(pairs, sent[n].value) = values[n]
  <2>1. PICK value, words : value = values[n] /\ words = sent[n].value
    OBVIOUS
  <2>2. /\ value = [i \in DOMAIN words |-> value[i]]
        /\ \A i \in DOMAIN words :
             IF i > 1 /\ words[i - 1] = "Instance of" THEN StandsFor(pairs, value[i], words[i])
             ELSE value[i] = words[i]
    BY <1>2, <2>1 DEF ValueStands
  <2>3. \A i \in DOMAIN words :
          (IF i > 1 /\ words[i - 1] = "Instance of" THEN Deobfuscated(pairs, words[i]) ELSE words[i]) = value[i]
    BY <2>2, NameIsFound
  <2>4. RewrittenValue(pairs, words) = [i \in DOMAIN words |-> value[i]]
    BY <2>3 DEF RewrittenValue
  <2> QED BY <2>1, <2>2, <2>4
<1>5. NamedBy(e, pairs).exceptions =
        [n \in DOMAIN sent |->
           [sent[n] EXCEPT
              !.type = IF Len(sent[n].type) = 1 THEN <<Deobfuscated(pairs, sent[n].type[1])>> ELSE sent[n].type,
              !.value = RewrittenValue(pairs, sent[n].value)]]
  BY <1>1 DEF NamedBy
<1> QED BY <1>2, <1>3, <1>4, <1>5

-----------------------------------------------------------------------------
\* EventGrouping: events of one cause.

SameEvents(d, e) == SameContents(d, e) /\ d.exceptions = e.exceptions

\* Two hangs of the same stack, each under waits of its own.
SameHang(d, e) ==
  /\ d.fingerprint = <<>> /\ e.fingerprint = <<>>
  /\ d.mechanism = "AppHang" /\ e.mechanism = "AppHang"
  /\ d.exceptions # <<>> /\ e.exceptions # <<>>
  /\ d.exceptions[1].type = e.exceptions[1].type
  /\ \E stack, other : /\ stack = d.exceptions[1].frames /\ other = e.exceptions[1].frames
                       /\ stack \in Seq(ToSet(stack)) /\ other \in Seq(ToSet(other))
                       /\ \E m, n : /\ WaitsAbove(stack, m) /\ WaitsAbove(other, n)
                                    /\ SubSeq(stack, 1, m) = SubSeq(other, 1, n)
                                    /\ HangFrame(SubSeq(stack, 1, m)) # <<>>

\* Two errors of one type with the same frames of the app, whatever their values
\* and the frames between.
SameError(d, e) ==
  /\ d.fingerprint = <<>> /\ e.fingerprint = <<>>
  /\ Hang(d) = <<>> /\ Hang(e) = <<>>
  /\ d.exceptions # <<>> /\ e.exceptions # <<>>
  /\ d.exceptions[1].type = e.exceptions[1].type
  /\ InAppFrames(d.exceptions[1].frames) = InAppFrames(e.exceptions[1].frames)
  /\ InAppFrames(d.exceptions[1].frames) # <<>>

ShownAlike(d, e) == Title(d) = Title(e) /\ Culprit(d) = Culprit(e)

LEMMA SameEventsAlike ==
  ASSUME NEW d, NEW e, SameEvents(d, e)
  PROVE  Fingerprint(d) = Fingerprint(e) /\ ShownAlike(d, e)
<1>1. PICK exceptions : exceptions = d.exceptions /\ exceptions = e.exceptions
  BY DEF SameEvents
<1>2. PICK hang : hang = Hang(d) /\ hang = Hang(e)
  BY <1>1 DEF SameEvents, SameContents, Hang
<1>3. /\ HangFingerprint(d, hang[1]) = HangFingerprint(e, hang[1])
      /\ HangTitle(d, hang[1]) = HangTitle(e, hang[1])
  BY <1>1 DEF HangFingerprint, HangTitle
<1>4. Fingerprint(d) = Fingerprint(e)
  BY <1>1, <1>2, <1>3 DEF SameEvents, SameContents, Fingerprint
<1>5. Title(d) = Title(e)
  BY <1>1, <1>2, <1>3 DEF SameEvents, SameContents, Title
<1>6. Culprit(d) = Culprit(e)
  BY <1>1, <1>2 DEF SameEvents, SameContents, Culprit
<1> QED BY <1>4, <1>5, <1>6 DEF ShownAlike

LEMMA SameHangAlike ==
  ASSUME NEW d, NEW e, SameHang(d, e)
  PROVE  Fingerprint(d) = Fingerprint(e) /\ ShownAlike(d, e)
<1>1. PICK stack, other, m, n :
        /\ stack = d.exceptions[1].frames /\ other = e.exceptions[1].frames
        /\ stack \in Seq(ToSet(stack)) /\ other \in Seq(ToSet(other))
        /\ WaitsAbove(stack, m) /\ WaitsAbove(other, n)
        /\ SubSeq(stack, 1, m) = SubSeq(other, 1, n)
        /\ HangFrame(SubSeq(stack, 1, m)) # <<>>
  BY DEF SameHang
<1>2. PICK hang : hang = HangFrame(SubSeq(stack, 1, m))
  OBVIOUS
<1>3. HangFrame(stack) = hang /\ HangFrame(other) = hang /\ hang # <<>>
  BY <1>1, <1>2, WaitsChangeNothing
<1>4. Hang(d) = hang /\ Hang(e) = hang
  BY <1>1, <1>3 DEF Hang, SameHang
<1>5. PICK type : type = d.exceptions[1].type /\ type = e.exceptions[1].type
  BY DEF SameHang
<1>6. /\ HangFingerprint(d, hang[1]) = HangFingerprint(e, hang[1])
      /\ HangTitle(d, hang[1]) = HangTitle(e, hang[1])
  BY <1>5 DEF HangFingerprint, HangTitle
<1>7. Fingerprint(d) = HangFingerprint(d, hang[1]) /\ Fingerprint(e) = HangFingerprint(e, hang[1])
  BY <1>3, <1>4 DEF Fingerprint, SameHang
<1>8. Title(d) = HangTitle(d, hang[1]) /\ Title(e) = HangTitle(e, hang[1])
  BY <1>3, <1>4 DEF Title
<1>9. Culprit(d) = HangCulprit(hang[1]) /\ Culprit(e) = HangCulprit(hang[1])
  BY <1>3, <1>4 DEF Culprit
<1> QED BY <1>6, <1>7, <1>8, <1>9 DEF ShownAlike

LEMMA SameErrorAlike ==
  ASSUME NEW d, NEW e, SameError(d, e)
  PROVE  Fingerprint(d) = Fingerprint(e)
<1>1. PICK x, y : x = d.exceptions[1] /\ y = e.exceptions[1]
  OBVIOUS
<1>2. /\ x.type = y.type /\ InAppFrames(x.frames) = InAppFrames(y.frames)
      /\ InAppFrames(x.frames) # <<>>
  BY <1>1 DEF SameError
<1>3. ExceptionFingerprint(x) = ExceptionFingerprint(y)
  BY <1>2 DEF ExceptionFingerprint
<1>4. Fingerprint(d) = ExceptionFingerprint(x) /\ Fingerprint(e) = ExceptionFingerprint(y)
  BY <1>1, <1>2 DEF SameError, Fingerprint, Telling
<1> QED BY <1>3, <1>4

-----------------------------------------------------------------------------
\* EventGrouping: the invariant.

\* What process_inner makes of an event that its build's map is read for.
Result(e, r) ==
  \/ MapsOf(e) = {} /\ r = NormalizedEvent(e)
  \/ \E m \in MapsOf(e) : r = NamedBy(NormalizedEvent(e), m.pairs)

StoredAs(g, r) == g.key = Fingerprint(r) /\ g.title = Title(r) /\ g.culprit = Culprit(r)

GroupInv ==
  \A g \in grouped :
    g.event \in GroupEvent /\ (g.named => \E r : Result(g.event, r) /\ StoredAs(g, r))

LEMMA StoreInv ==
  ASSUME GroupInv, NEW e \in GroupEvent, NEW named, NEW r, Store(e, named, r), named => Result(e, r)
  PROVE  GroupInv'
<1>1. PICK new : new = [event |-> e, named |-> named, key |-> Fingerprint(r), title |-> Title(r),
                        culprit |-> Culprit(r)]
  OBVIOUS
<1>2. grouped' = grouped \cup {new}
  BY <1>1 DEF Store
<1>3. new.event = e /\ new.named = named /\ StoredAs(new, r)
  BY <1>1 DEF StoredAs
<1>4. new.named => \E s : Result(new.event, s) /\ StoredAs(new, s)
  BY <1>3
<1> QED BY <1>2, <1>3, <1>4 DEF GroupInv

LEMMA GroupStepInv ==
  ASSUME GroupInv, [GroupingNext]_grouped
  PROVE  GroupInv'
<1>1. CASE UNCHANGED grouped
  BY <1>1 DEF GroupInv
<1>2. ASSUME NEW e \in GroupEvent, GroupNamed(e) PROVE GroupInv'
  <2>1. PICK m \in MapsOf(e) : Store(e, TRUE, NamedBy(NormalizedEvent(e), m.pairs))
    BY <1>2 DEF GroupNamed
  <2>2. PICK r : r = NamedBy(NormalizedEvent(e), m.pairs)
    OBVIOUS
  <2>3. Result(e, r)
    BY <2>2 DEF Result
  <2> QED BY <2>1, <2>2, <2>3, StoreInv
<1>3. ASSUME NEW e \in GroupEvent, GroupUnnamed(e) PROVE GroupInv'
  <2>1. PICK named, r : /\ named = (MapsOf(e) = {}) /\ r = NormalizedEvent(e) /\ Store(e, named, r)
    BY <1>3 DEF GroupUnnamed
  <2>2. named => Result(e, r)
    BY <2>1 DEF Result
  <2> QED BY <2>1, <2>2, StoreInv
<1> QED BY <1>1, <1>2, <1>3 DEF GroupingNext

THEOREM GroupInvariant == GroupingSpec => []GroupInv
<1>1. GroupingInit => GroupInv
  BY DEF GroupingInit, GroupInv
<1>2. GroupInv /\ [GroupingNext]_grouped => GroupInv'
  BY GroupStepInv
<1> QED BY <1>1, <1>2, PTL DEF GroupingSpec

\* What is stored of an event is stored of what it says.
LEMMA NormalizedSays ==
  ASSUME NEW d, NEW e, {"fingerprint", "exceptions"} \subseteq DOMAIN e, DOMAIN d = DOMAIN e,
         SameContents(d, e)
  PROVE  /\ SameContents(NormalizedEvent(d), NormalizedEvent(e))
         /\ NormalizedEvent(d).exceptions = d.exceptions
         /\ NormalizedEvent(e).exceptions = e.exceptions
         /\ "exceptions" \in DOMAIN NormalizedEvent(e)
<1>1. PICK only : only = \A i \in DOMAIN e.fingerprint : e.fingerprint[i] = <<"{{ default }}">>
  OBVIOUS
<1>2. /\ NormalizedEvent(e) = IF only THEN [e EXCEPT !.fingerprint = <<>>] ELSE e
      /\ NormalizedEvent(d) = IF only THEN [d EXCEPT !.fingerprint = <<>>] ELSE d
  BY <1>1 DEF NormalizedEvent, SameContents
<1>3. CASE only
  <2>1. /\ NormalizedEvent(e) = [e EXCEPT !.fingerprint = <<>>]
        /\ NormalizedEvent(d) = [d EXCEPT !.fingerprint = <<>>]
    BY <1>2, <1>3
  <2> QED BY <2>1 DEF SameContents
<1>4. CASE ~only
  <2>1. NormalizedEvent(e) = e /\ NormalizedEvent(d) = d
    BY <1>2, <1>4
  <2> QED BY <2>1
<1> QED BY <1>3, <1>4

LEMMA ResultSays ==
  ASSUME NEW e \in GroupEvent, NEW d, Says(e, d), NEW r, Result(e, r)
  PROVE  SameEvents(r, NormalizedEvent(d))
<1>1. /\ SameContents(NormalizedEvent(d), NormalizedEvent(e))
      /\ NormalizedEvent(d).exceptions = d.exceptions
      /\ NormalizedEvent(e).exceptions = e.exceptions
      /\ "exceptions" \in DOMAIN NormalizedEvent(e)
  <2>1. {"fingerprint", "exceptions"} \subseteq DOMAIN e
    BY GroupingAssumption DEF GroupingAssumption
  <2> QED BY <2>1, NormalizedSays DEF Says
<1>2. CASE MapsOf(e) = {}
  BY <1>1, <1>2 DEF Says, Result, SameEvents, SameContents
<1>3. ASSUME NEW m \in DartMaps, MapsOf(e) = {m}, StandFor(m.pairs, d.exceptions, e.exceptions)
      PROVE  SameEvents(r, NormalizedEvent(d))
  <2>1. PICK sent : sent = NormalizedEvent(e)
    OBVIOUS
  <2>2. r = NamedBy(sent, m.pairs)
    BY <1>3, <2>1 DEF Result
  <2>3. m.pairs \in Seq(ToSet(m.pairs))
    BY GroupingAssumption DEF GroupingAssumption
  <2>4. r.exceptions = d.exceptions
    BY <1>1, <1>3, <2>1, <2>2, <2>3, NamesAreRestored
  <2>5. SameContents(r, sent)
    <3>1. \E exceptions : r = [sent EXCEPT !.exceptions = exceptions]
      BY ONLY <2>2 DEF NamedBy
    <3>2. PICK exceptions : r = [sent EXCEPT !.exceptions = exceptions]
      BY <3>1
    <3> QED BY <1>1, <2>1, <3>2 DEF SameContents
  <2> QED BY <1>1, <2>1, <2>4, <2>5 DEF SameEvents, SameContents
<1> QED BY <1>2, <1>3 DEF Says

\* Two stored events, in the words of the source, are of one cause.
CausesAreOne ==
  \A g, h \in grouped : \A said, other :
    g.named /\ h.named /\ Says(g.event, said) /\ Says(h.event, other) =>
      LET d == NormalizedEvent(said)
          e == NormalizedEvent(other)
      IN  /\ SameEvents(d, e) \/ SameHang(d, e) \/ SameError(d, e) => g.key = h.key
          /\ SameEvents(d, e) \/ SameHang(d, e) => g.title = h.title /\ g.culprit = h.culprit

\* Whatever maps, waits and entry points there are (compute_fingerprint and
\* hang_frame, worker/fingerprint.rs; deobfuscate_dart_event,
\* worker/dart_symbol_map.rs): what says the same in the words of different
\* obfuscated builds, hangs of one stack under different waits, and errors of one
\* type and the same frames of the app are one issue, and of the first two all
\* events have its title and culprit.
THEOREM CausesStayTogether == GroupingSpec => []CausesAreOne
<1>1. GroupInv => CausesAreOne
  <2> SUFFICES ASSUME GroupInv, NEW g \in grouped, NEW h \in grouped, NEW said, NEW other,
                      g.named, h.named, Says(g.event, said), Says(h.event, other),
                      NEW d, NEW e, d = NormalizedEvent(said), e = NormalizedEvent(other)
               PROVE  /\ SameEvents(d, e) \/ SameHang(d, e) \/ SameError(d, e) => g.key = h.key
                      /\ SameEvents(d, e) \/ SameHang(d, e) => g.title = h.title /\ g.culprit = h.culprit
    BY DEF CausesAreOne
  <2>1. PICK r, s : /\ Result(g.event, r) /\ StoredAs(g, r)
                    /\ Result(h.event, s) /\ StoredAs(h, s)
    BY DEF GroupInv
  <2>2. SameEvents(r, d) /\ SameEvents(s, e)
    <3>1. g.event \in GroupEvent /\ h.event \in GroupEvent
      BY DEF GroupInv
    <3> QED BY <2>1, <3>1, ResultSays
  <2>3. /\ g.key = Fingerprint(d) /\ g.title = Title(d) /\ g.culprit = Culprit(d)
        /\ h.key = Fingerprint(e) /\ h.title = Title(e) /\ h.culprit = Culprit(e)
    <3>1. Fingerprint(r) = Fingerprint(d) /\ ShownAlike(r, d)
      BY <2>2, SameEventsAlike
    <3>2. Fingerprint(s) = Fingerprint(e) /\ ShownAlike(s, e)
      BY <2>2, SameEventsAlike
    <3> QED BY <2>1, <3>1, <3>2 DEF StoredAs, ShownAlike
  <2>4. SameEvents(d, e) \/ SameHang(d, e) => Fingerprint(d) = Fingerprint(e) /\ ShownAlike(d, e)
    BY SameEventsAlike, SameHangAlike
  <2>5. SameError(d, e) => Fingerprint(d) = Fingerprint(e)
    BY SameErrorAlike
  <2> QED BY <2>3, <2>4, <2>5 DEF ShownAlike
<1> QED BY <1>1, GroupInvariant, PTL
=============================================================================
