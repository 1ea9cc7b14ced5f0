---------------------------- MODULE EnvelopeItems ----------------------------
(***************************************************************************)
(* What a claimed envelope leaves behind besides its issues: the tail of   *)
(* process_inner (worker/processor.rs) and index_event (worker/indexer.rs).*)
(* Events, then transactions, then user reports, each in several           *)
(* statements without a transaction around them.  A statement that fails   *)
(* fails the envelope, and its retry begins at the first item again.       *)
(*                                                                         *)
(* EnvelopeQueue has the claims, one owner at a time and a bounded number  *)
(* of attempts; IssueLifecycle has the statements on issues and releases.  *)
(* One project and one issue: every statement here is scoped by the same   *)
(* ids.  Texts are sequences of tokens.  Every event has an id; normalize  *)
(* would give one without an id a new one in every attempt.                *)
(***************************************************************************)
EXTENDS Subsequences, SequencesExt, FiniteSetsExt, Functions

CONSTANTS
  ItemEnvelope,    \* envelopes in the queue
  ItemsOf,         \* ItemsOf[e]: the items of an envelope
  ItemWorker,
  MaxTagValues,    \* max_tag_values_per_key
  TagChunk,        \* rows of one INSERT INTO event_tags (10)
  MaxItemAttempts, \* failures after which an envelope is dead (5)
  MaxItemFaults    \* bound: failing statements and crashes

IsTags(tags) == tags \in Seq(ToSet(tags)) /\ \A t \in ToSet(tags) : t = <<t[1], t[2]>>

ItemAssumption ==
  /\ MaxTagValues \in Nat \ {0} /\ TagChunk \in Nat \ {0} /\ MaxItemAttempts \in Nat \ {0}
  /\ IsFiniteSet(ItemWorker)
  /\ \A e \in ItemEnvelope :
       /\ ItemsOf[e] \in Seq(ToSet(ItemsOf[e]))
       /\ \A i \in ToSet(ItemsOf[e]) :
            /\ i.is = "event" => IsTags(i.event.tags) /\ IsTags(i.event.auto)
            /\ i.is = "transaction" => i.start \in Int /\ i.end \in Int
ASSUME ItemAssumption

NoTag == <<"no_tag">>
NotText == <<"not_text">>

VARIABLES
  itemState,     \* itemState[e]: [state, attempts] of the envelope's row
  itemWork,      \* itemWork[w]: the worker's place in its envelope, or IdleWork
  itemEvents,    \* ids in events
  eventTags,     \* rows of event_tags: <<event id, key, value>>
  tagValues,     \* tag_values: times_seen by <<key, value>>
  tagKeys,       \* tag_keys: values_seen by key
  hourCounts,    \* issue_stats_hourly: count by bucket
  groupStats,    \* transaction_groups by name
  transactions,  \* rows of transactions: <<envelope, item, group, duration>>, in order
  lapsedKeys,    \* history: keys whose recount never ran
  itemFaults

itemTables == <<itemEvents, eventTags, tagValues, tagKeys, hourCounts, groupStats, transactions>>
itemVars == <<itemState, itemWork, itemTables, lapsedKeys, itemFaults>>

NoFunction == [x \in {} |-> 0]
IdleWork == [step |-> "idle"]

------------------------------------------------------------------------------
(* Tags.                                                                   *)

\* Explicit tags in either form of the protocol; values that are not scalars and
\* pairs that are not two texts are passed over.
ExplicitTags(event) == Picked(event.tags, {i \in DOMAIN event.tags : event.tags[i][2] # NotText})

\* Level, environment, browser, ... in the order of the code, if the event has them.
AutoTags(event) == Picked(event.auto, {i \in DOMAIN event.auto : event.auto[i][2] # NoTag})

Joined(t) == t[1] \o <<":">> \o t[2]

\* The first of the tags whose key and value read the same when joined.
FirstTags(all) ==
  Picked(all, {i \in DOMAIN all : \A j \in 1..(i - 1) : Joined(all[j]) # Joined(all[i])})

\* The tags of an event that have a value.
NamedTags(event) ==
  LET all == ExplicitTags(event) \o AutoTags(event)
  IN  Picked(all, {i \in DOMAIN all : all[i][2] # <<>>})

ValuesOf(key) == {t \in DOMAIN tagValues : t[1] = key}

------------------------------------------------------------------------------
(* The claim and the outcome.                                              *)

\* Events come before transactions and transactions before reports.
InOrder(items) ==
  LET Of(kind) == Picked(items, {i \in DOMAIN items : items[i].is = kind})
  IN  Of("event") \o Of("transaction") \o Of("user_report")

ItemsInOrder == [e \in ItemEnvelope |-> InOrder(ItemsOf[e])]

\* The tags an event is stored with.
TagsOf == [e \in ItemEnvelope |-> [i \in DOMAIN ItemsInOrder[e] |->
  LET item == ItemsInOrder[e][i]
  IN  IF item.is = "event" THEN FirstTags(NamedTags(item.event)) ELSE <<>>]]

EnvelopeStates == {"pending", "processing", "failed", "done", "dead"}
ItemSteps == {"idle", "begin", "tags", "values", "bump", "recount", "hour", "transaction"}

ItemTypeOK ==
  /\ \A e \in ItemEnvelope : /\ itemState[e].state \in EnvelopeStates
                             /\ itemState[e].attempts \in 0..MaxItemAttempts
  /\ \A w \in ItemWorker : itemWork[w].step \in ItemSteps
  /\ \A t \in DOMAIN tagValues : tagValues[t] \in Nat \ {0}
  /\ \A k \in DOMAIN tagKeys : tagKeys[k] \in Nat
  /\ \A h \in DOMAIN hourCounts : hourCounts[h] \in Nat \ {0}
  /\ itemFaults \in 0..MaxItemFaults

ItemInit ==
  /\ itemState = [e \in ItemEnvelope |-> [state |-> "pending", attempts |-> 0]]
  /\ itemWork = [w \in ItemWorker |-> IdleWork]
  /\ itemEvents = {} /\ eventTags = {} /\ transactions = <<>>
  /\ tagValues = NoFunction /\ tagKeys = NoFunction
  /\ hourCounts = NoFunction /\ groupStats = NoFunction
  /\ lapsedKeys = {}
  /\ itemFaults = 0

Working(w, e) == itemWork[w].step # "idle" /\ itemWork[w].envelope = e

\* The claim: a new or failed envelope, or one whose worker is gone.
TakeEnvelope(w, e) ==
  /\ itemWork[w].step = "idle"
  /\ itemState[e].state \in {"pending", "failed", "processing"}
  /\ \A v \in ItemWorker : ~Working(v, e)
  /\ itemState' = [itemState EXCEPT ![e].state = "processing"]
  /\ itemWork' = [itemWork EXCEPT ![w] =
       [step |-> "begin", envelope |-> e, item |-> 1, tag |-> 1, recount |-> {}]]
  /\ UNCHANGED <<itemTables, lapsedKeys, itemFaults>>

CurrentEnvelopeItem(w) == ItemsInOrder[itemWork[w].envelope][itemWork[w].item]
CurrentTags(w) == TagsOf[itemWork[w].envelope][itemWork[w].item]

AtItem(w, kind) ==
  /\ itemWork[w].step = "begin"
  /\ itemWork[w].item <= Len(ItemsInOrder[itemWork[w].envelope])
  /\ CurrentEnvelopeItem(w).is = kind

NextItem(w) ==
  itemWork' = [itemWork EXCEPT ![w].step = "begin", ![w].item = @ + 1, ![w].tag = 1]

FinishEnvelope(w) ==
  /\ itemWork[w].step = "begin"
  /\ itemWork[w].item > Len(ItemsInOrder[itemWork[w].envelope])
  /\ itemState' = [itemState EXCEPT ![itemWork[w].envelope].state = "done"]
  /\ itemWork' = [itemWork EXCEPT ![w] = IdleWork]
  /\ UNCHANGED <<itemTables, lapsedKeys, itemFaults>>

\* mark_failed; keys that were to be recounted stay as they are.
FailEnvelope(w) ==
  LET e == itemWork[w].envelope IN
  /\ itemState' = [itemState EXCEPT ![e] =
       [state |-> IF @.attempts + 1 >= MaxItemAttempts THEN "dead" ELSE "failed",
        attempts |-> @.attempts + 1]]
  /\ itemWork' = [itemWork EXCEPT ![w] = IdleWork]
  /\ lapsedKeys' = lapsedKeys \cup itemWork[w].recount

------------------------------------------------------------------------------
(* Events.                                                                 *)

InsertEventAnyway(w) == \* mutant: the INSERT of a stored event is ignored, not refused
  /\ AtItem(w, "event") /\ CurrentEnvelopeItem(w).parses
  /\ itemEvents' = itemEvents \cup {CurrentEnvelopeItem(w).event.id}
  /\ itemWork' = [itemWork EXCEPT ![w].step = "tags"]
  /\ UNCHANGED <<itemState, eventTags, tagValues, tagKeys, hourCounts, groupStats, transactions,
                 lapsedKeys, itemFaults>>

\* INSERT INTO events: a stored event, as in the retry of a half processed
\* envelope, violates the table's UNIQUE key and fails the envelope, and so does
\* an event that cannot be parsed.
InsertEvent(w) ==
  /\ AtItem(w, "event")
  /\ IF ~CurrentEnvelopeItem(w).parses \/ CurrentEnvelopeItem(w).event.id \in itemEvents
     THEN FailEnvelope(w) /\ UNCHANGED itemEvents
     ELSE /\ itemEvents' = itemEvents \cup {CurrentEnvelopeItem(w).event.id}
          /\ itemWork' = [itemWork EXCEPT ![w].step = "tags"]
          /\ UNCHANGED <<itemState, lapsedKeys>>
  /\ UNCHANGED <<eventTags, tagValues, tagKeys, hourCounts, groupStats, transactions, itemFaults>>

\* One INSERT for every TagChunk tags.
InsertTags(w) ==
  LET t == itemWork[w].tag
      tags == CurrentTags(w)
      last == Min({t + TagChunk - 1, Len(tags)})
  IN
  /\ itemWork[w].step = "tags"
  /\ eventTags' = eventTags \cup
       {<<CurrentEnvelopeItem(w).event.id, tags[i][1], tags[i][2]>> : i \in t..last}
  /\ itemWork' = IF last = Len(tags)
                 THEN [itemWork EXCEPT ![w].step = "values", ![w].tag = 1]
                 ELSE [itemWork EXCEPT ![w].tag = last + 1]
  /\ UNCHANGED <<itemState, itemEvents, tagValues, tagKeys, hourCounts, groupStats, transactions,
                 lapsedKeys, itemFaults>>

UnderCapAsCounted(key) == \* mutant: the cached counter is compared
  key \notin DOMAIN tagKeys \/ tagKeys[key] < MaxTagValues

UnderCap(key) == Cardinality(ValuesOf(key)) < MaxTagValues

AfterValue(w, recount) ==
  itemWork' = [itemWork EXCEPT ![w].step = "values", ![w].tag = @ + 1, ![w].recount = recount]

\* INSERT OR IGNORE ... WHERE the table's own count is below the cap.
InsertValue(w) ==
  LET tag == CurrentTags(w)[itemWork[w].tag] IN
  /\ itemWork[w].step = "values"
  /\ itemWork[w].tag <= Len(CurrentTags(w))
  /\ IF tag \notin DOMAIN tagValues /\ UnderCap(tag[1])
     THEN /\ tagValues' = [t \in DOMAIN tagValues \cup {tag} |->
                             IF t = tag THEN 1 ELSE tagValues[t]]
          /\ AfterValue(w, itemWork[w].recount \cup {tag[1]})
     ELSE /\ itemWork' = [itemWork EXCEPT ![w].step = "bump"]
          /\ UNCHANGED tagValues
  /\ UNCHANGED <<itemState, itemEvents, eventTags, tagKeys, hourCounts, groupStats, transactions,
                 lapsedKeys, itemFaults>>

\* The UPDATE finds the value, or it was over the cap.
BumpValue(w) ==
  LET tag == CurrentTags(w)[itemWork[w].tag] IN
  /\ itemWork[w].step = "bump"
  /\ tagValues' = [t \in DOMAIN tagValues |-> IF t = tag THEN tagValues[t] + 1 ELSE tagValues[t]]
  /\ AfterValue(w, itemWork[w].recount)
  /\ UNCHANGED <<itemState, itemEvents, eventTags, tagKeys, hourCounts, groupStats, transactions,
                 lapsedKeys, itemFaults>>

Recounted(key) ==
  [k \in DOMAIN tagKeys \cup {key} |-> IF k = key THEN Cardinality(ValuesOf(key)) ELSE tagKeys[k]]

\* One statement for every key that got a value, in the order of a HashSet.
RecountKey(w, key) ==
  /\ itemWork[w].step = "values"
  /\ itemWork[w].tag > Len(CurrentTags(w))
  /\ key \in itemWork[w].recount
  /\ tagKeys' = Recounted(key)
  /\ lapsedKeys' = lapsedKeys \ {key}
  /\ itemWork' = [itemWork EXCEPT ![w].recount = @ \ {key}]
  /\ UNCHANGED <<itemState, itemEvents, eventTags, tagValues, hourCounts, groupStats,
                 transactions, itemFaults>>

\* The UPSERT of issue_stats_hourly; the alerts after it are AlertRules'.
CountHour(w) ==
  LET h == CurrentEnvelopeItem(w).event.hour IN
  /\ itemWork[w].step = "values"
  /\ itemWork[w].tag > Len(CurrentTags(w))
  /\ itemWork[w].recount = {}
  /\ hourCounts' = [b \in DOMAIN hourCounts \cup {h} |->
       IF b \notin DOMAIN hourCounts THEN 1
       ELSE IF b = h THEN hourCounts[b] + 1 ELSE hourCounts[b]]
  /\ NextItem(w)
  /\ UNCHANGED <<itemState, itemEvents, eventTags, tagValues, tagKeys, groupStats, transactions,
                 lapsedKeys, itemFaults>>

------------------------------------------------------------------------------
(* Transactions and user reports.                                          *)

\* Clock skew makes a duration zero, not negative.
Duration(item) == Max({item.end - item.start, 0})

NewGroup(d, errors) == [count |-> 1, errors |-> errors, sum |-> d, min |-> d, max |-> d]

MergedGroup(g, d, errors) ==
  [count |-> g.count + 1, errors |-> g.errors + errors, sum |-> g.sum + d,
   min |-> Min({g.min, d}), max |-> Max({g.max, d})]

\* A transaction that cannot be parsed is passed over.
SkipTransaction(w) ==
  /\ AtItem(w, "transaction") /\ ~CurrentEnvelopeItem(w).parses
  /\ NextItem(w)
  /\ UNCHANGED <<itemState, itemTables, lapsedKeys, itemFaults>>

UpsertGroup(w) ==
  LET item == CurrentEnvelopeItem(w)
      g == item.group
      errors == IF item.status \in {"ok", "cancelled"} THEN 0 ELSE 1
  IN
  /\ AtItem(w, "transaction") /\ item.parses
  /\ groupStats' = [x \in DOMAIN groupStats \cup {g} |->
       IF x # g THEN groupStats[x]
       ELSE IF g \in DOMAIN groupStats THEN MergedGroup(groupStats[g], Duration(item), errors)
       ELSE NewGroup(Duration(item), errors)]
  /\ itemWork' = [itemWork EXCEPT ![w].step = "transaction"]
  /\ UNCHANGED <<itemState, itemEvents, eventTags, tagValues, tagKeys, hourCounts, transactions,
                 lapsedKeys, itemFaults>>

InsertTransaction(w) ==
  LET item == CurrentEnvelopeItem(w) IN
  /\ itemWork[w].step = "transaction"
  /\ transactions' = Append(transactions,
       <<itemWork[w].envelope, itemWork[w].item, item.group, Duration(item)>>)
  /\ NextItem(w)
  /\ UNCHANGED <<itemState, itemEvents, eventTags, tagValues, tagKeys, hourCounts, groupStats,
                 lapsedKeys, itemFaults>>

\* The report's INSERT; its error is ignored, and nothing here reads the table.
InsertReport(w) ==
  /\ AtItem(w, "user_report")
  /\ NextItem(w)
  /\ UNCHANGED <<itemState, itemTables, lapsedKeys, itemFaults>>

------------------------------------------------------------------------------
(* Failures and retention.                                                 *)

\* Any statement of an event or a transaction fails, and the envelope with it.
StatementFails(w) ==
  /\ itemFaults < MaxItemFaults
  /\ \/ itemWork[w].step \notin {"idle", "begin"}
     \/ AtItem(w, "event")
     \/ AtItem(w, "transaction") /\ CurrentEnvelopeItem(w).parses
  /\ FailEnvelope(w)
  /\ itemFaults' = itemFaults + 1
  /\ UNCHANGED itemTables

\* The process dies; its envelopes are claimed again once they are stale.
ItemCrash ==
  /\ itemFaults < MaxItemFaults
  /\ itemWork' = [w \in ItemWorker |-> IdleWork]
  /\ lapsedKeys' = lapsedKeys \cup
       UNION {itemWork[w].recount : w \in {v \in ItemWorker : itemWork[v].step # "idle"}}
  /\ itemFaults' = itemFaults + 1
  /\ UNCHANGED <<itemState, itemTables>>

\* run_cleanup prunes the buckets before a cutoff; their hours are the clients'.
PruneHours(cutoff) ==
  /\ \E h \in DOMAIN hourCounts : h < cutoff
  /\ hourCounts' = Restrict(hourCounts, {h \in DOMAIN hourCounts : h >= cutoff})
  /\ UNCHANGED <<itemState, itemWork, itemEvents, eventTags, tagValues, tagKeys, groupStats,
                 transactions, lapsedKeys, itemFaults>>

ItemNext ==
  \/ \E w \in ItemWorker :
       \/ \E e \in ItemEnvelope : TakeEnvelope(w, e)
       \/ InsertEvent(w) \/ InsertTags(w) \/ InsertValue(w) \/ BumpValue(w)
       \/ \E k \in {t[1] : t \in DOMAIN tagValues} : RecountKey(w, k)
       \/ CountHour(w) \/ SkipTransaction(w) \/ UpsertGroup(w) \/ InsertTransaction(w)
       \/ InsertReport(w) \/ FinishEnvelope(w) \/ StatementFails(w)
  \/ ItemCrash
  \/ \E h \in DOMAIN hourCounts : PruneHours(h + 1)

ItemSpec == ItemInit /\ [][ItemNext]_itemVars

------------------------------------------------------------------------------
(* Properties.                                                             *)

\* "two inserts can slip past the cap in the window between the first insert and
\* the counter's later recount" (comment in index_event): with workers that add
\* values of one key together, no key has more values than the cap.
TagValuesCapped ==
  \A t \in DOMAIN tagValues : Cardinality(ValuesOf(t[1])) <= MaxTagValues

\* tag_keys shows as many values as the key has, whatever the order in which
\* workers insert values and recount, except while a recount is due or if a
\* failure took it away; and the next new value repairs that.
KeysCountTheirValues ==
  \A k \in {t[1] : t \in DOMAIN tagValues} :
    \/ k \in lapsedKeys
    \/ \E w \in ItemWorker : itemWork[w].step # "idle" /\ k \in itemWork[w].recount
    \/ k \in DOMAIN tagKeys /\ tagKeys[k] = Cardinality(ValuesOf(k))

\* The tag tables agree with each other and with the cap, however workers that
\* write to one key interleave and fail.
TagsSound == TagValuesCapped /\ KeysCountTheirValues

\* The sum of natural numbers f[x], as the number of the units of each.
UnitsOf(f, S) == UNION {{x} \X (1..f[x]) : x \in S}
SumOver(f, S) == Cardinality(UnitsOf(f, S))

\* An event is counted once on its tags and its hour, at most, however often its
\* envelope fails half way, is stolen from a dead process and is retried.
RetriesCountOnce ==
  /\ \A t \in DOMAIN tagValues :
       tagValues[t] <= Cardinality({r \in eventTags : <<r[2], r[3]>> = t})
  /\ SumOver(hourCounts, DOMAIN hourCounts) <= Cardinality(itemEvents)

RowsOfGroup(g) == {i \in DOMAIN transactions : transactions[i][3] = g}

\* The statistics of a group cover each of its transactions: it was counted, and
\* its duration is added and within the extremes, also when two workers write to
\* the group at a time and a retry counts it again; no clock makes a duration
\* negative.
GroupsCoverTransactions ==
  \A i \in DOMAIN transactions :
    LET g == transactions[i][3]
        rows == RowsOfGroup(g)
    IN  /\ g \in DOMAIN groupStats
        /\ Cardinality(rows) <= groupStats[g].count
        /\ SumOver([j \in rows |-> transactions[j][4]], rows) <= groupStats[g].sum
        /\ groupStats[g].min <= transactions[i][4] /\ transactions[i][4] <= groupStats[g].max
        /\ 0 <= groupStats[g].min

\* An envelope is done only when each of its events has its row and one row for
\* every text of a tag, and each of its transactions has a row - a failure in
\* between leaves it failed, and then dead.
DoneIsComplete ==
  \A e \in ItemEnvelope : itemState[e].state = "done" =>
    \A i \in DOMAIN ItemsInOrder[e] :
      LET item == ItemsInOrder[e][i] IN
      /\ item.is = "event" =>
           /\ item.event.id \in itemEvents
           /\ {Joined(<<r[2], r[3]>>) : r \in {r \in eventTags : r[1] = item.event.id}}
                = {Joined(t) : t \in ToSet(NamedTags(item.event))}
      /\ item.is = "transaction" /\ item.parses =>
           \E r \in ToSet(transactions) : r[1] = e /\ r[2] = i

\* What an envelope leaves behind after any failures, crashes and retries: all of
\* it when it is done, counted once for an event, and covered by the statistics
\* of their group for transactions.
ItemsAccounted == DoneIsComplete /\ RetriesCountOnce /\ GroupsCoverTransactions
=============================================================================
