----------------------------- MODULE AlertRules -----------------------------
(***************************************************************************)
(* Alert rules: evaluate_alerts (worker/alerts.rs), run by every worker at *)
(* the end of an event, and the requests that edit rules (api/alerts.rs).  *)
(*                                                                         *)
(* A worker reads the enabled rules once, then judges and fires them one   *)
(* by one from that reading.  last_fired is written after the actions, so  *)
(* two workers that read a rule before either writes it both fire it.      *)
(*                                                                         *)
(* Before that the worker has counted the event in issue_stats_hourly, in  *)
(* the hour of the event's own timestamp: the client's, which may be old   *)
(* or ahead of the server's clock, or the server's if the client sent none *)
(* (normalize, worker/normalizer.rs).  Times are numbers; a timestamp that *)
(* cannot be parsed is kept as a text, and stands for the hour it sorts    *)
(* after.  The module follows the events of one issue.                     *)
(***************************************************************************)
EXTENDS Integers, FiniteSets, Sequences, SequencesExt

CONSTANTS
  AlertRule,      \* ids of rules, numbers in the order they are read
  AlertCondition, \* conditions of rules
  AlertAction,    \* actions of rules
  FirstRules,     \* FirstRules[r]: a row, or NoRule
  AlertCall,      \* requests of the API
  AlertInput,     \* AlertInput[c]: [op, rule, fields]
  AlertEvent,     \* events: [isNew, isRegression, attributes, timestamp]
  Evaluator,      \* workers
  AlertHour,      \* ticks of a bucket of issue_stats_hourly
  StatsRetention, \* ticks after which buckets are pruned
  MaxAlertTime,   \* bound on the clock
  MaxAlertEvents, \* bound: events evaluated by a worker
  MaxAlertFaults  \* bound: actions and statements that fail, and crashes

NoRule == [enabled |-> FALSE]
Never == -1
Editable == {"enabled", "frequency", "conditions", "actions"}

RuleRow == [enabled : BOOLEAN, frequency : Int, lastFired : Nat \cup {Never},
            conditions : SUBSET AlertCondition, actions : Seq(AlertAction)]

\* A creation names every field but enabled; nothing bounds a frequency.  A
\* client sends one timestamp, any, or none.
AlertAssumption ==
  /\ AlertHour \in Nat \ {0} /\ StatsRetention \in Nat /\ MaxAlertTime \in Nat
  /\ \A e \in AlertEvent : e.timestamp \in Seq(Int) /\ Len(e.timestamp) <= 1
  /\ \A cond \in AlertCondition :
       cond.kind = "threshold" => cond.window \in Nat /\ cond.threshold \in Nat
  /\ AlertRule \subseteq Nat \ {0}
  /\ FirstRules \in [AlertRule -> RuleRow \cup {NoRule}]
  /\ \A r \in AlertRule : FirstRules[r] # NoRule => FirstRules[r].lastFired \in {Never, 0}
  /\ \A c \in AlertCall :
       LET fields == AlertInput[c].fields IN
       /\ AlertInput[c].op \in {"create", "update", "delete"}
       /\ AlertInput[c].rule \in AlertRule
       /\ DOMAIN fields \subseteq Editable
       /\ AlertInput[c].op = "create" => DOMAIN fields = Editable \ {"enabled"}
       /\ "enabled" \in DOMAIN fields => fields["enabled"] \in BOOLEAN
       /\ "frequency" \in DOMAIN fields => fields["frequency"] \in Int
       /\ "conditions" \in DOMAIN fields => fields["conditions"] \subseteq AlertCondition
       /\ "actions" \in DOMAIN fields => fields["actions"] \in Seq(AlertAction)
ASSUME AlertAssumption

VARIABLES
  alertTime,
  rules,       \* rules[r]: the row, or NoRule
  hourly,      \* the rows of issue_stats_hourly: count by hour
  counted,     \* history: the events, as counted: their time, when it was, and
               \* whether a fault lost their evaluation
  evaluator,   \* evaluator[w]: progress of a worker
  alertCall,   \* alertCall[c]: progress of a request
  firings,     \* history: firings[r]: its firings, the oldest first
  overlapped,  \* history: rules fired from a reading older than a firing
  alertFaults

alertVars == <<alertTime, rules, hourly, counted, evaluator, alertCall, firings,
               overlapped, alertFaults>>
countVars == <<hourly, counted>>
firedVars == <<firings, overlapped>>

NoEvaluation == [step |-> "idle", events |-> 0, index |-> 0, loaded |-> <<>>, queue |-> {}, rule |-> 0, now |-> 0,
                 left |-> <<>>, known |-> <<>>, firedAt |-> Never]

AlertTypeOK ==
  /\ alertTime \in 0..MaxAlertTime
  /\ \A r \in AlertRule : rules[r] # NoRule => rules[r].lastFired \in Never..alertTime
  /\ \A w \in Evaluator : /\ evaluator[w].step \in {"idle", "load", "rules", "fire", "record"}
                          /\ evaluator[w].queue \subseteq AlertRule
                          /\ evaluator[w].index \in 0..Len(counted)
  /\ \A h \in DOMAIN hourly : hourly[h] \in Nat \ {0}
  /\ \A c \in AlertCall : alertCall[c].step \in {"idle", "merged", "done"}
  /\ overlapped \subseteq AlertRule
  /\ alertFaults \in 0..MaxAlertFaults

AlertInit ==
  /\ alertTime = 0
  /\ rules = FirstRules
  /\ hourly = [h \in {} |-> 0]
  /\ counted = <<>>
  /\ evaluator = [w \in Evaluator |-> NoEvaluation]
  /\ alertCall = [c \in AlertCall |-> [step |-> "idle", row |-> NoRule]]
  /\ firings = [r \in AlertRule |-> <<>>]
  /\ overlapped = {}
  /\ alertFaults = 0

------------------------------------------------------------------------------
(* Conditions.                                                             *)

FirstBucketWithin(window) == \* mutant: only the hours that begin in the window
  (alertTime - window + AlertHour - 1) \div AlertHour

\* FrequencyThreshold sums the buckets from the one the window begins in: it
\* counts up to an hour more than the window.
FirstBucket(window) == (alertTime - window) \div AlertHour

\* The sum of the buckets, as the number of their events.
BucketsSince(h) == UNION {{b} \X (1..hourly[b]) : b \in {b \in DOMAIN hourly : b >= h}}
CountSince(h) == Cardinality(BucketsSince(h))

ThresholdReached(cond) == CountSince(FirstBucket(cond.window)) >= cond.threshold

\* An attribute that is absent or not known to the rule reads as empty.
AttributeOf(e, name) ==
  IF name \in DOMAIN e.attributes THEN e.attributes[name] ELSE <<>>

ContainsText(text, part) ==
  \E i \in 1..(Len(text) + 1) : IsPrefix(part, SubSeq(text, i, Len(text)))

AttributeMatches(cond, e) ==
  LET text == AttributeOf(e, cond.attribute) IN
  \/ cond.match = "equals" /\ text = cond.value
  \/ cond.match = "not_equals" /\ text # cond.value
  \/ cond.match = "contains" /\ ContainsText(text, cond.value)
  \/ cond.match = "not_contains" /\ ~ContainsText(text, cond.value)
  \/ cond.match = "starts_with" /\ IsPrefix(cond.value, text)
  \/ cond.match = "ends_with" /\ IsSuffix(cond.value, text)

\* evaluate_condition
Matches(cond, e) ==
  \/ cond.kind = "new" /\ e.isNew
  \/ cond.kind = "regression" /\ e.isRegression
  \/ cond.kind = "threshold" /\ ThresholdReached(cond)
  \/ cond.kind = "attribute" /\ AttributeMatches(cond, e)

------------------------------------------------------------------------------
(* The hourly counts.                                                      *)

\* normalize leaves the client's timestamp, and gives an event without one the
\* time at which it runs.
NormalizedTime(e, normalized) == IF e.timestamp = <<>> THEN normalized ELSE e.timestamp[1]

HourBucket(t) == t \div AlertHour

\* process_inner counts an event some time after it normalized it.
CountEvent(w, e, normalized) ==
  LET time == NormalizedTime(e, normalized)
      b == HourBucket(time)
  IN
  /\ evaluator[w].step = "idle"
  /\ evaluator[w].events < MaxAlertEvents
  /\ hourly' = [h \in DOMAIN hourly \cup {b} |->
       IF h \notin DOMAIN hourly THEN 1 ELSE IF h = b THEN hourly[h] + 1 ELSE hourly[h]]
  /\ counted' = Append(counted, [event |-> e, time |-> time, at |-> alertTime, lost |-> FALSE])
  /\ evaluator' = [evaluator EXCEPT ![w] =
       [evaluator[w] EXCEPT !.step = "load", !.index = Len(counted) + 1]]
  /\ UNCHANGED <<alertTime, rules, alertCall, firedVars, alertFaults>>

\* run_cleanup prunes the buckets that begin before the cutoff.
PruneBuckets ==
  LET pruned == {h \in DOMAIN hourly : h * AlertHour < alertTime - StatsRetention} IN
  /\ pruned # {}
  /\ hourly' = Restrict(hourly, DOMAIN hourly \ pruned)
  /\ UNCHANGED <<alertTime, rules, counted, evaluator, alertCall, firedVars, alertFaults>>

------------------------------------------------------------------------------
(* evaluate_alerts.                                                        *)

Finished(run) == [NoEvaluation EXCEPT !.events = run.events + 1]

\* The enabled rules are read and the time is taken.
LoadRules(w) ==
  LET run == evaluator[w]
      enabled == {r \in AlertRule : rules[r].enabled}
  IN
  /\ run.step = "load"
  /\ evaluator' = [evaluator EXCEPT ![w] =
       IF enabled = {} THEN Finished(run)
       ELSE [run EXCEPT !.step = "rules", !.now = alertTime, !.queue = enabled,
               !.loaded = [r \in enabled |-> rules[r]],
               !.known = [r \in enabled |->
                            Cardinality({i \in DOMAIN firings[r] : firings[r][i].recorded})]]]
  /\ UNCHANGED <<alertTime, rules, countVars, alertCall, firedVars, alertFaults>>

\* A fault after which nobody judges the event by the rules that are left.
Lose(i) ==
  /\ alertFaults < MaxAlertFaults
  /\ alertFaults' = alertFaults + 1
  /\ counted' = [counted EXCEPT ![i] = [counted[i] EXCEPT !.lost = TRUE]]

\* The rules cannot be read, or the process dies: a retry of the envelope finds
\* the event stored and never comes here.
LoseEvaluation(w) ==
  /\ evaluator[w].step # "idle"
  /\ Lose(evaluator[w].index)
  /\ evaluator' = [evaluator EXCEPT ![w] = Finished(evaluator[w])]
  /\ UNCHANGED <<alertTime, rules, hourly, alertCall, firedVars>>

\* The cooldown, judged by what was read.
Cooling(w, r) ==
  LET row == evaluator[w].loaded[r] IN
  /\ row.lastFired # Never
  /\ evaluator[w].now - row.lastFired < row.frequency

Fires(w, r) ==
  /\ ~Cooling(w, r)
  /\ \A cond \in evaluator[w].loaded[r].conditions :
       Matches(cond, counted[evaluator[w].index].event)

\* A worker without a rule left has finished its event.
Resume(run) ==
  IF run.step = "rules" /\ run.queue = {} THEN Finished(run) ELSE run

\* The time is taken after the last action.
Timed(run) ==
  IF run.step = "fire" /\ run.left = <<>>
  THEN [run EXCEPT !.step = "record", !.firedAt = alertTime] ELSE run

\* Rules are judged in the order they were read.
NextRule(w, r) == r \in evaluator[w].queue /\ \A q \in evaluator[w].queue : r <= q

Without(run, r) == Resume([run EXCEPT !.queue = run.queue \ {r}])

SkipRule(w, r) ==
  /\ evaluator[w].step = "rules"
  /\ NextRule(w, r)
  /\ ~Fires(w, r)
  /\ evaluator' = [evaluator EXCEPT ![w] = Without(evaluator[w], r)]
  /\ UNCHANGED <<alertTime, rules, countVars, alertCall, firedVars, alertFaults>>

\* A sum that cannot be read is taken for one below the threshold.
SkipUnread(w, r) ==
  /\ evaluator[w].step = "rules"
  /\ NextRule(w, r)
  /\ ~Cooling(w, r)
  /\ \E cond \in evaluator[w].loaded[r].conditions : cond.kind = "threshold"
  /\ Lose(evaluator[w].index)
  /\ evaluator' = [evaluator EXCEPT ![w] = Without(evaluator[w], r)]
  /\ UNCHANGED <<alertTime, rules, hourly, alertCall, firedVars>>

StartFiring(w, r) ==
  LET run == evaluator[w]
      row == run.loaded[r]
  IN
  /\ run.step = "rules"
  /\ NextRule(w, r)
  /\ Fires(w, r)
  /\ evaluator' = [evaluator EXCEPT ![w] =
       Timed([run EXCEPT !.queue = run.queue \ {r}, !.step = "fire", !.rule = r,
                         !.left = row.actions])]
  /\ firings' = [firings EXCEPT ![r] = Append(@,
       [start |-> run.now, frequency |-> row.frequency, by |-> w,
        actions |-> row.actions,
        recorded |-> FALSE, at |-> Never, attempted |-> <<>>])]
  /\ overlapped' = IF run.known[r] = Len(firings[r]) THEN overlapped
                   ELSE overlapped \cup {r}
  /\ UNCHANGED <<alertTime, rules, countVars, alertCall, alertFaults>>

\* The firing a worker is in.
Current(w) ==
  LET log == firings[evaluator[w].rule] IN
  CHOOSE i \in DOMAIN log :
    /\ log[i].by = w
    /\ \A j \in DOMAIN log : log[j].by = w => j <= i

LeftAfter(w, failed) == Tail(evaluator[w].left)

\* fire_action: a webhook, a mail or a line in a file.  One that fails is logged.
FireAction(w, failed) ==
  LET run == evaluator[w]
      firing == firings[run.rule][Current(w)]
  IN
  /\ run.step = "fire"
  /\ failed => alertFaults < MaxAlertFaults
  /\ alertFaults' = IF failed THEN alertFaults + 1 ELSE alertFaults
  /\ evaluator' = [evaluator EXCEPT ![w] = Timed([run EXCEPT !.left = LeftAfter(w, failed)])]
  /\ firings' = [firings EXCEPT ![run.rule][Current(w)] =
       [firing EXCEPT !.attempted = Append(firing.attempted, Head(run.left))]]
  /\ UNCHANGED <<alertTime, rules, countVars, alertCall, overlapped>>

\* last_fired is written when the writer connection is free; a failure is
\* ignored.
RecordFired(w, failed) ==
  LET run == evaluator[w]
      r == run.rule
      firing == firings[r][Current(w)]
  IN
  /\ run.step = "record"
  /\ failed => alertFaults < MaxAlertFaults
  /\ alertFaults' = IF failed THEN alertFaults + 1 ELSE alertFaults
  /\ rules' = IF failed \/ rules[r] = NoRule THEN rules
              ELSE [rules EXCEPT ![r].lastFired = run.firedAt]
  /\ firings' = [firings EXCEPT ![r][Current(w)] =
       [firing EXCEPT !.recorded = ~failed, !.at = run.firedAt]]
  /\ evaluator' = [evaluator EXCEPT ![w] =
       Resume([run EXCEPT !.step = "rules", !.rule = 0, !.firedAt = Never])]
  /\ UNCHANGED <<alertTime, countVars, alertCall, overlapped>>

------------------------------------------------------------------------------
(* Requests.                                                               *)

\* The fields a request names replace those that were read.
MergeRule(row, fields) ==
  [f \in DOMAIN row |-> IF f \in DOMAIN fields THEN fields[f] ELSE row[f]]

CreateAlert(c) ==
  LET r == AlertInput[c].rule
      fields == AlertInput[c].fields
  IN
  /\ alertCall[c].step = "idle"
  /\ AlertInput[c].op = "create"
  /\ rules[r] = NoRule /\ firings[r] = <<>>
  /\ rules' = [rules EXCEPT ![r] =
       [enabled |-> TRUE, frequency |-> fields["frequency"], lastFired |-> Never,
        conditions |-> fields["conditions"], actions |-> fields["actions"]]]
  /\ alertCall' = [alertCall EXCEPT ![c].step = "done"]
  /\ UNCHANGED <<alertTime, countVars, evaluator, firedVars, alertFaults>>

\* update_alert reads the row on a reader connection ...
ReadRule(c) ==
  /\ alertCall[c].step = "idle"
  /\ AlertInput[c].op = "update"
  /\ alertCall' = [alertCall EXCEPT ![c] =
       IF rules[AlertInput[c].rule] = NoRule THEN [step |-> "done", row |-> NoRule]
       ELSE [step |-> "merged",
             row |-> MergeRule(rules[AlertInput[c].rule], AlertInput[c].fields)]]
  /\ UNCHANGED <<alertTime, rules, countVars, evaluator, firedVars, alertFaults>>

WrittenWhole(row, merged) == merged \* mutant: last_fired is written back as read

\* ... and writes the merged fields back; last_fired is not among them.
Written(row, merged) == [merged EXCEPT !.lastFired = row.lastFired]

WriteRule(c) ==
  LET r == AlertInput[c].rule IN
  /\ alertCall[c].step = "merged"
  /\ rules' = IF rules[r] = NoRule THEN rules
              ELSE [rules EXCEPT ![r] = Written(rules[r], alertCall[c].row)]
  /\ alertCall' = [alertCall EXCEPT ![c] = [step |-> "done", row |-> NoRule]]
  /\ UNCHANGED <<alertTime, countVars, evaluator, firedVars, alertFaults>>

DeleteAlert(c) ==
  /\ alertCall[c].step = "idle"
  /\ AlertInput[c].op = "delete"
  /\ rules' = [rules EXCEPT ![AlertInput[c].rule] = NoRule]
  /\ alertCall' = [alertCall EXCEPT ![c].step = "done"]
  /\ UNCHANGED <<alertTime, countVars, evaluator, firedVars, alertFaults>>

AlertTick ==
  /\ alertTime < MaxAlertTime
  /\ alertTime' = alertTime + 1
  /\ UNCHANGED <<rules, countVars, evaluator, alertCall, firedVars, alertFaults>>

AlertNext ==
  \/ \E w \in Evaluator :
       \/ \E e \in AlertEvent, normalized \in 0..alertTime : CountEvent(w, e, normalized)
       \/ LoadRules(w) \/ LoseEvaluation(w)
       \/ \E r \in AlertRule : SkipRule(w, r) \/ SkipUnread(w, r) \/ StartFiring(w, r)
       \/ \E failed \in BOOLEAN : FireAction(w, failed) \/ RecordFired(w, failed)
  \/ \E c \in AlertCall : CreateAlert(c) \/ ReadRule(c) \/ WriteRule(c) \/ DeleteAlert(c)
  \/ PruneBuckets \/ AlertTick

AlertSpec == AlertInit /\ [][AlertNext]_alertVars

------------------------------------------------------------------------------
(* Properties.                                                             *)

\* A rule fires at most once in its cooldown: each firing begins at least the
\* rule's frequency after the last one's end, whatever its actions did and
\* whoever edited it - unless workers fired it at the same time, or a write of
\* last_fired failed.
CooldownSpacesFirings ==
  \A r \in AlertRule \ overlapped : \A i, j \in DOMAIN firings[r] :
    i < j /\ (\A n \in i..(j - 1) : firings[r][n].recorded)
      => firings[r][j].start - firings[r][i].at >= firings[r][j].frequency

\* A firing that was recorded has tried every action of one state of its rule,
\* also those after an action that failed.
FiredInFull ==
  \A r \in AlertRule : \A i \in DOMAIN firings[r] :
    firings[r][i].at # Never => firings[r][i].attempted = firings[r][i].actions

\* A rule's firings are spaced by its cooldown and complete, with workers that
\* evaluate it at the same time and requests that edit or delete it meanwhile.
FiringsSound == CooldownSpacesFirings /\ FiredInFull

\* Whether a rule that no request has touched has judged the i-th event.
Untouched(r) ==
  /\ FirstRules[r].enabled
  /\ \A c \in AlertCall : AlertInput[c].rule = r => alertCall[c].step = "idle"

Judged(r, i) ==
  /\ ~counted[i].lost
  /\ \A w \in Evaluator : evaluator[w].index = i =>
       evaluator[w].step # "load" /\ r \notin evaluator[w].queue

\* A condition holds of an event in spite of the time that went by since: a
\* threshold counts the events up to it whose times are still in its window.
\* Buckets of a window must not be pruned.
InWindow(cond, i) == {j \in 1..i : counted[j].time >= alertTime - cond.window}
StillHolds(cond, i) ==
  IF cond.kind = "threshold"
  THEN cond.window + AlertHour <= StatsRetention /\ Cardinality(InWindow(cond, i)) >= cond.threshold
  ELSE Matches(cond, counted[i].event)

\* The rule was fired after a time, or has not cooled down from a firing before it.
Answered(r, t) ==
  LET row == FirstRules[r] IN
  \/ row.lastFired # Never /\ t - row.lastFired < row.frequency
  \/ \E n \in DOMAIN firings[r] :
       LET f == firings[r][n] IN f.start >= t \/ (f.recorded /\ t - f.at < row.frequency)

\* No alert is missed: when the events of an issue reach a rule's threshold, by
\* the clients' own times, and meet its other conditions, the rule fires or is
\* cooling down, however the workers that counted the events and the hours and
\* the retention of their buckets move.
AlertsNotMissed ==
  \A r \in AlertRule, i \in DOMAIN counted :
    /\ Untouched(r) /\ Judged(r, i)
    /\ \A cond \in FirstRules[r].conditions : StillHolds(cond, i)
    => Answered(r, counted[i].at)
=============================================================================
