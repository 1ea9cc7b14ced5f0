------------------------- MODULE EnvelopeQueue_proofs -------------------------
(***************************************************************************)
(* Proofs about EnvelopeQueue, for every value of its constants.           *)
(***************************************************************************)
EXTENDS EnvelopeQueue, FiniteSetTheorems, TLAPS

-----------------------------------------------------------------------------
\* Types.

LEMMA BackoffIsNatural == ASSUME NEW n \in Nat PROVE Backoff(n) \in Nat
<1> DEFINE k == IF n < 8 THEN n + 1 ELSE 9
<1>1. k \in 1..9
  OBVIOUS
<1>2. Shifted[k] \in Nat
  BY <1>1 DEF Shifted
<1> QED
  BY <1>2, NumbersAreNatural DEF Backoff

LEMMA FailedRow ==
  ASSUME NEW row \in Row, now \in Nat
  PROVE  /\ Failed(row) \in Row
         /\ Failed(row).event = row.event /\ Failed(row).state \in {"failed", "dead"}
<1> DEFINE dead == row.attempts + 1 >= MaxAttempts
           state == IF dead THEN "dead" ELSE "failed"
           next == IF dead THEN Null ELSE now + Backoff(row.attempts)
<1>1. row.attempts \in Nat /\ Backoff(row.attempts) \in Nat
  BY BackoffIsNatural DEF Row
<1>2. next \in Nat /\ state \in {"failed", "dead"} /\ row.attempts + 1 \in Nat
  BY <1>1 DEF Null
<1>3. Failed(row) = [row EXCEPT !.attempts = row.attempts + 1, !.state = state, !.next = next]
  BY <1>1 DEF Failed
<1>4. Failed(row) = [event |-> row.event, state |-> state, attempts |-> row.attempts + 1,
                     next |-> next, started |-> row.started, received |-> row.received]
  <2> HIDE DEF state, next
  <2> QED
    BY <1>3 DEF Row
<1> HIDE DEF state, next
<1> QED
  BY <1>2, <1>4 DEF Row, Open, Settled

LEMMA DoneRow ==
  ASSUME NEW row \in Row
  PROVE  LET done == [row EXCEPT !.state = "done"]
         IN done \in Row /\ done.event = row.event /\ done.state = "done"
BY DEF Row, Settled

LEMMA FaultsTyped == TypeOK /\ (Fault \/ faults' = faults) => faults' \in Nat
BY DEF TypeOK, Fault

LEMMA OfferTyped ==
  ASSUME NEW q \in Seq(Nat), Len(q) <= Capacity, NEW id \in Nat
  PROVE  Offer(q, id) \in Seq(Nat) /\ Len(Offer(q, id)) <= Capacity
<1>1. Len(Append(q, id)) = Len(q) + 1 /\ Len(q) \in Nat
  OBVIOUS
<1> QED
  BY <1>1, NumbersAreNatural DEF Offer

\* The fields of a task, by its program counter.
LEMMA TaskFields ==
  ASSUME TypeOK, NEW w \in DOMAIN work
  PROVE  /\ work[w].pc \in {"claim", "load", "count", "store", "index", "done", "failed"}
         /\ work[w].id \in Nat
         /\ work[w].pc # "claim" => work[w].since \in Nat
         /\ work[w].pc \in {"count", "store", "index"} => work[w].event \in Event
BY DEF TypeOK, Task

LEMMA AdvanceEffect ==
  ASSUME TypeOK, NEW w, NEW pc \in {"store", "index"}, At(w, "count") \/ At(w, "store"),
         Advance(w, pc)
  PROVE  /\ DOMAIN work' = DOMAIN work /\ w \in DOMAIN work
         /\ \A v \in DOMAIN work \ {w} : work'[v] = work[v]
         /\ work'[w] \in Task
         /\ work'[w].pc = pc /\ work'[w].id = work[w].id
         /\ work'[w].since = work[w].since /\ work'[w].event = work[w].event
<1>1. w \in DOMAIN work /\ work[w].pc \in {"count", "store"}
  BY DEF At
<1>2. work[w] \in [pc: {"count", "store", "index"}, id: Nat, since: Nat, event: Event]
  BY <1>1 DEF TypeOK, Task
<1>3. /\ DOMAIN work' = DOMAIN work
      /\ \A v \in DOMAIN work \ {w} : work'[v] = work[v]
      /\ work'[w] = [work[w] EXCEPT !.pc = pc]
  BY <1>1 DEF Advance
<1>4. work'[w] \in [pc: {"count", "store", "index"}, id: Nat, since: Nat, event: Event]
  BY <1>2, <1>3
<1> QED
  BY <1>1, <1>2, <1>3, <1>4 DEF Task

LEMMA SettleEffect ==
  ASSUME TypeOK, NEW w, NEW pc \in {"done", "failed"}, w \in DOMAIN work,
         work[w].pc # "claim", Settle(w, pc)
  PROVE  /\ DOMAIN work' = DOMAIN work
         /\ \A v \in DOMAIN work \ {w} : work'[v] = work[v]
         /\ work'[w] \in Task
         /\ work'[w].pc = pc /\ work'[w].id = work[w].id
         /\ work'[w].since = work[w].since
<1>1. work[w].id \in Nat /\ work[w].since \in Nat
  BY TaskFields
<1> QED
  BY <1>1 DEF Settle, Put, Task

\* The event of a loaded task is the one of the row it was loaded from.
LEMMA LoadEffect ==
  ASSUME TypeOK, NEW w, At(w, "load"), work[w].id \in DOMAIN rows,
         work' = Put(work, w, [pc |-> "count", id |-> work[w].id, since |-> work[w].since,
                               event |-> rows[work[w].id].event])
  PROVE  /\ DOMAIN work' = DOMAIN work /\ w \in DOMAIN work
         /\ \A v \in DOMAIN work \ {w} : work'[v] = work[v]
         /\ work'[w] \in Task
         /\ work'[w].pc = "count" /\ work'[w].id = work[w].id
         /\ work'[w].since = work[w].since /\ work'[w].event = rows[work[w].id].event
<1>1. w \in DOMAIN work /\ work[w].id \in Nat /\ work[w].since \in Nat
  BY TaskFields DEF At
<1>2. rows[work[w].id].event \in Event
  BY DEF TypeOK, Row
<1> QED
  BY <1>1, <1>2 DEF Put, Task

LEMMA ClaimEffect ==
  ASSUME TypeOK, NEW i \in DOMAIN rows, NEW t \in Nat,
         rows' = [rows EXCEPT ![i].state = "processing", ![i].started = t]
  PROVE  /\ DOMAIN rows' = DOMAIN rows
         /\ \A k \in DOMAIN rows \ {i} : rows'[k] = rows[k]
         /\ rows'[i] \in Row /\ rows'[i].event = rows[i].event
         /\ rows'[i].state = "processing" /\ rows'[i].started = t
<1>1. rows[i] \in Row
  BY DEF TypeOK
<1>2. /\ DOMAIN rows' = DOMAIN rows
      /\ \A k \in DOMAIN rows \ {i} : rows'[k] = rows[k]
      /\ rows'[i] = [rows[i] EXCEPT !.state = "processing", !.started = t]
  OBVIOUS
<1>3. rows'[i] = [event |-> rows[i].event, state |-> "processing", attempts |-> rows[i].attempts,
                  next |-> rows[i].next, started |-> t, received |-> rows[i].received]
  BY <1>1, <1>2 DEF Row
<1> QED
  BY <1>1, <1>2, <1>3 DEF Row, Open

LEMMA InitTyped == Init => TypeOK
BY NumbersAreNatural DEF Init, TypeOK, EmptyFunction

LEMMA TypeStep == TypeOK /\ [Next]_vars => TypeOK'
<1> SUFFICES ASSUME TypeOK, [Next]_vars PROVE TypeOK'
  OBVIOUS
<1> USE NumbersAreNatural DEF TypeOK, Put, Drop, Restrict, Null, Open, Settled
<1>1. ASSUME NEW c \in Client, NEW e \in Event, Insert(c, e) PROVE TypeOK'
  <2>1. DOMAIN rows' \subseteq Nat /\ \A i \in DOMAIN rows' : rows'[i] \in Row
    <3>1. PICK id \in 1..MaxRowid :
            rows' = Put(rows, id, [event |-> e, state |-> "pending", attempts |-> 0,
                                   next |-> Null, started |-> Null, received |-> now])
      BY <1>1 DEF Insert
    <3>2. [event |-> e, state |-> "pending", attempts |-> 0, next |-> Null,
           started |-> Null, received |-> now] \in Row
      BY DEF Row
    <3> QED
      BY <3>1, <3>2
  <2>2. DOMAIN senders' \subseteq Client /\ \A d \in DOMAIN senders' : senders'[d] \in Event
    BY <1>1 DEF Insert
  <2> QED
    BY <1>1, <2>1, <2>2 DEF Insert
<1>2. ASSUME NEW c \in Client, Queue(c) PROVE TypeOK'
  <2>1. channel' \in Seq(Nat) /\ Len(channel') <= Capacity
    BY <1>2, OfferTyped DEF Queue
  <2>2. faults' \in Nat
    BY <1>2 DEF Queue, Fault
  <2> QED
    BY <1>2, <2>1, <2>2 DEF Queue
<1>3. ASSUME Poll PROVE TypeOK'
  BY <1>3 DEF Poll
<1>4. ASSUME Repost PROVE TypeOK'
  BY <1>4 DEF Repost, Offer
<1>5. ASSUME NEW w \in Worker, Receive(w) PROVE TypeOK'
  BY <1>5 DEF Receive, Task
<1>6. ASSUME NEW w \in Worker, Claim(w) PROVE TypeOK'
  <2> DEFINE i == work[w].id
  <2>1. w \in DOMAIN work /\ i \in Nat
    BY <1>6 DEF Claim, Task
  <2>2. ASSUME NEW t \in ClockReadings, i \in DOMAIN rows,
               rows' = [rows EXCEPT ![i].state = "processing", ![i].started = t],
               work' = Put(work, w, [pc |-> "load", id |-> i, since |-> t]), faults' = faults
        PROVE  TypeOK'
    <3>1. t \in Nat
      BY <2>2 DEF ClockReadings
    <3>2. DOMAIN rows' = DOMAIN rows /\ \A k \in DOMAIN rows' : rows'[k] \in Row
      BY <2>2, <3>1, ClaimEffect
    <3>3. DOMAIN work' \subseteq Worker /\ \A v \in DOMAIN work' : work'[v] \in Task
      BY <2>1, <2>2, <3>1 DEF Task
    <3> QED
      BY <1>6, <2>2, <3>2, <3>3 DEF Claim
  <2>3. ASSUME work' = Drop(work, w), rows' = rows, faults' \in Nat
        PROVE  TypeOK'
    BY <1>6, <2>3 DEF Claim
  <2>4. CASE work' = Drop(work, w) /\ rows' = rows
    <3>1. faults' \in Nat
      BY <1>6, FaultsTyped DEF Claim
    <3> QED
      BY <2>3, <2>4, <3>1
  <2> QED
    BY <1>6, <2>2, <2>4 DEF Claim, Claimable
<1>7. ASSUME NEW w \in Worker, Load(w) PROVE TypeOK'
  <2>1. w \in DOMAIN work /\ work[w].pc = "load" /\ faults' \in Nat
    BY <1>7 DEF Load, At, Fault
  <2>2. DOMAIN work' \subseteq Worker /\ \A v \in DOMAIN work' : work'[v] \in Task
    BY <1>7, <2>1, LoadEffect, SettleEffect DEF Load
  <2> QED
    BY <1>7, <2>1, <2>2 DEF Load
<1>8. ASSUME NEW w \in Worker, Count(w) PROVE TypeOK'
  <2>1. w \in DOMAIN work /\ work[w].pc = "count" /\ faults' \in Nat
    BY <1>8 DEF Count, At, Fault
  <2>2. DOMAIN work' \subseteq Worker /\ \A v \in DOMAIN work' : work'[v] \in Task
    BY <1>8, <2>1, AdvanceEffect, SettleEffect DEF Count
  <2>3. counted' \in [Event -> Nat]
    BY <1>8 DEF Count
  <2> QED
    BY <1>8, <2>1, <2>2, <2>3 DEF Count
<1>9. ASSUME NEW w \in Worker, Store(w) PROVE TypeOK'
  <2>1. w \in DOMAIN work /\ work[w].pc = "store" /\ faults' \in Nat
    BY <1>9 DEF Store, At, Fault
  <2>2. DOMAIN work' \subseteq Worker /\ \A v \in DOMAIN work' : work'[v] \in Task
    BY <1>9, <2>1, AdvanceEffect, SettleEffect DEF Store
  <2>3. stored' \subseteq Event
    BY <1>9 DEF Store, Storable
  <2> QED
    BY <1>9, <2>1, <2>2, <2>3 DEF Store
<1>10. ASSUME NEW w \in Worker, Index(w) PROVE TypeOK'
  BY <1>10 DEF Index, At, Settle, Fault, Task
<1>11. ASSUME NEW w \in Worker, MarkDone(w) PROVE TypeOK'
  <2>1. DOMAIN rows' = DOMAIN rows /\ \A i \in DOMAIN rows' : rows'[i] \in Row
    <3>1. CASE UNCHANGED rows
      BY <3>1
    <3>2. CASE rows' = [i \in DOMAIN rows |-> IF i = work[w].id
                          THEN [rows[i] EXCEPT !.state = "done"] ELSE rows[i]]
      <4>1. \A i \in DOMAIN rows : [rows[i] EXCEPT !.state = "done"] \in Row
        BY DoneRow
      <4> QED
        BY <3>2, <4>1
    <3> QED
      BY <1>11, <3>1, <3>2 DEF MarkDone
  <2>2. work' = Drop(work, w) /\ faults' \in Nat
    BY <1>11, FaultsTyped DEF MarkDone
  <2> QED
    BY <1>11, <2>1, <2>2 DEF MarkDone
<1>12. ASSUME NEW w \in Worker, MarkFailed(w) PROVE TypeOK'
  <2>1. DOMAIN rows' = DOMAIN rows /\ \A i \in DOMAIN rows' : rows'[i] \in Row
    BY <1>12, FailedRow DEF MarkFailed
  <2>2. work' = Drop(work, w) /\ faults' \in Nat
    BY <1>12, FaultsTyped DEF MarkFailed
  <2> QED
    BY <1>12, <2>1, <2>2 DEF MarkFailed
<1>13. ASSUME NEW w \in Worker, Panic(w) PROVE TypeOK'
  BY <1>13 DEF Panic, Fault
<1>14. ASSUME Purge PROVE TypeOK'
  BY <1>14 DEF Purge, Purgeable
<1>15. ASSUME PurgeIssues PROVE TypeOK'
  BY <1>15 DEF PurgeIssues
<1>16. ASSUME NEW e \in Event, DeleteProject(e) PROVE TypeOK'
  BY <1>16 DEF DeleteProject
<1>17. ASSUME Tick PROVE TypeOK'
  BY <1>17 DEF Tick, WorkersAreTimely
<1>18. ASSUME Crash PROVE TypeOK'
  BY <1>18 DEF Crash, Fault, EmptyFunction
<1>19. CASE UNCHANGED vars
  BY <1>19 DEF vars
<1> QED
  BY <1>1, <1>2, <1>3, <1>4, <1>5, <1>6, <1>7, <1>8, <1>9, <1>10, <1>11, <1>12, <1>13, <1>14, <1>15, <1>16, <1>17, <1>18, <1>19 DEF Next, WorkerStep

\* Every reachable state of the envelope queue is well typed, and the channel
\* never holds more than its capacity.
THEOREM TypeCorrect == Spec => []TypeOK
<1>1. TypeOK /\ [Next]_vars => TypeOK'
  BY TypeStep
<1> QED
  BY InitTyped, <1>1, PTL DEF Spec

-----------------------------------------------------------------------------
\* Claims.  Within the staleness window a busy worker's row is still the one it
\* claimed, in the state and with the time stamp its claim gave it.

ClaimHeld(w) ==
  LET t == work[w] IN
    /\ t.id \in DOMAIN rows
    /\ rows[t.id].state = "processing" /\ rows[t.id].started = t.since
    /\ now <= t.since + WorkBound
    /\ t.pc \in {"count", "store", "index"} => t.event = rows[t.id].event
    /\ t.pc \in {"index", "done"} => rows[t.id].event \in stored

QueueInv ==
  /\ \A w \in DOMAIN work : Busy(w) => ClaimHeld(w)
  /\ WorkersExclude
  /\ DoneMeansStored

\* A busy worker's progress with its envelope.
LEMMA MoveKeeps ==
  ASSUME TypeOK, QueueInv, NEW w \in Worker, Busy(w),
         DOMAIN work' = DOMAIN work, \A v \in DOMAIN work \ {w} : work'[v] = work[v],
         work'[w].id = work[w].id, work'[w].since = work[w].since,
         work'[w].pc \in {"count", "store", "index"}
           => work'[w].event = rows[work[w].id].event,
         work'[w].pc \in {"index", "done"} => rows[work[w].id].event \in stored',
         rows' = rows, now' = now, stored \subseteq stored'
  PROVE  QueueInv'
BY DEF QueueInv, ClaimHeld, Busy, WorkersExclude, DoneMeansStored

\* A busy worker's outcome: it lets go of its row, which nobody else holds.
LEMMA OutcomeKeeps ==
  ASSUME TypeOK, QueueInv, NEW w \in Worker, Busy(w), work' = Drop(work, w),
         DOMAIN rows' = DOMAIN rows,
         \A i \in DOMAIN rows \ {work[w].id} : rows'[i] = rows[i],
         work[w].id \in DOMAIN rows, rows'[work[w].id].state = "done"
           => rows'[work[w].id].event \in stored,
         now' = now, stored' = stored
  PROVE  QueueInv'
<1>1. /\ DOMAIN work' = DOMAIN work \ {w}
      /\ \A v \in DOMAIN work' : work'[v] = work[v]
  BY DEF Drop, Restrict
<1>2. \A v \in DOMAIN work' : Busy(v)' => v \in Worker /\ Busy(v) /\ work[v].id # work[w].id
  BY <1>1 DEF TypeOK, QueueInv, WorkersExclude, Busy
<1>3. \A v \in DOMAIN work' : Busy(v)' => ClaimHeld(v)'
  BY <1>1, <1>2 DEF QueueInv, ClaimHeld
<1> QED
  BY <1>1, <1>2, <1>3 DEF QueueInv, WorkersExclude, DoneMeansStored, Busy

\* A claim finds the row free, or with a holder too old to be still at work.
LEMMA ClaimKeeps ==
  ASSUME WorkBound <= Stale, Lag <= WorkBound, TypeOK, QueueInv,
         NEW w \in Worker, NEW i, NEW t \in ClockReadings, Claimable(i),
         rows' = [rows EXCEPT ![i].state = "processing", ![i].started = t],
         work' = Put(work, w, [pc |-> "load", id |-> i, since |-> t]),
         now' = now, stored' = stored
  PROVE  QueueInv'
<1>1. t \in Nat /\ now \in Nat /\ now <= t + Lag
  BY DEF ClockReadings, TypeOK
<1>2. now <= t + WorkBound
  BY <1>1, NumbersAreNatural
<1>3. i \in DOMAIN rows
  BY DEF Claimable
<1>4. \A v \in DOMAIN work : Busy(v) => work[v].id # i
  <2> SUFFICES ASSUME NEW v \in DOMAIN work, Busy(v), work[v].id = i PROVE FALSE
    OBVIOUS
  <2>1. work[v].since \in Nat
    BY TaskFields DEF Busy
  <2>2. /\ rows[i].state = "processing" /\ rows[i].started = work[v].since
        /\ now <= work[v].since + WorkBound
    BY DEF QueueInv, ClaimHeld
  <2>3. work[v].since + Stale < now
    BY <2>2 DEF Claimable, IsStale
  <2> QED
    BY <1>1, <2>1, <2>2, <2>3, NumbersAreNatural
<1>5. /\ DOMAIN work' = DOMAIN work \cup {w}
      /\ \A v \in DOMAIN work \ {w} : work'[v] = work[v]
      /\ work'[w] = [pc |-> "load", id |-> i, since |-> t]
  BY DEF Put
<1>6. /\ DOMAIN rows' = DOMAIN rows
      /\ \A k \in DOMAIN rows \ {i} : rows'[k] = rows[k]
      /\ rows'[i].state = "processing" /\ rows'[i].started = t
  BY <1>1, <1>3, ClaimEffect
<1>7. ASSUME NEW v \in DOMAIN work', Busy(v)' PROVE ClaimHeld(v)'
  <2>1. CASE v = w
    BY <1>2, <1>3, <1>5, <1>6, <2>1 DEF ClaimHeld
  <2>2. CASE v # w
    <3>1. v \in DOMAIN work /\ work'[v] = work[v] /\ ClaimHeld(v) /\ work[v].id # i
      BY <1>4, <1>5, <1>7, <2>2 DEF Busy, QueueInv
    <3> QED
      BY <1>6, <3>1 DEF ClaimHeld
  <2> QED
    BY <2>1, <2>2
<1>8. WorkersExclude'
  BY <1>4, <1>5 DEF WorkersExclude, QueueInv, Busy
<1>9. DoneMeansStored'
  BY <1>6 DEF DoneMeansStored, QueueInv
<1> QED
  BY <1>7, <1>8, <1>9 DEF QueueInv, Busy

\* The assumptions: outcomes are written within the staleness window, and no
\* project is deleted (its envelopes' row ids would be free at once).
LEMMA QueueStep ==
  ASSUME WorkBound <= Stale, Lag <= WorkBound, MaxDeletions = 0
  PROVE  TypeOK /\ QueueInv /\ [Next]_vars => QueueInv'
<1> SUFFICES ASSUME TypeOK, QueueInv, [Next]_vars PROVE QueueInv'
  OBVIOUS
<1> USE NumbersAreNatural
    DEF TypeOK, Put, Drop, Restrict, QueueInv, ClaimHeld, WorkersExclude, DoneMeansStored, Busy
<1>1. ASSUME NEW c \in Client, NEW e \in Event, Insert(c, e) PROVE QueueInv'
  BY <1>1 DEF Insert, IsNextRowid, Row
<1>2. ASSUME NEW c \in Client, Queue(c) PROVE QueueInv'
  BY <1>2 DEF Queue, Fault, Offer
<1>3. ASSUME Poll PROVE QueueInv'
  BY <1>3 DEF Poll
<1>4. ASSUME Repost PROVE QueueInv'
  BY <1>4 DEF Repost, Offer
<1>5. ASSUME NEW w \in Worker, Receive(w) PROVE QueueInv'
  BY <1>5 DEF Receive
<1>6. ASSUME NEW w \in Worker, Claim(w) PROVE QueueInv'
  <2>1. stored' = stored /\ now' = now
    BY <1>6 DEF Claim
  <2>2. CASE work' = Drop(work, w) /\ rows' = rows
    BY <2>1, <2>2
  <2>3. ASSUME NEW t \in ClockReadings, Claimable(work[w].id),
               rows' = [rows EXCEPT ![work[w].id].state = "processing",
                                    ![work[w].id].started = t],
               work' = Put(work, w, [pc |-> "load", id |-> work[w].id, since |-> t])
        PROVE  QueueInv'
    <3> HIDE DEF Put, Drop, Restrict, TypeOK, QueueInv, ClaimHeld, WorkersExclude,
                 DoneMeansStored, Busy
    <3> QED
      BY <2>1, <2>3, ClaimKeeps
  <2> QED
    <3> HIDE DEF Put, Drop, Restrict, TypeOK, QueueInv, ClaimHeld, WorkersExclude,
                 DoneMeansStored, Busy
    <3> QED
      BY <1>6, <2>2, <2>3 DEF Claim
<1>7. ASSUME NEW w \in Worker, Load(w) PROVE QueueInv'
  <2>1. w \in DOMAIN work /\ Busy(w) /\ ClaimHeld(w)
    BY <1>7 DEF Load, At
  <2> QED
    BY <1>7, <2>1, MoveKeeps, LoadEffect, SettleEffect DEF Load
<1>8. ASSUME NEW w \in Worker, Count(w) PROVE QueueInv'
  <2>1. w \in DOMAIN work /\ Busy(w) /\ ClaimHeld(w) /\ At(w, "count")
    BY <1>8 DEF Count, At
  <2>2. CASE Advance(w, "store")
    <3>1. At(w, "count") \/ At(w, "store")
      BY <2>1
    <3>2. work[w].event = rows[work[w].id].event
      BY <2>1 DEF At
    <3>3. /\ DOMAIN work' = DOMAIN work /\ \A v \in DOMAIN work \ {w} : work'[v] = work[v]
          /\ work'[w].pc = "store" /\ work'[w].id = work[w].id
          /\ work'[w].since = work[w].since /\ work'[w].event = work[w].event
      BY <2>2, <3>1, AdvanceEffect
    <3>4. rows' = rows /\ now' = now /\ stored' = stored
      BY <1>8 DEF Count
    <3> HIDE DEF TypeOK, QueueInv, ClaimHeld, WorkersExclude, DoneMeansStored, Busy
    <3> QED
      BY <2>1, <3>2, <3>3, <3>4, MoveKeeps
  <2>3. CASE Settle(w, "failed")
    BY <1>8, <2>1, <2>3, MoveKeeps, SettleEffect DEF Count, At
  <2> QED
    BY <1>8, <2>2, <2>3 DEF Count
<1>9. ASSUME NEW w \in Worker, Store(w) PROVE QueueInv'
  <2>1. w \in DOMAIN work /\ Busy(w) /\ ClaimHeld(w) /\ At(w, "store")
    BY <1>9 DEF Store, At
  <2>2. CASE Advance(w, "index") /\ stored' = stored \cup {work[w].event}
    <3>1. At(w, "count") \/ At(w, "store")
      BY <2>1
    <3>2. work[w].event = rows[work[w].id].event
      BY <2>1 DEF At
    <3>3. /\ DOMAIN work' = DOMAIN work /\ \A v \in DOMAIN work \ {w} : work'[v] = work[v]
          /\ work'[w].pc = "index" /\ work'[w].id = work[w].id
          /\ work'[w].since = work[w].since /\ work'[w].event = work[w].event
      BY <2>2, <3>1, AdvanceEffect
    <3>4. rows' = rows /\ now' = now
      BY <1>9 DEF Store
    <3> HIDE DEF TypeOK, QueueInv, ClaimHeld, WorkersExclude, DoneMeansStored, Busy
    <3> QED
      BY <2>1, <2>2, <3>2, <3>3, <3>4, MoveKeeps
  <2>3. CASE Settle(w, "failed")
    BY <1>9, <2>1, <2>3, MoveKeeps, SettleEffect DEF Store, At
  <2> QED
    BY <1>9, <2>2, <2>3 DEF Store
<1>10. ASSUME NEW w \in Worker, Index(w) PROVE QueueInv'
  <2>1. w \in DOMAIN work /\ Busy(w) /\ ClaimHeld(w)
    BY <1>10 DEF Index, At
  <2> QED
    BY <1>10, <2>1, MoveKeeps, SettleEffect DEF Index, At
<1>11. ASSUME NEW w \in Worker, MarkDone(w) PROVE QueueInv'
  <2>1. w \in DOMAIN work /\ Busy(w) /\ ClaimHeld(w) /\ work[w].pc = "done"
    BY <1>11 DEF MarkDone, At
  <2>2. CASE rows' = rows
    BY <1>11, <2>1, <2>2, OutcomeKeeps DEF MarkDone
  <2>3. CASE rows' = [i \in DOMAIN rows |-> IF i = work[w].id
                                          THEN [rows[i] EXCEPT !.state = "done"] ELSE rows[i]]
    <3>1. /\ DOMAIN rows' = DOMAIN rows
          /\ \A i \in DOMAIN rows \ {work[w].id} : rows'[i] = rows[i]
          /\ rows'[work[w].id] = [rows[work[w].id] EXCEPT !.state = "done"]
      BY <2>1, <2>3
    <3>2. rows'[work[w].id].event \in stored
      BY <2>1, <3>1, DoneRow
    <3> QED
      BY <1>11, <2>1, <3>1, <3>2, OutcomeKeeps DEF MarkDone
  <2> QED
    BY <1>11, <2>2, <2>3 DEF MarkDone
<1>12. ASSUME NEW w \in Worker, MarkFailed(w) PROVE QueueInv'
  <2>1. w \in DOMAIN work /\ Busy(w) /\ ClaimHeld(w)
    BY <1>12 DEF MarkFailed, At
  <2>2. /\ DOMAIN rows' = DOMAIN rows
        /\ \A i \in DOMAIN rows \ {work[w].id} : rows'[i] = rows[i]
        /\ rows'[work[w].id].state = "done" => rows'[work[w].id].event \in stored
    BY <1>12, <2>1, FailedRow DEF MarkFailed, At
  <2> QED
    BY <1>12, <2>1, <2>2, OutcomeKeeps DEF MarkFailed
<1>13. ASSUME NEW w \in Worker, Panic(w) PROVE QueueInv'
  BY <1>13 DEF Panic, Fault
<1>14. ASSUME Purge PROVE QueueInv'
  BY <1>14 DEF Purge, Purgeable, Settled
<1>15. ASSUME PurgeIssues PROVE QueueInv'
  BY <1>15 DEF PurgeIssues
<1>16. ASSUME NEW e \in Event, DeleteProject(e) PROVE QueueInv'
  <2>1. Cardinality(Event \ projects) \in Nat
    BY EventsAreFinite, FS_Difference, FS_CardinalityType
  <2> QED
    BY <1>16, <2>1 DEF DeleteProject
<1>17. ASSUME Tick PROVE QueueInv'
  <2>1. \A w \in DOMAIN work : Busy(w) => now + 1 <= work[w].since + WorkBound
    BY <1>17, TaskFields DEF Tick, WorkersAreTimely
  <2> QED
    BY <1>17, <2>1 DEF Tick
<1>18. ASSUME Crash PROVE QueueInv'
  BY <1>18 DEF Crash, Fault, EmptyFunction
<1>19. CASE UNCHANGED vars
  BY <1>19 DEF vars
<1> QED
  BY <1>1, <1>2, <1>3, <1>4, <1>5, <1>6, <1>7, <1>8, <1>9, <1>10, <1>11, <1>12, <1>13, <1>14, <1>15, <1>16, <1>17, <1>18, <1>19 DEF Next, WorkerStep

\* The timing the proofs rest on, with MaxDeletions = 0: no project is deleted.
Timely == WorkBound <= Stale /\ Lag <= WorkBound /\ MaxDeletions = 0

LEMMA QueueCorrect == ASSUME Timely PROVE Spec => [](TypeOK /\ QueueInv)
<1>1. Init => QueueInv
  BY DEF Init, QueueInv, WorkersExclude, DoneMeansStored, Busy, EmptyFunction
<1>2. TypeOK /\ QueueInv /\ [Next]_vars => QueueInv'
  BY QueueStep DEF Timely
<1> QED
  BY InitTyped, TypeStep, <1>1, <1>2, PTL DEF Spec

\* No two workers ever process one envelope, whatever the channel and the
\* poller repeat, as long as outcomes are written within the staleness window.
THEOREM WorkersAreExclusive == ASSUME Timely PROVE Spec => []WorkersExclude
<1>1. QueueInv => WorkersExclude
  BY DEF QueueInv
<1> QED
  BY QueueCorrect, <1>1, PTL

\* A timely worker marks an envelope done only when its event is in the table,
\* even when purged row ids are given out again.
THEOREM DoneIsStored == ASSUME Timely PROVE Spec => []DoneMeansStored
<1>1. QueueInv => DoneMeansStored
  BY DEF QueueInv
<1> QED
  BY QueueCorrect, <1>1, PTL

SettledKept ==
  \A i \in DOMAIN rows :
    rows[i].state \in Settled => i \notin DOMAIN rows' \/ rows'[i] = rows[i]

\* An outcome is written on a row that its worker still holds, and a held row is
\* not settled: timely workers never rewrite a settled envelope.
THEOREM SettledStays == ASSUME Timely PROVE Spec => SettledIsFinal
<1>1. TypeOK /\ QueueInv /\ [Next]_vars => [SettledKept]_vars
  <2> SUFFICES ASSUME TypeOK, QueueInv, Next, NEW i \in DOMAIN rows,
                      rows[i].state \in Settled, i \in DOMAIN rows', rows'[i] # rows[i]
               PROVE  FALSE
    BY DEF SettledKept
  <2>1. ASSUME NEW w \in Worker, MarkDone(w) \/ MarkFailed(w) PROVE FALSE
    <3>1. work[w].id = i
      BY <2>1 DEF MarkDone, MarkFailed
    <3>2. w \in DOMAIN work /\ Busy(w)
      BY <2>1 DEF MarkDone, MarkFailed, At, Busy
    <3> QED
      BY <3>1, <3>2 DEF QueueInv, ClaimHeld, Settled
  <2>2. ASSUME NEW w \in Worker, Claim(w) PROVE FALSE
    <3>1. Claimable(i)
      BY <2>2 DEF Claim
    <3> QED
      BY <3>1 DEF Claimable, IsStale, Settled
  <2>3. ASSUME NEW c \in Client, NEW e \in Event, Insert(c, e) PROVE FALSE
    <3>1. rows'[i] = rows[i]
      BY <2>3 DEF Insert, IsNextRowid, Put, TypeOK
    <3> QED
      BY <3>1
  <2>4. ASSUME Purge \/ \E e \in Event : DeleteProject(e) PROVE FALSE
    BY <2>4 DEF Purge, DeleteProject, Restrict
  <2> QED
    BY <2>1, <2>2, <2>3, <2>4 DEF Next, WorkerStep, Queue, Poll, Repost, Receive, Load,
      Count, Store, Index, Panic, PurgeIssues, Tick, Crash
<1> QED
  BY QueueCorrect, <1>1, PTL DEF Spec, SettledIsFinal, SettledKept

-----------------------------------------------------------------------------
\* Counting.  As long as nothing fails, an event that was counted is stored, or
\* its one worker is between the two statements; a stored event's envelope is
\* done or in the hands of the worker that stored it, until it is purged.

OneRowPerEvent == \A i, j \in DOMAIN rows : rows[i].event = rows[j].event => i = j

CountedIsStored ==
  \A e \in Event \ stored :
    counted[e] # 0 => \E w \in DOMAIN work : work[w].pc = "store" /\ work[w].event = e

StoredIsSettling ==
  \A e \in stored :
    \/ \A i \in DOMAIN rows : rows[i].event # e
    \/ \E i \in DOMAIN rows :
         /\ rows[i].event = e
         /\ \/ rows[i].state = "done"
            \/ \E w \in DOMAIN work : work[w].pc \in {"index", "done"} /\ work[w].id = i

Unharmed == faults = 0 /\ projects = Event

Counting ==
  /\ \A e \in Event : counted[e] <= 1
  /\ CountedIsStored
  /\ StoredIsSettling

\* A client submits a stored event again; its envelope was purged.
Resubmission == \E c \in Client, e \in stored : Insert(c, e)
NeverResubmitted == [][~Resubmission]_vars

CountInv == OneRowPerEvent /\ (Unharmed => Counting)

LEMMA OneRowStep == TypeOK /\ OneRowPerEvent /\ [Next]_vars => OneRowPerEvent'
<1> SUFFICES ASSUME TypeOK, OneRowPerEvent, [Next]_vars PROVE OneRowPerEvent'
  OBVIOUS
<1>1. ASSUME DOMAIN rows' \subseteq DOMAIN rows,
             \A i \in DOMAIN rows' : rows'[i].event = rows[i].event
      PROVE  OneRowPerEvent'
  BY <1>1 DEF OneRowPerEvent
<1>2. ASSUME NEW c \in Client, NEW e \in Event, Insert(c, e) PROVE OneRowPerEvent'
  BY <1>2 DEF Insert, Put, OneRowPerEvent
<1>3. ASSUME NEW w \in Worker, Claim(w) PROVE OneRowPerEvent'
  <2>1. CASE rows' = rows
    BY <1>1, <2>1
  <2>2. ASSUME NEW t \in ClockReadings, work[w].id \in DOMAIN rows,
               rows' = [rows EXCEPT ![work[w].id].state = "processing",
                                    ![work[w].id].started = t]
        PROVE  OneRowPerEvent'
    <3>1. t \in Nat
      BY <2>2 DEF ClockReadings
    <3> QED
      BY <1>1, <2>2, <3>1, ClaimEffect
  <2> QED
    BY <1>3, <2>1, <2>2 DEF Claim, Claimable
<1>4. ASSUME NEW w \in Worker, MarkDone(w) PROVE OneRowPerEvent'
  <2>1. \A i \in DOMAIN rows : [rows[i] EXCEPT !.state = "done"].event = rows[i].event
    BY DoneRow DEF TypeOK
  <2> QED
    BY <1>1, <1>4, <2>1 DEF MarkDone
<1>5. ASSUME NEW w \in Worker, MarkFailed(w) PROVE OneRowPerEvent'
  <2>1. \A i \in DOMAIN rows : Failed(rows[i]).event = rows[i].event
    BY FailedRow DEF TypeOK
  <2> QED
    BY <1>1, <1>5, <2>1 DEF MarkFailed
<1>6. CASE Purge \/ \E e \in Event : DeleteProject(e)
  BY <1>1, <1>6 DEF Purge, DeleteProject, Restrict
<1>7. CASE UNCHANGED rows
  BY <1>1, <1>7
<1> QED
  BY <1>2, <1>3, <1>4, <1>5, <1>6, <1>7 DEF Next, WorkerStep, Queue, Poll, Repost, Receive,
    Load, Count, Store, Index, Panic, PurgeIssues, Tick, Crash, vars

\* A crash, an error or a deletion is never forgotten.
LEMMA HarmIsPermanent ==
  TypeOK /\ [Next]_vars /\ Unharmed' => Unharmed /\ ~Fault /\ UNCHANGED <<faults, projects>>
<1> SUFFICES ASSUME TypeOK, [Next]_vars, Unharmed'
             PROVE  Unharmed /\ ~Fault /\ UNCHANGED <<faults, projects>>
  OBVIOUS
<1>1. ~Fault
  BY DEF Fault, Unharmed, TypeOK
<1>2. ~ \E e \in Event : DeleteProject(e)
  BY DEF DeleteProject, Unharmed
<1>3. UNCHANGED <<faults, projects>>
  BY <1>1, <1>2 DEF Next, WorkerStep, Insert, Queue, Poll, Repost, Receive, Claim, Load,
    Count, Store, Index, MarkDone, MarkFailed, Panic, Purge, PurgeIssues, Tick, Crash, vars
<1> QED
  BY <1>1, <1>3 DEF Unharmed

\* The busy worker on the row of a stored event is about to mark it done.
LEMMA StoredIsInHand ==
  ASSUME TypeOK, QueueInv, OneRowPerEvent, StoredIsSettling,
         NEW w \in DOMAIN work, Busy(w), rows[work[w].id].event \in stored
  PROVE  work[w].pc \in {"index", "done"}
<1> DEFINE e == rows[work[w].id].event
<1>1. work[w].id \in DOMAIN rows /\ rows[work[w].id].state = "processing"
  BY DEF QueueInv, ClaimHeld
<1>2. PICK i \in DOMAIN rows :
        /\ rows[i].event = e
        /\ \/ rows[i].state = "done"
           \/ \E v \in DOMAIN work : work[v].pc \in {"index", "done"} /\ work[v].id = i
  BY <1>1 DEF StoredIsSettling
<1>3. i = work[w].id
  BY <1>1, <1>2 DEF OneRowPerEvent
<1>4. PICK v \in DOMAIN work : work[v].pc \in {"index", "done"} /\ work[v].id = i
  BY <1>1, <1>2, <1>3
<1>5. v = w
  BY <1>3, <1>4 DEF QueueInv, WorkersExclude, Busy, TypeOK
<1> QED
  BY <1>4, <1>5

\* What a step that leaves the counts and the stored events alone must preserve.
LEMMA CountingKept ==
  ASSUME Counting, counted' = counted, stored' = stored,
         \A w \in DOMAIN work : work[w].pc = "store" =>
           w \in DOMAIN work' /\ work'[w] = work[w],
         StoredIsSettling'
  PROVE  Counting'
BY DEF Counting, CountedIsStored

LEMMA SettlingKept ==
  ASSUME StoredIsSettling, stored' = stored, rows' = rows,
         \A w \in DOMAIN work : work[w].pc \in {"index", "done"} =>
           w \in DOMAIN work' /\ work'[w].pc \in {"index", "done"} /\ work'[w].id = work[w].id
  PROVE  StoredIsSettling'
BY DEF StoredIsSettling

\* A worker that is not between the two statements goes on, or gives up.
LEMMA WorkMoves ==
  ASSUME Counting, counted' = counted, stored' = stored, rows' = rows, now' = now,
         NEW w \in Worker, w \in DOMAIN work => work[w].pc \notin {"store", "index", "done"},
         \A v \in DOMAIN work \ {w} : v \in DOMAIN work' /\ work'[v] = work[v]
  PROVE  Counting'
<1>1. StoredIsSettling'
  BY SettlingKept DEF Counting
<1> QED
  BY <1>1, CountingKept

LEMMA CountKeepsCounting ==
  ASSUME TypeOK, QueueInv, OneRowPerEvent, Counting, NEW w \in Worker, Count(w), ~Fault,
         projects = Event
  PROVE  Counting'
<1> DEFINE e == work[w].event
<1>1. w \in DOMAIN work /\ Busy(w) /\ At(w, "count") /\ work[w].pc = "count"
  BY DEF Count, At, Busy
<1>2. e \in Event /\ work[w].id \in DOMAIN rows /\ rows[work[w].id].event = e
  BY <1>1, TaskFields DEF QueueInv, ClaimHeld
<1>3. e \notin stored
  BY <1>1, <1>2, StoredIsInHand DEF Counting
<1>4. counted[e] = 0
  <2> SUFFICES ASSUME counted[e] # 0 PROVE FALSE
    OBVIOUS
  <2>1. PICK v \in DOMAIN work : work[v].pc = "store" /\ work[v].event = e
    BY <1>2, <1>3 DEF Counting, CountedIsStored
  <2>2. Busy(v) /\ work[v].id \in DOMAIN rows /\ rows[work[v].id].event = e
    BY <2>1 DEF Busy, QueueInv, ClaimHeld
  <2>3. work[v].id = work[w].id
    BY <1>2, <2>2 DEF OneRowPerEvent
  <2>4. v = w
    BY <1>1, <2>1, <2>2, <2>3 DEF QueueInv, WorkersExclude, TypeOK
  <2> QED
    BY <1>1, <2>1, <2>4
<1>5. /\ counted' = [counted EXCEPT ![e] = @ + 1] /\ Advance(w, "store")
      /\ UNCHANGED <<rows, stored, now>>
  BY <1>2 DEF Count
<1>6. /\ DOMAIN work' = DOMAIN work /\ \A v \in DOMAIN work \ {w} : work'[v] = work[v]
      /\ work'[w].pc = "store" /\ work'[w].event = e
  BY <1>1, <1>5, AdvanceEffect
<1>7. counted'[e] = 1 /\ \A d \in Event \ {e} : counted'[d] = counted[d]
  BY <1>2, <1>4, <1>5 DEF TypeOK
<1>8. \A d \in Event : counted'[d] <= 1
  BY <1>7 DEF Counting
<1>9. CountedIsStored'
  <2> SUFFICES ASSUME NEW d \in Event \ stored, counted'[d] # 0
               PROVE  \E v \in DOMAIN work' : work'[v].pc = "store" /\ work'[v].event = d
    BY <1>5 DEF CountedIsStored
  <2>1. CASE d = e
    BY <1>1, <1>6, <2>1
  <2>2. CASE d # e
    BY <1>1, <1>6, <1>7, <2>2 DEF Counting, CountedIsStored
  <2> QED
    BY <2>1, <2>2
<1>10. StoredIsSettling'
  BY <1>1, <1>5, <1>6, SettlingKept DEF Counting
<1> QED
  BY <1>8, <1>9, <1>10 DEF Counting

LEMMA StoreKeepsCounting ==
  ASSUME TypeOK, QueueInv, OneRowPerEvent, Counting, NEW w \in Worker, Store(w), ~Fault,
         projects = Event
  PROVE  Counting'
<1> DEFINE e == work[w].event
<1>1. w \in DOMAIN work /\ Busy(w) /\ At(w, "store") /\ work[w].pc = "store"
  BY DEF Store, At, Busy
<1>2. e \in Event /\ work[w].id \in DOMAIN rows /\ rows[work[w].id].event = e
  BY <1>1, TaskFields DEF QueueInv, ClaimHeld
<1>3. e \notin stored
  BY <1>1, <1>2, StoredIsInHand DEF Counting
<1>4. UNCHANGED <<rows, counted, now>>
  BY DEF Store
<1>5. CASE Storable(e)
  <2>1. stored' = stored \cup {e} /\ Advance(w, "index")
    BY <1>5 DEF Store
  <2>2. /\ DOMAIN work' = DOMAIN work /\ \A v \in DOMAIN work \ {w} : work'[v] = work[v]
        /\ work'[w].pc = "index" /\ work'[w].id = work[w].id
    BY <1>1, <2>1, AdvanceEffect
  <2>3. CountedIsStored'
    <3> SUFFICES ASSUME NEW d \in Event \ stored', counted[d] # 0
                 PROVE  \E v \in DOMAIN work' : work'[v].pc = "store" /\ work'[v].event = d
      BY <1>4 DEF CountedIsStored
    <3>1. PICK v \in DOMAIN work : work[v].pc = "store" /\ work[v].event = d
      BY <2>1 DEF Counting, CountedIsStored
    <3> QED
      BY <2>1, <2>2, <3>1
  <2>4. StoredIsSettling'
    <3> SUFFICES ASSUME NEW d \in stored'
                 PROVE  \/ \A i \in DOMAIN rows : rows[i].event # d
                        \/ \E i \in DOMAIN rows :
                             /\ rows[i].event = d
                             /\ \/ rows[i].state = "done"
                                \/ \E v \in DOMAIN work' :
                                     work'[v].pc \in {"index", "done"} /\ work'[v].id = i
      BY <1>4 DEF StoredIsSettling
    <3>1. CASE d = e
      BY <1>1, <1>2, <2>2, <3>1
    <3>2. CASE d # e
      <4>1. d \in stored
        BY <2>1, <3>2
      <4>2. \A v \in DOMAIN work : work[v].pc \in {"index", "done"} =>
              v \in DOMAIN work' /\ work'[v] = work[v]
        BY <1>1, <2>2
      <4> QED
        BY <4>1, <4>2 DEF Counting, StoredIsSettling
    <3> QED
      BY <3>1, <3>2
  <2> QED
    BY <1>4, <2>3, <2>4 DEF Counting
<1>6. CASE ~Storable(e)
  <2>1. Settle(w, "failed") /\ stored' = stored
    BY <1>6 DEF Store
  <2>2. DOMAIN work' = DOMAIN work /\ \A v \in DOMAIN work \ {w} : work'[v] = work[v]
    BY <1>1, <2>1, SettleEffect
  <2>3. counted[e] = 0
    BY <1>2, <1>3, <1>6 DEF Storable, TypeOK
  <2>4. CountedIsStored'
    <3> SUFFICES ASSUME NEW d \in Event \ stored, counted[d] # 0
                 PROVE  \E v \in DOMAIN work' : work'[v].pc = "store" /\ work'[v].event = d
      BY <1>4, <2>1 DEF CountedIsStored
    <3>1. PICK v \in DOMAIN work : work[v].pc = "store" /\ work[v].event = d
      BY DEF Counting, CountedIsStored
    <3>2. v # w
      BY <2>3, <3>1
    <3> QED
      BY <2>2, <3>1, <3>2
  <2>5. StoredIsSettling'
    BY <1>1, <1>4, <2>1, <2>2, SettlingKept DEF Counting
  <2> QED
    BY <1>4, <2>4, <2>5 DEF Counting
<1> QED
  BY <1>5, <1>6

LEMMA OutcomeKeepsCounting ==
  ASSUME TypeOK, QueueInv, OneRowPerEvent, Counting, NEW w \in Worker,
         MarkDone(w) \/ MarkFailed(w), ~Fault
  PROVE  Counting'
<1>1. /\ w \in DOMAIN work /\ Busy(w) /\ work[w].pc \in {"done", "failed"}
      /\ UNCHANGED <<stored, counted, now>>
      /\ DOMAIN work' = DOMAIN work \ {w}
      /\ \A v \in DOMAIN work \ {w} : work'[v] = work[v]
  BY DEF MarkDone, MarkFailed, At, Busy, Drop, Restrict
<1>2. work[w].id \in DOMAIN rows /\ DOMAIN rows' = DOMAIN rows
  BY <1>1 DEF MarkDone, MarkFailed, QueueInv, ClaimHeld
<1>3. \A i \in DOMAIN rows \ {work[w].id} : rows'[i] = rows[i]
  BY <1>2 DEF MarkDone, MarkFailed
<1>4. /\ rows'[work[w].id].event = rows[work[w].id].event
      /\ work[w].pc = "done" => rows'[work[w].id].state = "done"
  <2>1. rows[work[w].id] \in Row /\ now \in Nat
    BY <1>2 DEF TypeOK
  <2>2. CASE MarkDone(w)
    <3>1. rows'[work[w].id] = [rows[work[w].id] EXCEPT !.state = "done"]
      BY <1>2, <2>2 DEF MarkDone
    <3> QED
      BY <2>1, <3>1, DoneRow
  <2>3. CASE MarkFailed(w)
    <3>1. rows'[work[w].id] = Failed(rows[work[w].id]) /\ work[w].pc = "failed"
      BY <1>2, <2>3 DEF MarkFailed, At
    <3> QED
      BY <2>1, <3>1, FailedRow
  <2> QED
    BY <2>2, <2>3
<1>5. StoredIsSettling'
  <2> SUFFICES ASSUME NEW e \in stored
               PROVE  \/ \A i \in DOMAIN rows : rows'[i].event # e
                      \/ \E i \in DOMAIN rows :
                           /\ rows'[i].event = e
                           /\ \/ rows'[i].state = "done"
                              \/ \E v \in DOMAIN work' :
                                   work'[v].pc \in {"index", "done"} /\ work'[v].id = i
    BY <1>1, <1>2 DEF StoredIsSettling
  <2>1. CASE \A i \in DOMAIN rows : rows[i].event # e
    BY <1>3, <1>4, <2>1
  <2>2. ASSUME NEW i \in DOMAIN rows, rows[i].event = e,
               \/ rows[i].state = "done"
               \/ \E v \in DOMAIN work : work[v].pc \in {"index", "done"} /\ work[v].id = i
        PROVE  /\ rows'[i].event = e
               /\ \/ rows'[i].state = "done"
                  \/ \E v \in DOMAIN work' :
                       work'[v].pc \in {"index", "done"} /\ work'[v].id = i
    <3>1. CASE i = work[w].id
      <4>1. work[w].pc = "done"
        BY <1>1, <2>2, <3>1, StoredIsInHand DEF Counting
      <4> QED
        BY <1>4, <2>2, <3>1, <4>1
    <3>2. CASE i # work[w].id
      <4>1. rows'[i] = rows[i]
        BY <1>3, <3>2
      <4>2. CASE rows[i].state = "done"
        BY <2>2, <4>1, <4>2
      <4>3. ASSUME NEW v \in DOMAIN work, work[v].pc \in {"index", "done"}, work[v].id = i
            PROVE  \E u \in DOMAIN work' : work'[u].pc \in {"index", "done"} /\ work'[u].id = i
        <5>1. v \in DOMAIN work' /\ work'[v] = work[v]
          BY <1>1, <3>2, <4>3
        <5> QED
          BY <4>3, <5>1
      <4> QED
        BY <2>2, <4>1, <4>2, <4>3
    <3> QED
      BY <3>1, <3>2
  <2> QED
    BY <2>1, <2>2 DEF Counting, StoredIsSettling
<1>6. \A v \in DOMAIN work : work[v].pc = "store" => v \in DOMAIN work' /\ work'[v] = work[v]
  BY <1>1
<1> QED
  BY <1>1, <1>5, <1>6, CountingKept

LEMMA InsertKeepsCounting ==
  ASSUME TypeOK, Counting, NEW c \in Client, NEW e \in Event, Insert(c, e), e \notin stored
  PROVE  Counting'
<1>1. UNCHANGED <<work, stored, counted, now>>
  BY DEF Insert
<1>2. /\ DOMAIN rows \subseteq DOMAIN rows' /\ \A i \in DOMAIN rows : rows'[i] = rows[i]
      /\ \E i \in DOMAIN rows' :
           rows'[i].event = e /\ DOMAIN rows' = DOMAIN rows \cup {i}
  <2>1. PICK i \in 1..MaxRowid :
          /\ IsNextRowid(i)
          /\ rows' = Put(rows, i, [event |-> e, state |-> "pending", attempts |-> 0,
                                  next |-> Null, started |-> Null, received |-> now])
    BY DEF Insert
  <2>2. i \notin DOMAIN rows
    BY <2>1 DEF IsNextRowid, TypeOK
  <2>3. /\ DOMAIN rows' = DOMAIN rows \cup {i} /\ rows'[i].event = e
        /\ \A k \in DOMAIN rows : rows'[k] = rows[k]
    BY <2>1, <2>2 DEF Put
  <2> QED
    BY <2>3
<1>3. StoredIsSettling'
  BY <1>1, <1>2 DEF Counting, StoredIsSettling
<1> QED
  BY <1>1, <1>3, CountingKept

LEMMA ClaimKeepsCounting ==
  ASSUME TypeOK, QueueInv, OneRowPerEvent, Counting, NEW w \in Worker, Claim(w), ~Fault
  PROVE  Counting'
<1>1. w \in DOMAIN work /\ work[w].pc = "claim" /\ UNCHANGED <<stored, counted, now>>
  BY DEF Claim
<1>2. \A v \in DOMAIN work \ {w} : v \in DOMAIN work' /\ work'[v] = work[v]
  BY <1>1 DEF Claim, Put, Drop, Restrict
<1>3. CASE rows' = rows
  BY <1>1, <1>2, <1>3, WorkMoves
<1>4. ASSUME NEW t \in ClockReadings, Claimable(work[w].id),
             rows' = [rows EXCEPT ![work[w].id].state = "processing",
                                  ![work[w].id].started = t]
      PROVE  Counting'
  <2> DEFINE i == work[w].id
  <2>1. t \in Nat /\ i \in DOMAIN rows /\ rows[i].state # "done"
    BY <1>4 DEF ClockReadings, Claimable, IsStale
  <2>2. /\ DOMAIN rows' = DOMAIN rows /\ \A k \in DOMAIN rows \ {i} : rows'[k] = rows[k]
        /\ rows'[i].event = rows[i].event
    BY <1>4, <2>1, ClaimEffect
  <2>3. StoredIsSettling'
    <3> SUFFICES ASSUME NEW e \in stored
                 PROVE  \/ \A k \in DOMAIN rows : rows'[k].event # e
                        \/ \E k \in DOMAIN rows :
                             /\ rows'[k].event = e
                             /\ \/ rows'[k].state = "done"
                                \/ \E v \in DOMAIN work' :
                                     work'[v].pc \in {"index", "done"} /\ work'[v].id = k
      BY <1>1, <2>2 DEF StoredIsSettling
    <3>1. CASE \A k \in DOMAIN rows : rows[k].event # e
      BY <2>2, <3>1
    <3>2. ASSUME NEW k \in DOMAIN rows, rows[k].event = e,
                 \/ rows[k].state = "done"
                 \/ \E v \in DOMAIN work : work[v].pc \in {"index", "done"} /\ work[v].id = k
          PROVE  /\ rows'[k].event = e
                 /\ \/ rows'[k].state = "done"
                    \/ \E v \in DOMAIN work' :
                         work'[v].pc \in {"index", "done"} /\ work'[v].id = k
      <4>1. CASE rows[k].state = "done"
        BY <2>1, <2>2, <3>2, <4>1
      <4>2. ASSUME NEW v \in DOMAIN work, work[v].pc \in {"index", "done"}, work[v].id = k
            PROVE  \E u \in DOMAIN work' : work'[u].pc \in {"index", "done"} /\ work'[u].id = k
        BY <1>1, <1>2, <4>2
      <4> QED
        BY <2>2, <3>2, <4>1, <4>2
    <3> QED
      BY <3>1, <3>2 DEF Counting, StoredIsSettling
  <2> QED
    BY <1>1, <1>2, <2>3, CountingKept
<1> QED
  BY <1>3, <1>4 DEF Claim

LEMMA PurgeKeepsCounting ==
  ASSUME TypeOK, QueueInv, OneRowPerEvent, Counting, Purge
  PROVE  Counting'
<1>1. UNCHANGED <<work, stored, counted, now>>
  BY DEF Purge
<1>2. /\ DOMAIN rows' = {i \in DOMAIN rows : ~Purgeable(i)}
      /\ \A i \in DOMAIN rows' : rows'[i] = rows[i]
  BY DEF Purge, Restrict
<1>3. \A w \in DOMAIN work : work[w].pc \in {"index", "done"} => ~Purgeable(work[w].id)
  BY DEF QueueInv, ClaimHeld, Busy, Purgeable, Settled
<1>4. StoredIsSettling'
  <2> SUFFICES ASSUME NEW e \in stored
               PROVE  \/ \A i \in DOMAIN rows' : rows[i].event # e
                      \/ \E i \in DOMAIN rows' :
                           /\ rows[i].event = e
                           /\ \/ rows[i].state = "done"
                              \/ \E w \in DOMAIN work :
                                   work[w].pc \in {"index", "done"} /\ work[w].id = i
    BY <1>1, <1>2 DEF StoredIsSettling
  <2>1. CASE \A i \in DOMAIN rows : rows[i].event # e
    BY <1>2, <2>1
  <2>2. ASSUME NEW i \in DOMAIN rows, rows[i].event = e, Purgeable(i)
        PROVE  \A k \in DOMAIN rows' : rows[k].event # e
    BY <1>2, <2>2 DEF OneRowPerEvent
  <2> QED
    BY <1>2, <2>1, <2>2 DEF Counting, StoredIsSettling
<1> QED
  BY <1>1, <1>4, CountingKept

LEMMA CountInvStep ==
  ASSUME TypeOK, QueueInv, CountInv, [Next]_vars, ~Resubmission
  PROVE  CountInv'
<1> SUFFICES ASSUME Unharmed' PROVE Counting'
  BY OneRowStep DEF CountInv
<1>1. Counting /\ OneRowPerEvent /\ ~Fault /\ projects = Event /\ projects' = Event
  BY HarmIsPermanent DEF CountInv, Unharmed
<1>2. ASSUME UNCHANGED <<rows, work, stored, counted, now>> PROVE Counting'
  BY <1>1, <1>2, SettlingKept, CountingKept DEF Counting
<1>3. ASSUME NEW c \in Client, (\E e \in Event : Insert(c, e)) \/ Queue(c) PROVE Counting'
  BY <1>1, <1>2, <1>3, InsertKeepsCounting DEF Queue, Resubmission
<1>4. ASSUME Poll \/ Repost PROVE Counting'
  BY <1>2, <1>4 DEF Poll, Repost
<1>5. ASSUME NEW w \in Worker, Receive(w) PROVE Counting'
  <2>1. \A v \in DOMAIN work \ {w} : v \in DOMAIN work' /\ work'[v] = work[v]
    BY <1>5 DEF Receive, Put
  <2> QED
    BY <1>1, <1>5, <2>1, WorkMoves DEF Receive
<1>6. ASSUME NEW w \in Worker, Load(w) PROVE Counting'
  <2>1. At(w, "load") /\ UNCHANGED <<rows, stored, counted, now>>
    BY <1>6 DEF Load
  <2>2. \A v \in DOMAIN work \ {w} : v \in DOMAIN work' /\ work'[v] = work[v]
    BY <1>6 DEF Load, Put, Settle
  <2> QED
    BY <1>1, <2>1, <2>2, WorkMoves DEF At
<1>7. ASSUME NEW w \in Worker, Index(w) PROVE Counting'
  <2>1. w \in DOMAIN work /\ work[w].pc = "index" /\ UNCHANGED <<rows, stored, counted, now>>
    BY <1>7 DEF Index, At
  <2>2. Settle(w, "done")
    BY <1>1, <1>7 DEF Index
  <2>3. /\ DOMAIN work' = DOMAIN work /\ \A v \in DOMAIN work \ {w} : work'[v] = work[v]
        /\ work'[w].pc = "done" /\ work'[w].id = work[w].id
    BY <2>1, <2>2, SettleEffect
  <2>4. StoredIsSettling'
    BY <1>1, <2>1, <2>3, SettlingKept DEF Counting
  <2> QED
    BY <1>1, <2>1, <2>3, <2>4, CountingKept
<1>8. ASSUME PurgeIssues PROVE Counting'
  <2>1. /\ counted' = [e \in Event |-> IF e \in stored THEN counted[e] ELSE 0]
        /\ UNCHANGED <<rows, work, stored, now>>
    BY <1>8 DEF PurgeIssues
  <2>2. \A e \in Event : counted'[e] = counted[e] \/ counted'[e] = 0
    BY <2>1
  <2>3. StoredIsSettling'
    BY <1>1, <2>1, SettlingKept DEF Counting
  <2>4. CountedIsStored'
    BY <1>1, <2>1, <2>2 DEF Counting, CountedIsStored
  <2> QED
    BY <1>1, <2>2, <2>3, <2>4 DEF Counting
<1>9. ASSUME Tick PROVE Counting'
  <2>1. now' = now + 1 /\ UNCHANGED <<rows, work, stored, counted>>
    BY <1>9 DEF Tick
  <2>2. StoredIsSettling'
    BY <1>1, <2>1, SettlingKept DEF Counting
  <2> QED
    BY <1>1, <2>1, <2>2, CountingKept
<1>10. ASSUME NEW w \in Worker, Panic(w) PROVE Counting'
  BY <1>1, <1>10 DEF Panic
<1>11. ASSUME Crash PROVE Counting'
  BY <1>1, <1>11 DEF Crash
<1>12. ASSUME NEW e \in Event, DeleteProject(e) PROVE Counting'
  BY <1>1, <1>12 DEF DeleteProject
<1>13. ASSUME UNCHANGED vars PROVE Counting'
  BY <1>2, <1>13 DEF vars
<1>14. ASSUME NEW w \in Worker, WorkerStep(w) PROVE Counting'
  BY <1>1, <1>5, <1>6, <1>7, <1>14, ClaimKeepsCounting, CountKeepsCounting,
     StoreKeepsCounting, OutcomeKeepsCounting DEF WorkerStep
<1> QED
  BY <1>3, <1>4, <1>8, <1>9, <1>10, <1>11, <1>12, <1>13, <1>14, PurgeKeepsCounting, <1>1 DEF Next

LEMMA CountInvInit == Init => CountInv
<1> SUFFICES ASSUME Init PROVE CountInv
  OBVIOUS
<1>1. \A e \in Event : counted[e] = 0
  BY DEF Init
<1>2. DOMAIN rows = {} /\ stored = {}
  BY DEF Init, EmptyFunction
<1> QED
  BY <1>1, <1>2 DEF CountInv, OneRowPerEvent, Counting, CountedIsStored, StoredIsSettling

\* CountedOnce (process_envelope's UPSERT on the issue): timely workers count an
\* event once, however often its envelope is queued, as long as no client submits
\* it again after its settled envelope was purged; then it is counted again.
THEOREM CountsOnce == ASSUME Timely PROVE Spec /\ NeverResubmitted => []CountedOnce
<1>1. TypeOK /\ QueueInv /\ CountInv /\ [Next]_vars /\ [~Resubmission]_vars => CountInv'
  <2>1. [~Resubmission]_vars => ~Resubmission
    BY DEF Resubmission, Insert, vars, TypeOK, Put
  <2> QED
    BY <2>1, CountInvStep
<1>2. CountInv => CountedOnce
  BY DEF CountInv, CountedOnce, Unharmed, Counting
<1> QED
  BY CountInvInit, <1>1, <1>2, TypeCorrect, QueueCorrect, PTL DEF Spec, NeverResubmitted

=============================================================================
