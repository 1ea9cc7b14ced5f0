-------------------------- MODULE DifAssembly_proofs --------------------------
(***************************************************************************)
(* Proofs about DifAssembly, for every value of its constants: its types,  *)
(* its invariants, and that it implements AssemblyJobs, because every step *)
(* is a step of the abstract queue or changes nothing its clients see.     *)
(***************************************************************************)
EXTENDS DifAssembly, TLAPS

-----------------------------------------------------------------------------
\* Types.

LEMMA InitTyped == Init => TypeOK
BY TimesAreNaturals DEF Init, TypeOK, EmptyFunction

LEMMA TypeStep == TypeOK /\ [Next]_vars => TypeOK'
<1> SUFFICES ASSUME TypeOK, [Next]_vars PROVE TypeOK'
  OBVIOUS
<1> USE TimesAreNaturals, RequestsNameChunks
    DEF TypeOK, Active, Finished, Null, fileVars, dbVars, Put, Drop, Restrict
<1>1. ASSUME NEW c \in Client, NEW k \in Key, Lookup(c, k) PROVE TypeOK'
  BY <1>1 DEF Lookup, Request
<1>2. ASSUME NEW c \in Client, CheckArtifacts(c) PROVE TypeOK'
  BY <1>2 DEF CheckArtifacts, Request
<1>3. ASSUME NEW c \in Client, ExpireReceipt(c) PROVE TypeOK'
  BY <1>3 DEF ExpireReceipt, Request
<1>4. ASSUME NEW c \in Client, Leave(c) PROVE TypeOK'
  BY <1>4 DEF Leave, Fault
<1>5. ASSUME NEW c \in Client, BeginPin(c) PROVE TypeOK'
  BY <1>5 DEF BeginPin, Dir, Request
<1>6. ASSUME NEW c \in Client, EndPin(c) PROVE TypeOK'
  BY <1>6 DEF EndPin, Fault, Request
<1>7. ASSUME NEW c \in Client, Enqueue(c) PROVE TypeOK'
  BY <1>7 DEF Enqueue, Fault, Row, Request
<1>8. ASSUME NEW c \in Client, UnpinRequest(c) PROVE TypeOK'
  BY <1>8 DEF UnpinRequest, RemoveStaging, Fault
<1>9. ASSUME NEW c \in Client, NEW ch \in Chunk, LinkChunk(c, ch) PROVE TypeOK'
  BY <1>9 DEF LinkChunk, Dir, Request
<1>10. ASSUME NEW w \in Worker, Claim(w) PROVE TypeOK'
  BY <1>10 DEF Claim, ClockReadings, Claimable, GivesUp, Row, Task
<1>11. ASSUME NEW w \in Worker, ReadPins(w) PROVE TypeOK'
  BY <1>11 DEF ReadPins, EndConversion, Task
<1>12. ASSUME NEW w \in Worker, StoreArtifacts(w) PROVE TypeOK'
  BY <1>12 DEF StoreArtifacts, EndConversion, Task
<1>13. ASSUME NEW w \in Worker, Heartbeat(w) PROVE TypeOK'
  <2> DEFINE i == work[w].job
  <2>1. work[w] \in Task /\ w \in DOMAIN work
    BY <1>13 DEF Heartbeat
  <2>2. CASE \E t \in ClockReadings :
               /\ Owns(w)
               /\ rows' = [rows EXCEPT ![i].lease = t + Lease]
               /\ work' = [work EXCEPT ![w].beat = t]
               /\ UNCHANGED faults
    <3>1. PICK t \in ClockReadings :
                 /\ Owns(w)
                 /\ rows' = [rows EXCEPT ![i].lease = t + Lease]
                 /\ work' = [work EXCEPT ![w].beat = t]
                 /\ UNCHANGED faults
      BY <2>2
    <3> t \in Nat
      BY DEF ClockReadings
    <3>2. [rows[i] EXCEPT !.lease = t + Lease] \in Row
      <4>1. rows[i] \in Row /\ t + Lease \in Nat
        BY <3>1 DEF Owns
      <4>2. QED
        BY <4>1 DEF Row
    <3>3. [work[w] EXCEPT !.beat = t] \in Task
      BY <2>1 DEF Task
    <3>4. QED
      BY <1>13, <2>1, <3>1, <3>2, <3>3 DEF Heartbeat
  <2>3. CASE /\ (~Owns(w) /\ UNCHANGED faults) \/ Fault
             /\ work' = [work EXCEPT ![w].lost = TRUE]
             /\ UNCHANGED rows
    <3>1. [work[w] EXCEPT !.lost = TRUE] \in Task
      BY <2>1 DEF Task
    <3>2. QED
      BY <1>13, <2>1, <2>3, <3>1 DEF Heartbeat, Fault
  <2>4. QED
    BY <1>13, <2>2, <2>3 DEF Heartbeat
<1>14. ASSUME NEW w \in Worker, Publish(w) PROVE TypeOK'
  <2>1. work[w].job \in DOMAIN rows' => rows'[work[w].job] \in Row
    <3> DEFINE i == work[w].job
    <3>1. work[w].result \in Finished /\ version \in Nat /\ now \in Nat
      BY <1>14 DEF Publish, Task
    <3>2. CASE /\ Owns(w)
               /\ rows' = [rows EXCEPT ![i].state = work[w].result,
                                       ![i].owner = Null, ![i].lease = Null,
                                       ![i].updated = now, ![i].version = version]
      <4>1. i \in DOMAIN rows /\ rows[i] \in Row
        BY <3>2 DEF Owns
      <4>2. rows'[i] = [rows[i] EXCEPT !.state = work[w].result, !.owner = Null,
                                       !.lease = Null, !.updated = now, !.version = version]
        BY <3>2, <4>1
      <4>3. rows'[i] = [key |-> rows[i].key, state |-> work[w].result, owner |-> Null,
                        lease |-> Null, claims |-> rows[i].claims, updated |-> now,
                        version |-> version]
        BY <4>1, <4>2 DEF Row
      <4>4. rows[i].key \in Key /\ rows[i].claims \in Nat
        BY <4>1 DEF Row
      <4> QED
        BY <3>1, <4>3, <4>4 DEF Row
    <3>3. CASE UNCHANGED rows
      BY <3>3
    <3> QED
      BY <1>14, <3>2, <3>3 DEF Publish
  <2>2. DOMAIN rows' = DOMAIN rows /\ \A j \in DOMAIN rows : rows'[j] \in Row
    BY <1>14, <2>1 DEF Publish
  <2>3. DOMAIN work' \subseteq DOMAIN work /\ \A v \in DOMAIN work' : work'[v] \in Task
    <3>1. CASE work' = [work EXCEPT ![w].pc = "unpin"]
      <4>1. work'[w] = [work[w] EXCEPT !.pc = "unpin"] /\ work[w] \in Task
        BY <1>14, <3>1 DEF Publish
      <4>2. work'[w] \in Task
        BY <4>1 DEF Task
      <4> QED
        BY <3>1, <4>2
    <3>2. CASE work' = Drop(work, w)
      BY <3>2
    <3> QED
      BY <1>14, <3>1, <3>2 DEF Publish
  <2>4. QED
    BY <1>14, <2>2, <2>3 DEF Publish, Fault
<1>15. ASSUME NEW w \in Worker, UnpinJob(w) PROVE TypeOK'
  BY <1>15 DEF UnpinJob, RemoveStaging, Fault
<1>16. ASSUME NEW j \in Job, CleanStat(j) PROVE TypeOK'
  BY <1>16 DEF CleanStat
<1>17. ASSUME NEW j \in Job, CleanCheck(j) PROVE TypeOK'
  BY <1>17 DEF CleanCheck, IsActive
<1>18. ASSUME NEW j \in Job, CleanRemove(j) PROVE TypeOK'
  BY <1>18 DEF CleanRemove, RemoveStaging, Fault
<1>19. ASSUME NEW ch \in Chunk, UploadChunk(ch) PROVE TypeOK'
  BY <1>19 DEF UploadChunk
<1>20. ASSUME NEW ch \in Chunk, ExpireChunk(ch) PROVE TypeOK'
  BY <1>20 DEF ExpireChunk
<1>21. ASSUME NEW k \in Key, DeleteArtifact(k) PROVE TypeOK'
  BY <1>21 DEF DeleteArtifact
<1>22. ASSUME Tick PROVE TypeOK'
  BY <1>22 DEF Tick
<1>23. ASSUME Crash PROVE TypeOK'
  BY <1>23 DEF Crash, EmptyFunction, Fault
<1>24. ASSUME NEW k \in Key, DeleteProject(k) PROVE TypeOK'
  BY <1>24 DEF DeleteProject, Fault
<1>25. ASSUME NEW k \in Key, CreateProject(k) PROVE TypeOK'
  BY <1>25 DEF CreateProject
<1>26. CASE UNCHANGED vars
  BY <1>26 DEF vars
<1> QED
  BY <1>1, <1>2, <1>3, <1>4, <1>5, <1>6, <1>7, <1>8, <1>9, <1>10, <1>11, <1>12, <1>13, <1>14, <1>15, <1>16, <1>17, <1>18, <1>19, <1>20, <1>21, <1>22, <1>23, <1>24, <1>25, <1>26 DEF Next, RequestStep, WorkerStep, CleanerStep

\* Every reachable state of the assembly queue is well typed: rows, staging
\* directories, requests and tasks never mix their shapes.
THEOREM TypeCorrect == Spec => []TypeOK
<1>1. TypeOK /\ [Next]_vars => TypeOK'
  BY TypeStep
<1> QED
  BY InitTyped, <1>1, PTL DEF Spec

-----------------------------------------------------------------------------
\* Effects of the steps that update one field of a row or of a task.

SameButLease(r, s) ==
  r.key = s.key /\ r.state = s.state /\ r.owner = s.owner /\ r.claims = s.claims
SameTask(t, u) == t.pc = u.pc /\ t.key = u.key /\ t.job = u.job /\ t.owner = u.owner

\* What a heartbeat changes: the lease of an owned row, or the owner's faith in it.
LEMMA HeartbeatEffect ==
  ASSUME TypeOK, NEW w \in Worker, Heartbeat(w)
  PROVE  /\ DOMAIN rows' = DOMAIN rows
         /\ \A k \in DOMAIN rows : SameButLease(rows'[k], rows[k])
         /\ w \in DOMAIN work /\ DOMAIN work' = DOMAIN work
         /\ \A v \in DOMAIN work : SameTask(work'[v], work[v])
         /\ \A v \in DOMAIN work \ {w} : work'[v] = work[v]
         /\ \/ work'[w].lost /\ UNCHANGED rows
            \/ /\ Owns(w) /\ ~work[w].lost
               /\ \E t \in ClockReadings :
                    work'[w].beat = t /\ rows'[work[w].job].lease = t + Lease
               /\ \A k \in DOMAIN rows \ {work[w].job} : rows'[k] = rows[k]
         /\ UNCHANGED <<now, dirs, requests, cleaner, used, owners, attempts>>
<1> DEFINE i == work[w].job
<1>1. w \in DOMAIN work /\ work[w] \in Task /\ ~work[w].lost
  BY DEF Heartbeat, TypeOK
<1>2. UNCHANGED <<now, dirs, requests, cleaner, used, owners, attempts>>
  BY DEF Heartbeat, fileVars
<1>3. CASE \E t \in ClockReadings : /\ Owns(w)
                                   /\ rows' = [rows EXCEPT ![i].lease = t + Lease]
                                   /\ work' = [work EXCEPT ![w].beat = t]
  <2>1. PICK t \in ClockReadings : /\ Owns(w)
                                  /\ rows' = [rows EXCEPT ![i].lease = t + Lease]
                                  /\ work' = [work EXCEPT ![w].beat = t]
    BY <1>3
  <2>2. i \in DOMAIN rows /\ rows[i] \in Row
    BY <2>1 DEF Owns, TypeOK
  <2>3. /\ DOMAIN work' = DOMAIN work
        /\ \A v \in DOMAIN work \ {w} : work'[v] = work[v]
        /\ work'[w] = [work[w] EXCEPT !.beat = t]
    BY <1>1, <2>1
  <2>4. SameTask(work'[w], work[w]) /\ work'[w].beat = t
    BY <1>1, <2>3 DEF Task, SameTask
  <2>5. /\ DOMAIN rows' = DOMAIN rows
        /\ \A k \in DOMAIN rows \ {i} : rows'[k] = rows[k]
        /\ rows'[i] = [rows[i] EXCEPT !.lease = t + Lease]
    BY <2>1, <2>2
  <2>6. SameButLease(rows'[i], rows[i]) /\ rows'[i].lease = t + Lease
    BY <2>2, <2>5 DEF Row, SameButLease
  <2> QED
    BY <1>1, <1>2, <2>1, <2>3, <2>4, <2>5, <2>6 DEF SameTask, SameButLease
<1>4. CASE work' = [work EXCEPT ![w].lost = TRUE] /\ UNCHANGED rows
  <2>1. /\ DOMAIN work' = DOMAIN work
        /\ \A v \in DOMAIN work \ {w} : work'[v] = work[v]
        /\ work'[w] = [work[w] EXCEPT !.lost = TRUE]
    BY <1>1, <1>4
  <2>2. SameTask(work'[w], work[w]) /\ work'[w].lost
    BY <1>1, <2>1 DEF Task, SameTask
  <2> QED
    BY <1>1, <1>2, <1>4, <2>1, <2>2 DEF SameTask, SameButLease
<1> QED
  BY <1>3, <1>4 DEF Heartbeat

\* What publishing changes: the owned row, whose job is active no longer.
LEMMA PublishEffect ==
  ASSUME TypeOK, NEW w \in Worker, Publish(w)
  PROVE  /\ DOMAIN rows' = DOMAIN rows
         /\ \A k \in DOMAIN rows : rows'[k].key = rows[k].key /\ (IsActive(k)' => IsActive(k))
         /\ DOMAIN work' \subseteq DOMAIN work
         /\ \A v \in DOMAIN work' : work'[v].job = work[v].job /\ work'[v].owner = work[v].owner
         /\ \A v \in DOMAIN work' \ {w} : work'[v] = work[v]
         /\ w \in DOMAIN work' => work'[w].pc = "unpin" /\ ~IsActive(work[w].job)'
         /\ w \in DOMAIN work
         /\ \/ UNCHANGED rows
            \/ Owns(w) /\ \A k \in DOMAIN rows \ {work[w].job} : rows'[k] = rows[k]
         /\ UNCHANGED <<now, dirs, requests, cleaner, used, owners>>
<1> DEFINE i == work[w].job
<1>1. w \in DOMAIN work /\ work[w] \in Task
  BY DEF Publish, TypeOK
<1>2. CASE work' = Drop(work, w) /\ UNCHANGED rows
  BY <1>1, <1>2 DEF Publish, fileVars, Drop, Restrict, IsActive
<1>3. CASE /\ Owns(w)
           /\ rows' = [rows EXCEPT ![i].state = work[w].result,
                                   ![i].owner = Null, ![i].lease = Null,
                                   ![i].updated = now, ![i].version = version]
           /\ work' = [work EXCEPT ![w].pc = "unpin"]
  <2>1. i \in DOMAIN rows /\ rows[i] \in Row
    BY <1>3 DEF Owns, TypeOK
  <2>2. /\ DOMAIN rows' = DOMAIN rows
        /\ \A k \in DOMAIN rows \ {i} : rows'[k] = rows[k]
    BY <1>3, <2>1
  <2>3. rows'[i].key = rows[i].key /\ rows'[i].state = work[w].result
    BY <1>3, <2>1 DEF Row
  <2>4. /\ DOMAIN work' = DOMAIN work
        /\ \A v \in DOMAIN work \ {w} : work'[v] = work[v]
        /\ work'[w].job = i /\ work'[w].owner = work[w].owner /\ work'[w].pc = "unpin"
    BY <1>1, <1>3 DEF Task
  <2>5. work[w].result \notin Active
    BY <1>1 DEF Task, Active, Finished
  <2> QED
    BY <1>1, <1>3, <2>1, <2>2, <2>3, <2>4, <2>5 DEF Publish, fileVars, IsActive
<1> QED
  BY <1>2, <1>3 DEF Publish

\* What one link changes while the request's directory is there.
LEMMA LinkEffect ==
  ASSUME TypeOK, NEW c \in Client, NEW ch \in Chunk, LinkChunk(c, ch),
         requests[c].job \in DOMAIN dirs
  PROVE  /\ DOMAIN dirs' = DOMAIN dirs
         /\ \A k \in DOMAIN dirs : dirs'[k].born = dirs[k].born /\ dirs[k].chunks \subseteq dirs'[k].chunks
         /\ dirs'[requests[c].job].chunks = dirs[requests[c].job].chunks \cup ({ch} \cap uploads)
         /\ c \in DOMAIN requests /\ requests[c].pc = "link"
         /\ DOMAIN requests' = DOMAIN requests
         /\ \A d \in DOMAIN requests \ {c} : requests'[d] = requests[d]
         /\ requests'[c].pc = "link" /\ requests'[c].job = requests[c].job
         /\ requests'[c].key = requests[c].key
         /\ requests'[c].todo = requests[c].todo \ {ch}
         /\ ~requests'[c].missing => ~requests[c].missing /\ ch \in uploads
         /\ UNCHANGED <<now, rows, work, cleaner, used>>
<1> DEFINE i == requests[c].job
           links == {ch} \cap uploads
<1>1. c \in DOMAIN requests /\ requests[c].pc = "link"
  BY DEF LinkChunk
<1>2. requests[c] \in [pc: {"link"}, key: Key, job: Job, todo: SUBSET Chunk, missing: BOOLEAN]
  BY <1>1 DEF TypeOK, Request
<1>3. dirs[i] \in Dir
  BY DEF TypeOK
<1>4. /\ DOMAIN dirs' = DOMAIN dirs
      /\ \A k \in DOMAIN dirs \ {i} : dirs'[k] = dirs[k]
      /\ dirs'[i] = [dirs[i] EXCEPT !.chunks = @ \cup links]
  BY DEF LinkChunk, Put
<1>5. dirs'[i].born = dirs[i].born /\ dirs'[i].chunks = dirs[i].chunks \cup links
  BY <1>3, <1>4 DEF Dir
<1>6. /\ DOMAIN requests' = DOMAIN requests
      /\ \A d \in DOMAIN requests \ {c} : requests'[d] = requests[d]
      /\ requests'[c] = [requests[c] EXCEPT !.todo = @ \ {ch}, !.missing = @ \/ ch \notin uploads]
  BY <1>1 DEF LinkChunk
<1>7. /\ requests'[c].pc = "link" /\ requests'[c].job = i
      /\ requests'[c].key = requests[c].key
      /\ requests'[c].todo = requests[c].todo \ {ch}
      /\ requests'[c].missing = (requests[c].missing \/ ch \notin uploads)
  BY <1>2, <1>6
<1> QED
  BY <1>1, <1>4, <1>5, <1>6, <1>7 DEF LinkChunk, dbVars

-----------------------------------------------------------------------------
\* Pins.  An id is drawn once; while a request holds one, it is the only task
\* that can touch its directory, which is too young for the collector.

Holds(c) == requests[c].pc \in {"link", "insert", "unpin"}
Admitting(c) == requests[c].pc \in {"link", "insert"}

IdsDrawn ==
  /\ DOMAIN rows \subseteq used
  /\ DOMAIN dirs \subseteq used
  /\ DOMAIN cleaner \subseteq used
  /\ \A c \in DOMAIN requests : Holds(c) => requests[c].job \in used
  /\ \A w \in DOMAIN work : work[w].job \in used

HoldersAlone ==
  \A c \in DOMAIN requests : Holds(c) =>
    /\ requests[c].job \notin DOMAIN rows
    /\ \A w \in DOMAIN work : work[w].job # requests[c].job
    /\ \A d \in DOMAIN requests : Holds(d) /\ requests[d].job = requests[c].job => c = d

HoldersPinned ==
  \A c \in DOMAIN requests : Admitting(c) =>
    LET r == requests[c] IN
      /\ r.job \in DOMAIN dirs
      /\ now <= dirs[r.job].born + AdmitBound
      /\ r.pc = "link" /\ ~r.missing => ChunksOf[r.key] \subseteq dirs[r.job].chunks \cup r.todo
      /\ r.pc = "insert" => ChunksOf[r.key] \subseteq dirs[r.job].chunks

UnpinnersDone == \A w \in DOMAIN work : work[w].pc = "unpin" => ~IsActive(work[w].job)

CleanerSound ==
  \A j \in DOMAIN cleaner :
    /\ j \in DOMAIN dirs => dirs[j].born + Retention <= now
    /\ cleaner[j] = "remove" => ~IsActive(j)

PinInv ==
  /\ IdsDrawn /\ HoldersAlone /\ HoldersPinned
  /\ UnpinnersDone /\ CleanerSound /\ ActivePinsPresent

\* What ExpireReceipt changes: the receipt of a finished job goes, the request pins.
LEMMA ExpireEffect ==
  ASSUME NEW c \in Client, ExpireReceipt(c)
  PROVE  /\ UNCHANGED <<now, fileVars, artifacts, used, owners, work, cleaner>>
         /\ DOMAIN rows' \subseteq DOMAIN rows /\ \A i \in DOMAIN rows' : rows'[i] = rows[i]
         /\ \A i \in DOMAIN rows \ DOMAIN rows' : rows[i].state \in Finished
         /\ DOMAIN requests' = DOMAIN requests /\ requests'[c].pc = "pin"
         /\ \A d \in DOMAIN requests \ {c} : requests'[d] = requests[d]
<1>1. /\ c \in DOMAIN requests
      /\ requests' = Put(requests, c, [pc |-> "pin", key |-> requests[c].key])
  BY DEF ExpireReceipt
<1>2. /\ DOMAIN requests' = DOMAIN requests /\ requests'[c].pc = "pin"
      /\ \A d \in DOMAIN requests \ {c} : requests'[d] = requests[d]
  BY <1>1 DEF Put
<1>3. /\ DOMAIN rows' \subseteq DOMAIN rows /\ \A i \in DOMAIN rows' : rows'[i] = rows[i]
      /\ \A i \in DOMAIN rows \ DOMAIN rows' : rows[i].state \in Finished
  BY DEF ExpireReceipt, Drop, Restrict
<1> QED
  BY <1>2, <1>3 DEF ExpireReceipt

\* No step of any task breaks the pins' invariant.
LEMMA PinStep == TypeOK /\ PinInv /\ [Next]_vars => PinInv'
<1> SUFFICES ASSUME TypeOK, PinInv, [Next]_vars PROVE PinInv'
  OBVIOUS
<1> USE TimesAreNaturals, RequestsNameChunks, AdmissionBeatsRetention
    DEF TypeOK, Active, Finished, Null, fileVars, dbVars, Put, Drop, Restrict, PinInv, IdsDrawn, HoldersAlone, HoldersPinned, UnpinnersDone, CleanerSound, ActivePinsPresent, Holds, Admitting, IsActive, Request, Task, Row, Dir
<1>1. ASSUME NEW c \in Client, NEW k \in Key, Lookup(c, k) PROVE PinInv'
  BY <1>1 DEF Lookup
<1>2. ASSUME NEW c \in Client, CheckArtifacts(c) PROVE PinInv'
  BY <1>2 DEF CheckArtifacts
<1>3. ASSUME NEW c \in Client, ExpireReceipt(c) PROVE PinInv'
  <2>1. /\ UNCHANGED <<now, fileVars, artifacts, used, owners, work, cleaner>>
        /\ DOMAIN rows' \subseteq DOMAIN rows /\ \A i \in DOMAIN rows' : rows'[i] = rows[i]
        /\ \A i \in DOMAIN rows \ DOMAIN rows' : rows[i].state \in Finished
        /\ DOMAIN requests' = DOMAIN requests /\ requests'[c].pc = "pin"
        /\ \A d \in DOMAIN requests \ {c} : requests'[d] = requests[d]
    BY <1>3, ExpireEffect
  <2>4. IdsDrawn' /\ HoldersAlone'
    BY <2>1
  <2>5. HoldersPinned'
    BY <2>1
  <2>6. UnpinnersDone' /\ CleanerSound' /\ ActivePinsPresent'
    BY <2>1
  <2> QED
    BY <2>4, <2>5, <2>6
<1>4. ASSUME NEW c \in Client, Leave(c) PROVE PinInv'
  BY <1>4 DEF Leave, Fault
<1>5. ASSUME NEW c \in Client, BeginPin(c) PROVE PinInv'
  <2>1. IdsDrawn'
    BY <1>5 DEF BeginPin
  <2>2. HoldersAlone'
    BY <1>5 DEF BeginPin
  <2>3. HoldersPinned'
    <3>1. PICK j \in Job \ used :
            /\ c \in DOMAIN requests
            /\ dirs' = Put(dirs, j, [chunks |-> {}, born |-> now])
            /\ requests' = Put(requests, c,
                 [pc |-> "link", key |-> requests[c].key, job |-> j,
                  todo |-> ChunksOf[requests[c].key], missing |-> FALSE])
            /\ now' = now
      BY <1>5 DEF BeginPin
    <3>2. \A i \in DOMAIN dirs : i # j /\ i \in DOMAIN dirs' /\ dirs'[i] = dirs[i]
      BY <3>1
    <3>3. \A d \in DOMAIN requests \ {c} : requests'[d] = requests[d]
      BY <3>1
    <3>4. ASSUME NEW d \in DOMAIN requests', d # c, Admitting(d)'
          PROVE  LET r == requests'[d] IN
                   /\ r.job \in DOMAIN dirs'
                   /\ now' <= dirs'[r.job].born + AdmitBound
                   /\ r.pc = "link" /\ ~r.missing
                        => ChunksOf[r.key] \subseteq dirs'[r.job].chunks \cup r.todo
                   /\ r.pc = "insert" => ChunksOf[r.key] \subseteq dirs'[r.job].chunks
      <4>1. d \in DOMAIN requests /\ Admitting(d) /\ requests'[d] = requests[d]
        BY <3>1, <3>3, <3>4
      <4> QED
        BY <3>1, <3>2, <4>1
    <3>5. /\ requests'[c].job \in DOMAIN dirs' /\ requests'[c].pc = "link"
          /\ now' <= dirs'[requests'[c].job].born + AdmitBound
          /\ ChunksOf[requests'[c].key] \subseteq requests'[c].todo
      BY <3>1
    <3> QED
      BY <3>1, <3>4, <3>5
  <2>4. UnpinnersDone' /\ CleanerSound'
    BY <1>5 DEF BeginPin
  <2>5. ActivePinsPresent'
    BY <1>5 DEF BeginPin
  <2> QED
    BY <2>1, <2>2, <2>3, <2>4, <2>5
<1>6. ASSUME NEW c \in Client, NEW ch \in Chunk, LinkChunk(c, ch) PROVE PinInv'
  <2>1. requests[c].job \in DOMAIN dirs
    BY <1>6 DEF LinkChunk
  <2>2. IdsDrawn' /\ HoldersAlone'
    BY <1>6, <2>1, LinkEffect
  <2>3. HoldersPinned'
    <3> SUFFICES ASSUME NEW d \in DOMAIN requests', Admitting(d)'
                 PROVE  LET r == requests'[d] IN
                          /\ r.job \in DOMAIN dirs'
                          /\ now' <= dirs'[r.job].born + AdmitBound
                          /\ r.pc = "link" /\ ~r.missing
                               => ChunksOf[r.key] \subseteq dirs'[r.job].chunks \cup r.todo
                          /\ r.pc = "insert" => ChunksOf[r.key] \subseteq dirs'[r.job].chunks
      OBVIOUS
    <3>1. CASE d = c
      <4>1. /\ requests'[c].job \in DOMAIN dirs'
            /\ now' <= dirs'[requests'[c].job].born + AdmitBound
        BY <1>6, <2>1, LinkEffect
      <4>2. ~requests'[c].missing
              => ChunksOf[requests[c].key] \subseteq dirs[requests[c].job].chunks \cup requests[c].todo
        BY <1>6, <2>1, LinkEffect
      <4>3. ~requests'[c].missing => ch \in uploads
        BY <1>6, <2>1, LinkEffect
      <4> QED
        BY <1>6, <2>1, <3>1, <4>1, <4>2, <4>3, LinkEffect
    <3>2. CASE d # c
      BY <1>6, <2>1, <3>2, LinkEffect
    <3> QED
      BY <3>1, <3>2
  <2>4. UnpinnersDone' /\ CleanerSound' /\ ActivePinsPresent'
    BY <1>6, <2>1, LinkEffect
  <2> QED
    BY <2>2, <2>3, <2>4
<1>7. ASSUME NEW c \in Client, EndPin(c) PROVE PinInv'
  BY <1>7 DEF EndPin, Fault
<1>8. ASSUME NEW c \in Client, Enqueue(c) PROVE PinInv'
  <2>1. IdsDrawn'
    BY <1>8 DEF Enqueue, Fault
  <2>2. HoldersAlone'
    BY <1>8 DEF Enqueue, Fault
  <2>3. HoldersPinned'
    BY <1>8 DEF Enqueue, Fault
  <2>4. UnpinnersDone' /\ CleanerSound'
    BY <1>8 DEF Enqueue, Fault
  <2>5. ActivePinsPresent'
    BY <1>8 DEF Enqueue, Fault
  <2> QED
    BY <2>1, <2>2, <2>3, <2>4, <2>5
<1>9. ASSUME NEW c \in Client, UnpinRequest(c) PROVE PinInv'
  BY <1>9 DEF UnpinRequest, RemoveStaging, Fault
<1>10. ASSUME NEW w \in Worker, Claim(w) PROVE PinInv'
  <2>1. IdsDrawn'
    BY <1>10 DEF Claim, ClockReadings, Claimable, GivesUp
  <2>2. HoldersAlone'
    BY <1>10 DEF Claim, ClockReadings, Claimable, GivesUp
  <2>3. HoldersPinned'
    BY <1>10 DEF Claim, ClockReadings, Claimable, GivesUp
  <2>4. UnpinnersDone'
    BY <1>10 DEF Claim, ClockReadings, Claimable, GivesUp
  <2>5. CleanerSound'
    BY <1>10 DEF Claim, ClockReadings, Claimable, GivesUp
  <2>6. ActivePinsPresent'
    BY <1>10 DEF Claim, ClockReadings, Claimable, GivesUp
  <2> QED
    BY <2>1, <2>2, <2>3, <2>4, <2>5, <2>6
<1>11. ASSUME NEW w \in Worker, ReadPins(w) PROVE PinInv'
  BY <1>11 DEF ReadPins, EndConversion
<1>12. ASSUME NEW w \in Worker, StoreArtifacts(w) PROVE PinInv'
  BY <1>12 DEF StoreArtifacts, EndConversion
<1>13. ASSUME NEW w \in Worker, Heartbeat(w) PROVE PinInv'
  BY <1>13, HeartbeatEffect DEF SameButLease, SameTask
<1>14. ASSUME NEW w \in Worker, Publish(w) PROVE PinInv'
  BY <1>14, PublishEffect
<1>15. ASSUME NEW w \in Worker, UnpinJob(w) PROVE PinInv'
  BY <1>15 DEF UnpinJob, RemoveStaging, Fault
<1>16. ASSUME NEW j \in Job, CleanStat(j) PROVE PinInv'
  BY <1>16 DEF CleanStat
<1>17. ASSUME NEW j \in Job, CleanCheck(j) PROVE PinInv'
  BY <1>17 DEF CleanCheck
<1>18. ASSUME NEW j \in Job, CleanRemove(j) PROVE PinInv'
  BY <1>18 DEF CleanRemove, RemoveStaging, Fault
<1>19. ASSUME NEW ch \in Chunk, UploadChunk(ch) PROVE PinInv'
  BY <1>19 DEF UploadChunk
<1>20. ASSUME NEW ch \in Chunk, ExpireChunk(ch) PROVE PinInv'
  BY <1>20 DEF ExpireChunk
<1>21. ASSUME NEW k \in Key, DeleteArtifact(k) PROVE PinInv'
  BY <1>21 DEF DeleteArtifact
<1>22. ASSUME Tick PROVE PinInv'
  BY <1>22 DEF Tick, AdmissionsAreTimely
<1>23. ASSUME Crash PROVE PinInv'
  BY <1>23 DEF Crash, Fault, EmptyFunction
<1>24. ASSUME NEW k \in Key, DeleteProject(k) PROVE PinInv'
  BY <1>24 DEF DeleteProject, Fault
<1>25. ASSUME NEW k \in Key, CreateProject(k) PROVE PinInv'
  BY <1>25 DEF CreateProject
<1>26. CASE UNCHANGED vars
  BY <1>26 DEF vars
<1> QED
  BY <1>1, <1>2, <1>3, <1>4, <1>5, <1>6, <1>7, <1>8, <1>9, <1>10, <1>11, <1>12, <1>13, <1>14, <1>15, <1>16, <1>17, <1>18, <1>19, <1>20, <1>21, <1>22, <1>23, <1>24, <1>25, <1>26 DEF Next, RequestStep, WorkerStep, CleanerStep

LEMMA PinInit == Init => PinInv
BY DEF Init, EmptyFunction, PinInv, IdsDrawn, HoldersAlone, HoldersPinned, UnpinnersDone,
       CleanerSound, ActivePinsPresent

LEMMA PinsInvariant == Spec => []PinInv
<1>1. TypeOK /\ PinInv /\ [Next]_vars => PinInv'
  BY PinStep
<1> QED
  BY PinInit, <1>1, TypeCorrect, PTL DEF Spec

\* Chunk retention, the staging collector, competing requests for one key and
\* workers that lost a job never take a chunk from a queued or running job
\* (pin_chunks, cleanup_staging), for any number of each.
THEOREM PinsPresent == Spec => []ActivePinsPresent
<1>1. PinInv => ActivePinsPresent
  BY DEF PinInv
<1> QED
  BY PinsInvariant, <1>1, PTL

-----------------------------------------------------------------------------
\* Attempts.  A row counts at least the conversions started for it; an id no
\* row has used yet has none.

AttemptsInv ==
  /\ AttemptsBounded
  /\ \A j \in DOMAIN rows : attempts[j] <= rows[j].claims
  /\ \A j \in Job \ used : attempts[j] = 0
  /\ \A c \in DOMAIN requests : Holds(c) => attempts[requests[c].job] = 0

\* Only a claim starts a conversion, and it counts it in the row first.
LEMMA AttemptsStep == TypeOK /\ PinInv /\ AttemptsInv /\ [Next]_vars => AttemptsInv'
<1> SUFFICES ASSUME TypeOK, PinInv, AttemptsInv, [Next]_vars PROVE AttemptsInv'
  OBVIOUS
<1> USE TimesAreNaturals
    DEF TypeOK, fileVars, dbVars, Put, Drop, Restrict, PinInv, IdsDrawn, HoldersAlone,
        AttemptsInv, AttemptsBounded, Holds, Request, Task, Row
<1>1. ASSUME NEW c \in Client, NEW k \in Key, Lookup(c, k) PROVE AttemptsInv'
  BY <1>1 DEF Lookup
<1>2. ASSUME NEW c \in Client, CheckArtifacts(c) PROVE AttemptsInv'
  BY <1>2 DEF CheckArtifacts
<1>3. ASSUME NEW c \in Client, ExpireReceipt(c) PROVE AttemptsInv'
  BY <1>3 DEF ExpireReceipt
<1>4. ASSUME NEW c \in Client, Leave(c) PROVE AttemptsInv'
  BY <1>4 DEF Leave, Fault
<1>5. ASSUME NEW c \in Client, BeginPin(c) PROVE AttemptsInv'
  BY <1>5 DEF BeginPin
<1>6. ASSUME NEW c \in Client, NEW ch \in Chunk, LinkChunk(c, ch) PROVE AttemptsInv'
  BY <1>6 DEF LinkChunk
<1>7. ASSUME NEW c \in Client, EndPin(c) PROVE AttemptsInv'
  BY <1>7 DEF EndPin, Fault
<1>8. ASSUME NEW c \in Client, Enqueue(c) PROVE AttemptsInv'
  BY <1>8 DEF Enqueue, Fault
<1>9. ASSUME NEW c \in Client, UnpinRequest(c) PROVE AttemptsInv'
  BY <1>9 DEF UnpinRequest, RemoveStaging, Fault
<1>10. ASSUME NEW w \in Worker, Claim(w) PROVE AttemptsInv'
  BY <1>10 DEF Claim, ClockReadings, Claimable, GivesUp
<1>11. ASSUME NEW w \in Worker, ReadPins(w) PROVE AttemptsInv'
  BY <1>11 DEF ReadPins, EndConversion
<1>12. ASSUME NEW w \in Worker, StoreArtifacts(w) PROVE AttemptsInv'
  BY <1>12 DEF StoreArtifacts, EndConversion
<1>13. ASSUME NEW w \in Worker, Heartbeat(w) PROVE AttemptsInv'
  BY <1>13, HeartbeatEffect DEF SameButLease

<1>14. ASSUME NEW w \in Worker, Publish(w) PROVE AttemptsInv'
  <2>1. /\ UNCHANGED <<used, requests, attempts>>
        /\ DOMAIN rows' = DOMAIN rows
        /\ \A j \in DOMAIN rows : rows'[j].claims = rows[j].claims
    <3>1. CASE UNCHANGED rows
      BY <1>14, <3>1 DEF Publish
    <3>2. CASE rows' = [rows EXCEPT ![work[w].job].state = work[w].result,
                                    ![work[w].job].owner = Null, ![work[w].job].lease = Null,
                                    ![work[w].job].updated = now,
                                    ![work[w].job].version = version]
      <4> DEFINE i == work[w].job
      <4>1. \A j \in DOMAIN rows \ {i} : rows'[j] = rows[j]
        BY <3>2
      <4>2. i \in DOMAIN rows => rows'[i].claims = rows[i].claims
        BY <3>2
      <4> QED
        BY <1>14, <3>2, <4>1, <4>2 DEF Publish
    <3> QED
      BY <1>14, <3>1, <3>2 DEF Publish
  <2>2. ASSUME UNCHANGED <<used, requests, attempts>>, DOMAIN rows' = DOMAIN rows,
               \A j \in DOMAIN rows : rows'[j].claims = rows[j].claims
        PROVE  AttemptsInv'
    BY <2>2
  <2> QED
    BY <2>1, <2>2
<1>15. ASSUME NEW w \in Worker, UnpinJob(w) PROVE AttemptsInv'
  BY <1>15 DEF UnpinJob, RemoveStaging, Fault
<1>16. ASSUME NEW j \in Job, CleanStat(j) PROVE AttemptsInv'
  BY <1>16 DEF CleanStat
<1>17. ASSUME NEW j \in Job, CleanCheck(j) PROVE AttemptsInv'
  BY <1>17 DEF CleanCheck
<1>18. ASSUME NEW j \in Job, CleanRemove(j) PROVE AttemptsInv'
  BY <1>18 DEF CleanRemove, RemoveStaging, Fault
<1>19. ASSUME NEW ch \in Chunk, UploadChunk(ch) PROVE AttemptsInv'
  BY <1>19 DEF UploadChunk
<1>20. ASSUME NEW ch \in Chunk, ExpireChunk(ch) PROVE AttemptsInv'
  BY <1>20 DEF ExpireChunk
<1>21. ASSUME NEW k \in Key, DeleteArtifact(k) PROVE AttemptsInv'
  BY <1>21 DEF DeleteArtifact
<1>22. ASSUME Tick PROVE AttemptsInv'
  BY <1>22 DEF Tick, AdmissionsAreTimely
<1>23. ASSUME Crash PROVE AttemptsInv'
  BY <1>23 DEF Crash, Fault, EmptyFunction
<1>24. ASSUME NEW k \in Key, DeleteProject(k) PROVE AttemptsInv'
  BY <1>24 DEF DeleteProject, Fault
<1>25. ASSUME NEW k \in Key, CreateProject(k) PROVE AttemptsInv'
  BY <1>25 DEF CreateProject
<1>26. CASE UNCHANGED vars
  BY <1>26 DEF vars
<1> QED
  BY <1>1, <1>2, <1>3, <1>4, <1>5, <1>6, <1>7, <1>8, <1>9, <1>10, <1>11, <1>12, <1>13, <1>14, <1>15, <1>16, <1>17, <1>18, <1>19, <1>20, <1>21, <1>22, <1>23, <1>24, <1>25, <1>26 DEF Next, RequestStep, WorkerStep, CleanerStep

LEMMA AttemptsInit == Init => AttemptsInv
BY TimesAreNaturals DEF Init, EmptyFunction, AttemptsInv, AttemptsBounded

\* However workers crash, stall or lose leases, no job is converted more than
\* MaxClaims times (claim's `claims > MAX_CLAIMS`).
THEOREM AttemptsAreBounded == Spec => []AttemptsBounded
<1>1. TypeOK /\ PinInv /\ AttemptsInv /\ [Next]_vars => AttemptsInv'
  BY AttemptsStep
<1>2. AttemptsInv => AttemptsBounded
  BY DEF AttemptsInv
<1> QED
  BY AttemptsInit, <1>1, <1>2, TypeCorrect, PinsInvariant, PTL DEF Spec

-----------------------------------------------------------------------------
\* Leases.  An owner that has not given its lease up still has it, unexpired,
\* unless its row went with the project; owner ids are drawn once.

Owning(w) == Converting(w) /\ ~work[w].lost

LeaseHeld(w) ==
  /\ Owns(w)
  /\ rows[work[w].job].lease = work[w].beat + Lease
  /\ now <= work[w].beat + BeatGap

LeaseInv ==
  /\ OwnersExclude
  /\ \A w \in DOMAIN work : Owning(w) /\ work[w].job \in DOMAIN rows => LeaseHeld(w)
  /\ \A w \in DOMAIN work : work[w].owner <= owners
  /\ \A v, w \in DOMAIN work : work[v].owner = work[w].owner => v = w

\* A claim takes over expired leases only, and timely owners' have not expired.
LEMMA LeaseStep ==
  ASSUME Lag <= BeatGap, BeatGap <= Lease
  PROVE  TypeOK /\ PinInv /\ LeaseInv /\ [Next]_vars => LeaseInv'
<1> SUFFICES ASSUME TypeOK, PinInv, LeaseInv, [Next]_vars PROVE LeaseInv'
  OBVIOUS
<1> USE TimesAreNaturals
    DEF TypeOK, fileVars, dbVars, Put, Drop, Restrict, LeaseInv, OwnersExclude, LeaseHeld, Owning, Converting, Owns, Row, Task
<1>1. ASSUME NEW c \in Client, NEW k \in Key, Lookup(c, k) PROVE LeaseInv'
  BY <1>1 DEF Lookup
<1>2. ASSUME NEW c \in Client, CheckArtifacts(c) PROVE LeaseInv'
  BY <1>2 DEF CheckArtifacts
<1>3. ASSUME NEW c \in Client, ExpireReceipt(c) PROVE LeaseInv'
  BY <1>3 DEF ExpireReceipt, Finished
<1>4. ASSUME NEW c \in Client, Leave(c) PROVE LeaseInv'
  BY <1>4 DEF Leave, Fault
<1>5. ASSUME NEW c \in Client, BeginPin(c) PROVE LeaseInv'
  BY <1>5 DEF BeginPin
<1>6. ASSUME NEW c \in Client, NEW ch \in Chunk, LinkChunk(c, ch) PROVE LeaseInv'
  BY <1>6 DEF LinkChunk
<1>7. ASSUME NEW c \in Client, EndPin(c) PROVE LeaseInv'
  BY <1>7 DEF EndPin, Fault
<1>8. ASSUME NEW c \in Client, Enqueue(c) PROVE LeaseInv'
  BY <1>8 DEF Enqueue, Fault, Active, Request, PinInv, HoldersAlone, Holds
<1>9. ASSUME NEW c \in Client, UnpinRequest(c) PROVE LeaseInv'
  BY <1>9 DEF UnpinRequest, RemoveStaging, Fault
<1>10. ASSUME NEW w \in Worker, Claim(w) PROVE LeaseInv'
  <2>1. PICK t \in ClockReadings, j \in DOMAIN rows :
          /\ w \notin DOMAIN work /\ j \in Claimable(t)
          /\ DOMAIN rows' = DOMAIN rows
          /\ \A i \in DOMAIN rows \ {j} : rows'[i] = rows[i]
          /\ rows'[j].state = "processing" /\ rows'[j].owner = owners + 1
          /\ rows'[j].lease = t + Lease
          /\ DOMAIN work' = DOMAIN work \cup {w}
          /\ \A v \in DOMAIN work : work'[v] = work[v]
          /\ work'[w].job = j /\ work'[w].owner = owners + 1 /\ ~work'[w].lost
          /\ work'[w].beat = t
          /\ owners' = owners + 1 /\ now' = now
    BY <1>10 DEF Claim, GivesUp
  <2>2. t \in Nat /\ t <= now /\ now <= t + Lag
    BY <2>1 DEF ClockReadings
  <2>3. \A v \in DOMAIN work : Owning(v) => work[v].job # j
    BY <2>1, <2>2 DEF Claimable
  <2>4. \A v \in DOMAIN work : work[v].owner <= owners /\ work[v].owner # owners + 1
    OBVIOUS
  <2>5. \A v, x \in DOMAIN work' : work'[v].owner = work'[x].owner => v = x
    BY <2>1, <2>4
  <2>6. \A v \in DOMAIN work' : work'[v].owner <= owners'
    BY <2>1, <2>4
  <2>7. ASSUME NEW v \in DOMAIN work', Owning(v)', work'[v].job \in DOMAIN rows'
        PROVE  LeaseHeld(v)'
    <3>1. CASE v = w
      BY <2>1, <2>2, <3>1
    <3>2. CASE v # w
      <4>1. v \in DOMAIN work /\ Owning(v) /\ work'[v] = work[v] /\ work[v].job # j
        BY <2>1, <2>3, <2>7, <3>2
      <4> QED
        BY <2>1, <2>7, <4>1
    <3> QED
      BY <3>1, <3>2
  <2>8. OwnersExclude'
    BY <2>1, <2>3, <2>5, <2>7
  <2> QED
    BY <2>5, <2>6, <2>7, <2>8
<1>11. ASSUME NEW w \in Worker, ReadPins(w) PROVE LeaseInv'
  BY <1>11 DEF ReadPins, EndConversion
<1>12. ASSUME NEW w \in Worker, StoreArtifacts(w) PROVE LeaseInv'
  BY <1>12 DEF StoreArtifacts, EndConversion
<1>13. ASSUME NEW w \in Worker, Heartbeat(w) PROVE LeaseInv'
  BY <1>13, HeartbeatEffect DEF SameButLease, SameTask, ClockReadings

<1>14. ASSUME NEW w \in Worker, Publish(w) PROVE LeaseInv'
  BY <1>14, PublishEffect

<1>15. ASSUME NEW w \in Worker, UnpinJob(w) PROVE LeaseInv'
  BY <1>15 DEF UnpinJob, RemoveStaging, Fault
<1>16. ASSUME NEW j \in Job, CleanStat(j) PROVE LeaseInv'
  BY <1>16 DEF CleanStat
<1>17. ASSUME NEW j \in Job, CleanCheck(j) PROVE LeaseInv'
  BY <1>17 DEF CleanCheck
<1>18. ASSUME NEW j \in Job, CleanRemove(j) PROVE LeaseInv'
  BY <1>18 DEF CleanRemove, RemoveStaging, Fault
<1>19. ASSUME NEW ch \in Chunk, UploadChunk(ch) PROVE LeaseInv'
  BY <1>19 DEF UploadChunk
<1>20. ASSUME NEW ch \in Chunk, ExpireChunk(ch) PROVE LeaseInv'
  BY <1>20 DEF ExpireChunk
<1>21. ASSUME NEW k \in Key, DeleteArtifact(k) PROVE LeaseInv'
  BY <1>21 DEF DeleteArtifact
<1>22. ASSUME Tick PROVE LeaseInv'
  BY <1>22 DEF Tick, AdmissionsAreTimely, OwnersAreTimely
<1>23. ASSUME Crash PROVE LeaseInv'
  BY <1>23 DEF Crash, Fault, EmptyFunction
<1>24. ASSUME NEW k \in Key, DeleteProject(k) PROVE LeaseInv'
  BY <1>24 DEF DeleteProject, Fault
<1>25. ASSUME NEW k \in Key, CreateProject(k) PROVE LeaseInv'
  BY <1>25 DEF CreateProject
<1>26. CASE UNCHANGED vars
  BY <1>26 DEF vars
<1> QED
  BY <1>1, <1>2, <1>3, <1>4, <1>5, <1>6, <1>7, <1>8, <1>9, <1>10, <1>11, <1>12, <1>13, <1>14, <1>15, <1>16, <1>17, <1>18, <1>19, <1>20, <1>21, <1>22, <1>23, <1>24, <1>25, <1>26 DEF Next, RequestStep, WorkerStep, CleanerStep

LEMMA LeaseInit == Init => LeaseInv
BY DEF Init, EmptyFunction, LeaseInv, OwnersExclude, Converting

\* If owners write again within BeatGap of their last clock reading, and that
\* is no longer than a lease, two workers never convert one job together
\* (claim's `lease_until < ?`, the heartbeat of process_with_lease).
THEOREM OwnersAreExclusive ==
  ASSUME Lag <= BeatGap, BeatGap <= Lease
  PROVE  Spec => []OwnersExclude
<1>1. TypeOK /\ PinInv /\ LeaseInv /\ [Next]_vars => LeaseInv'
  BY LeaseStep
<1>2. LeaseInv => OwnersExclude
  BY DEF LeaseInv
<1> QED
  BY LeaseInit, <1>1, <1>2, TypeCorrect, PinsInvariant, PTL DEF Spec

-----------------------------------------------------------------------------
\* The refinement of AssemblyJobs.

\* Steps that leave every row's key and outcome alone.
SameJobs ==
  /\ DOMAIN rows' = DOMAIN rows
  /\ \A j \in DOMAIN rows : /\ rows'[j].key = rows[j].key
                            /\ \/ rows'[j].state = rows[j].state
                               \/ rows[j].state \in Active /\ rows'[j].state \in Active

LEMMA SameJobsSeen == SameJobs => UNCHANGED JobsSeen
BY DEF SameJobs, JobsSeen

\* Drawn ids that are given up: the abstract queue abandons them.
LEMMA Abandoning ==
  ASSUME AdmissibleIds' \subseteq AdmissibleIds, UNCHANGED JobsSeen, AdmissibleIds \subseteq Job
  PROVE  JobQueue!Next
<1> DEFINE S == AdmissibleIds \ AdmissibleIds'
<1>1. S \in SUBSET Job /\ AdmissibleIds' = AdmissibleIds \ S
  OBVIOUS
<1>2. JobQueue!Abandon(S)
  BY <1>1 DEF JobQueue!Abandon
<1> QED
  BY <1>1, <1>2 DEF JobQueue!Next

LEMMA AdmissibleAreJobs == TypeOK => AdmissibleIds \subseteq Job
BY DEF TypeOK, AdmissibleIds, Request

\* The id a request holds leaves the admissible ids with the request.
LEMMA EnqueueAdmits ==
  ASSUME TypeOK, PinInv, NEW c \in Client, Enqueue(c), rows' # rows
  PROVE  JobQueue!Next
<1> DEFINE r == requests[c]
<1>1. /\ c \in DOMAIN requests /\ r.pc = "insert" /\ r.key \in Key /\ r.job \in Job
      /\ \A j \in DOMAIN rows : rows[j].key # r.key
      /\ rows' = Put(rows, r.job,
           [key |-> r.key, state |-> "pending", owner |-> Null, lease |-> Null,
            claims |-> 0, updated |-> now, version |-> 0])
      /\ requests' = Drop(requests, c) /\ UNCHANGED used
  BY DEF Enqueue, TypeOK, Request
<1>2. /\ r.job \in used /\ r.job \notin DOMAIN rows
      /\ \A d \in DOMAIN requests : Admitting(d) /\ requests[d].job = r.job => d = c
  BY <1>1 DEF PinInv, IdsDrawn, HoldersAlone, Holds, Admitting
<1>3. r.job \in AdmissibleIds
  BY <1>1 DEF AdmissibleIds
<1>4. AdmissibleIds' = AdmissibleIds \ {r.job}
  BY <1>1, <1>2 DEF AdmissibleIds, Admitting, Drop, Restrict
<1>5. JobsSeen' = [i \in DOMAIN JobsSeen \cup {r.job} |->
                     IF i = r.job THEN [key |-> r.key, outcome |-> "none"] ELSE JobsSeen[i]]
  BY <1>1, <1>2 DEF JobsSeen, Put, Active
<1>6. \A i \in DOMAIN JobsSeen : JobsSeen[i].key # r.key
  BY <1>1 DEF JobsSeen
<1>7. JobQueue!Admit(r.job, r.key)
  BY <1>3, <1>4, <1>5, <1>6 DEF JobQueue!Admit
<1> QED
  BY <1>1, <1>7 DEF JobQueue!Next

LEMMA PublishFinishes ==
  ASSUME TypeOK, NEW w \in Worker, Publish(w), Owns(w), rows' # rows
  PROVE  JobQueue!Next
<1> DEFINE i == work[w].job
           result == work[w].result
<1>1. /\ i \in DOMAIN rows /\ rows[i] \in Row /\ rows[i].state = "processing"
      /\ i \in Job /\ result \in Finished /\ UNCHANGED <<used, requests>>
  BY DEF Publish, Owns, TypeOK, Task
<1>2. rows' = [rows EXCEPT ![i].state = result, ![i].owner = Null, ![i].lease = Null,
                           ![i].updated = now, ![i].version = version]
  BY DEF Publish
<1>3. /\ DOMAIN rows' = DOMAIN rows
      /\ \A k \in DOMAIN rows \ {i} : rows'[k] = rows[k]
  BY <1>1, <1>2
<1>4. rows'[i].key = rows[i].key /\ rows'[i].state = result
  BY <1>1, <1>2 DEF Row
<1>5. JobsSeen[i] = [key |-> rows[i].key, outcome |-> "none"]
  BY <1>1 DEF JobsSeen, Active
<1>6. JobsSeen'[i] = [key |-> rows[i].key, outcome |-> result]
  BY <1>1, <1>3, <1>4 DEF JobsSeen, Active, Finished
<1>7. /\ DOMAIN JobsSeen' = DOMAIN JobsSeen /\ i \in DOMAIN JobsSeen
      /\ \A k \in DOMAIN JobsSeen \ {i} : JobsSeen'[k] = JobsSeen[k]
  BY <1>1, <1>3 DEF JobsSeen
<1>8. JobsSeen' = [JobsSeen EXCEPT ![i].outcome = result]
  <2> DEFINE new == [JobsSeen EXCEPT ![i].outcome = result]
  <2>1. [JobsSeen[i] EXCEPT !.outcome = result] = JobsSeen'[i]
    BY <1>5, <1>6
  <2>2. JobsSeen' = [k \in DOMAIN JobsSeen |-> JobsSeen'[k]]
    BY <1>7 DEF JobsSeen
  <2>3. new = [k \in DOMAIN JobsSeen |-> IF k = i THEN [JobsSeen[i] EXCEPT !.outcome = result]
                                                 ELSE JobsSeen[k]]
    BY <1>7
  <2> QED
    BY <1>7, <2>1, <2>2, <2>3
<1>9. UNCHANGED AdmissibleIds
  BY <1>1 DEF AdmissibleIds
<1>10. result \in JobQueue!Outcome \ {"none"}
  BY <1>1 DEF JobQueue!Outcome, Finished
<1>11. JobQueue!Finish(i, result)
  BY <1>5, <1>7, <1>8, <1>9 DEF JobQueue!Finish
<1>12. JobQueue!FinishSome(i)
  BY <1>10, <1>11 DEF JobQueue!FinishSome
<1> QED
  BY <1>1, <1>12 DEF JobQueue!Next

LEMMA ExpireDiscards ==
  ASSUME TypeOK, NEW c \in Client, ExpireReceipt(c), rows' # rows
  PROVE  JobQueue!Next
<1> DEFINE j == requests[c].job
<1>1. /\ c \in DOMAIN requests /\ requests[c].pc = "expire"
      /\ j \in DOMAIN rows /\ rows[j].state \in Finished /\ rows' = Drop(rows, j)
      /\ j \in Job
  BY DEF ExpireReceipt, TypeOK
<1>2. UNCHANGED AdmissibleIds
  BY <1>1 DEF ExpireReceipt, AdmissibleIds, Put
<1>3. j \in DOMAIN JobsSeen /\ JobsSeen[j].outcome # "none"
  BY <1>1 DEF JobsSeen, Active, Finished
<1>4. JobsSeen' = [i \in DOMAIN JobsSeen \ {j} |-> JobsSeen[i]]
  BY <1>1 DEF JobsSeen, Drop, Restrict
<1>5. JobQueue!Discard(j)
  BY <1>2, <1>3, <1>4 DEF JobQueue!Discard
<1> QED
  BY <1>1, <1>5 DEF JobQueue!Next

LEMMA DeleteWithdraws ==
  ASSUME NEW k \in Key, DeleteProject(k)
  PROVE  JobQueue!Next
<1>1. UNCHANGED AdmissibleIds
  BY DEF DeleteProject, AdmissibleIds
<1>2. JobsSeen' = [i \in {j \in DOMAIN JobsSeen : JobsSeen[j].key # k} |-> JobsSeen[i]]
  BY DEF DeleteProject, JobsSeen, Restrict
<1>3. JobQueue!Withdraw(k)
  BY <1>1, <1>2 DEF JobQueue!Withdraw
<1> QED
  BY <1>3 DEF JobQueue!Next

\* Every other step leaves what clients see alone, or gives up drawn ids.
Quiet ==
  /\ SameJobs
  /\ used \subseteq used'
  /\ \A c \in DOMAIN requests' : Admitting(c)' =>
       \/ requests'[c].job \in Job \ used
       \/ c \in DOMAIN requests /\ Admitting(c) /\ requests'[c].job = requests[c].job

LEMMA QuietAbandons == Quiet => AdmissibleIds' \subseteq AdmissibleIds
BY DEF Quiet, AdmissibleIds, Admitting

LEMMA QuietSteps ==
  ASSUME TypeOK, PinInv, Next, ~\E k \in Key : DeleteProject(k),
         (\E c \in Client : Enqueue(c) \/ ExpireReceipt(c)) \/ (\E w \in Worker : Publish(w))
            => rows' = rows
  PROVE  Quiet
<1> USE DEF TypeOK, Request, fileVars, dbVars, Put, Drop, Restrict, Quiet, SameJobs, Admitting
<1>1. ASSUME NEW c \in Client, NEW k \in Key, Lookup(c, k) PROVE Quiet
  BY <1>1 DEF Lookup
<1>2. ASSUME NEW c \in Client, CheckArtifacts(c) PROVE Quiet
  BY <1>2 DEF CheckArtifacts
<1>3. ASSUME NEW c \in Client, ExpireReceipt(c), rows' = rows PROVE Quiet
  BY <1>3 DEF ExpireReceipt
<1>4. ASSUME NEW c \in Client, Leave(c) PROVE Quiet
  BY <1>4 DEF Leave
<1>5. ASSUME NEW c \in Client, BeginPin(c) PROVE Quiet
  BY <1>5 DEF BeginPin
<1>6. ASSUME NEW c \in Client, NEW ch \in Chunk, LinkChunk(c, ch) PROVE Quiet
  BY <1>6 DEF LinkChunk
<1>7. ASSUME NEW c \in Client, EndPin(c) PROVE Quiet
  BY <1>7 DEF EndPin
<1>8. ASSUME NEW c \in Client, Enqueue(c), rows' = rows PROVE Quiet
  BY <1>8 DEF Enqueue
<1>9. ASSUME NEW c \in Client, UnpinRequest(c) PROVE Quiet
  BY <1>9 DEF UnpinRequest
<1>10. ASSUME NEW w \in Worker, Claim(w) PROVE Quiet
  BY <1>10 DEF Claim, ClockReadings, Claimable, Active
<1>11. ASSUME NEW w \in Worker, ReadPins(w) PROVE Quiet
  BY <1>11 DEF ReadPins
<1>12. ASSUME NEW w \in Worker, StoreArtifacts(w) PROVE Quiet
  BY <1>12 DEF StoreArtifacts
<1>13. ASSUME NEW w \in Worker, Heartbeat(w) PROVE Quiet
  BY <1>13, HeartbeatEffect DEF Heartbeat, SameButLease
<1>14. ASSUME NEW w \in Worker, Publish(w), rows' = rows PROVE Quiet
  BY <1>14 DEF Publish
<1>15. ASSUME NEW w \in Worker, UnpinJob(w) PROVE Quiet
  BY <1>15 DEF UnpinJob
<1>16. ASSUME NEW j \in Job, CleanStat(j) PROVE Quiet
  BY <1>16 DEF CleanStat
<1>17. ASSUME NEW j \in Job, CleanCheck(j) PROVE Quiet
  BY <1>17 DEF CleanCheck
<1>18. ASSUME NEW j \in Job, CleanRemove(j) PROVE Quiet
  BY <1>18 DEF CleanRemove
<1>19. ASSUME NEW ch \in Chunk, UploadChunk(ch) PROVE Quiet
  BY <1>19 DEF UploadChunk
<1>20. ASSUME NEW ch \in Chunk, ExpireChunk(ch) PROVE Quiet
  BY <1>20 DEF ExpireChunk
<1>21. ASSUME NEW k \in Key, DeleteArtifact(k) PROVE Quiet
  BY <1>21 DEF DeleteArtifact
<1>22. ASSUME Tick PROVE Quiet
  BY <1>22 DEF Tick
<1>23. ASSUME Crash PROVE Quiet
  BY <1>23 DEF Crash, EmptyFunction
<1>24. ASSUME NEW k \in Key, CreateProject(k) PROVE Quiet
  BY <1>24 DEF CreateProject
<1> QED
  BY <1>1, <1>2, <1>3, <1>4, <1>5, <1>6, <1>7, <1>8, <1>9, <1>10, <1>11, <1>12, <1>13, <1>14, <1>15, <1>16, <1>17, <1>18, <1>19, <1>20, <1>21, <1>22, <1>23, <1>24 DEF Next, RequestStep, WorkerStep, CleanerStep

LEMMA JobsStep == TypeOK /\ PinInv /\ [Next]_vars => [JobQueue!Next]_(JobQueue!vars)
<1> SUFFICES ASSUME TypeOK, PinInv, [Next]_vars PROVE [JobQueue!Next]_(JobQueue!vars)
  OBVIOUS
<1>1. CASE \E k \in Key : DeleteProject(k)
  BY <1>1, DeleteWithdraws
<1>2. CASE rows' # rows /\ \E c \in Client : Enqueue(c) \/ ExpireReceipt(c)
  BY <1>2, EnqueueAdmits, ExpireDiscards
<1>3. CASE rows' # rows /\ \E w \in Worker : Publish(w)
  <2>1. PICK w \in Worker : Publish(w)
    BY <1>3
  <2>2. Owns(w)
    BY <1>3, <2>1 DEF Publish
  <2> QED
    BY <1>3, <2>1, <2>2, PublishFinishes
<1>4. CASE Next /\ Quiet
  BY <1>4, SameJobsSeen, AdmissibleAreJobs, QuietAbandons, Abandoning DEF Quiet
<1>5. CASE UNCHANGED vars
  BY <1>5 DEF vars, AdmissibleIds, JobsSeen, JobQueue!vars
<1> QED
  BY <1>1, <1>2, <1>3, <1>4, <1>5, QuietSteps

LEMMA JobsInit == Init => JobQueue!Init
BY DEF Init, EmptyFunction, AdmissibleIds, JobsSeen, JobQueue!Init

\* For all behaviours: leases, claims, crashes, late workers, competing requests
\* and deleted projects together behave as the abstract queue, in which each job
\* is admitted once per key and finished at most once (dif_assembly.rs).
THEOREM JobsRefined == Spec => ImplementsJobs
<1>1. TypeOK /\ PinInv /\ [Next]_vars => [JobQueue!Next]_(JobQueue!vars)
  BY JobsStep
<1> QED
  BY JobsInit, <1>1, TypeCorrect, PinsInvariant, PTL DEF Spec, ImplementsJobs, JobQueue!Spec

=============================================================================
