--------------------------- MODULE Storage_proofs ----------------------------
(***************************************************************************)
(* Theorems about ArtifactStore: rows have their files, one row an         *)
(* identity, and the best payload ever stored stays selected, for any      *)
(* uploads, files and older rows, and any number of failures, crashes and  *)
(* lost files; and the answers to uploads are true.                        *)
(*                                                                         *)
(* Theorems about ChunkCollector: a chunk is kept for its retention after  *)
(* its upload was answered, for any parts that share hashes and any number *)
(* of passes of the collector.                                             *)
(*                                                                         *)
(* Theorems about Migrations: the committed schema is that of the markers, *)
(* and a process serves only the current one, for any list of migrations,  *)
(* any number of processes and of failures.                                *)
(*                                                                         *)
(* Theorems about LeaseHeartbeat: a lease task that has returned left no   *)
(* conversion and no transaction behind, for conversions of any number of  *)
(* write transactions, any number of heartbeats and any order in which the *)
(* connection is asked for.                                                *)
(***************************************************************************)
EXTENDS ArtifactStore, ChunkCollector, Migrations, LeaseHeartbeat, Subsequences_proofs

-----------------------------------------------------------------------------
\* ArtifactStore: the inductive invariant.

RowFields == {"debug", "kind", "arch", "quality", "hash", "path"}
TxFields == {"upload", "payload", "published", "row", "stored"}
RequestFields == {"step", "item", "part", "uploaded", "errors", "artifacts", "primary"}

\* A row says what its file is, though older ones not of which architecture.
RowTrue(r) ==
  /\ DOMAIN r = RowFields
  /\ FileAt(r.path) \in Artifact
  /\ r.debug = FileAt(r.path).debug /\ r.kind = FileAt(r.path).kind
  /\ r.arch \in {FileAt(r.path).arch, NoArch}

NoneExact(a) ==
  \A r \in artifactRows : ~(r.debug = a.debug /\ r.kind = a.kind /\ r.arch = a.arch)

\* A row that keeps what was stored, or better.
Keeps(r, b) ==
  LET kept == FileAt(r.path) IN
  /\ r.debug = b.debug /\ r.kind = b.kind
  /\ r.arch \in {b.arch, NoArch}
  /\ kept.arch = b.arch
  /\ \/ kept.quality > b.quality
     \/ (kept.quality = b.quality /\ kept.hash <= b.hash)

\* Something besides row r keeps b.
KeptWithout(r, b) ==
  \E s \in artifactRows : s # r /\ Keeps(s, b) /\ s.path \in artifactFiles

BestKept ==
  \A b \in storedOk :
    b \in Artifact /\ \E r \in artifactRows : Keeps(r, b) /\ r.path \in artifactFiles

\* What a transaction read is still so: a row for a payload, its quality that of
\* its file, or nothing stored depends on it.
ReadRow(r, stored, a) ==
  /\ r \in artifactRows /\ r.debug = a.debug /\ r.kind = a.kind
  /\ r.arch = a.arch \/ (r.arch = NoArch /\ NoneExact(a))
  /\ DOMAIN stored = RowFields
  /\ stored.debug = r.debug /\ stored.kind = r.kind /\ stored.path = r.path
  /\ stored.quality = Unknown => \A b \in storedOk : KeptWithout(r, b)
  /\ stored.quality # Unknown =>
       /\ r.path \in artifactFiles /\ FileAt(r.path).arch = a.arch
       /\ stored.quality = FileAt(r.path).quality /\ stored.hash = FileAt(r.path).hash

TxTrue ==
  storeTx # NoTx =>
    /\ DOMAIN storeTx = TxFields
    /\ storeTx.payload \in Artifact
    /\ storeTx.published => /\ ObjectPath(storeTx.payload) \in artifactFiles
                            /\ ~Wins(storeTx.stored, storeTx.payload)
    /\ storeTx.row = NoRow => storeTx.stored = NoRow /\ NoneExact(storeTx.payload)
    /\ storeTx.row # NoRow => ReadRow(storeTx.row, storeTx.stored, storeTx.payload)

\* Unwind tables are stored only for an object that has some.
RequestsTrue ==
  /\ DOMAIN request = Upload
  /\ \A u \in Upload :
       /\ DOMAIN request[u] = RequestFields
       /\ request[u].part = "cfi" => CurrentItem(u).cfi # NoArtifact

StoreInv ==
  /\ \A r \in artifactRows : RowTrue(r)
  /\ RowsHaveFiles
  /\ OneRowPerIdentity
  /\ BestKept
  /\ TxTrue
  /\ RequestsTrue

-----------------------------------------------------------------------------
\* Rows, payloads and requests.

LEMMA ArtifactsAre ==
  \A a \in Artifact : a.arch # NoArch /\ a.quality \in Nat /\ a.hash \in Nat
BY ArtifactAssumption DEF ArtifactAssumption

LEMMA NoRowIsNoRow == \A r : RowTrue(r) => r # NoRow
<1>1. DOMAIN NoRow = {"path"}
  BY DEF NoRow
<1> QED
  BY <1>1 DEF RowTrue, RowFields

LEMMA NewRowIsTrue ==
  ASSUME NEW a \in Artifact
  PROVE  /\ RowTrue(Row(a, ObjectPath(a)))
         /\ Row(a, ObjectPath(a)).path = ObjectPath(a)
         /\ FileAt(ObjectPath(a)) = a
         /\ Row(a, ObjectPath(a)).arch = a.arch
BY DEF RowTrue, RowFields, Row, ObjectPath, FileAt

LEMMA PayloadIsArtifact ==
  ASSUME RequestsTrue, NEW u \in Upload, Storable(u)
  PROVE  Payload(u) \in Artifact
<1> DEFINE items == Converted[u]
           i == request[u].item
<1>1. i \in DOMAIN items
  BY DEF Storable
<1>2. CurrentItem(u) = items[i]
  BY DEF CurrentItem
<1>3. items[i].object # NoArtifact
  BY <1>1, <1>2, ArtifactAssumption DEF ArtifactAssumption, Storable
<1>4. Payload(u) \in {items[i].object, items[i].cfi} /\ Payload(u) # NoArtifact
  BY <1>2, <1>3 DEF Payload, RequestsTrue
<1>5. {items[i].object, items[i].cfi} \subseteq
        UNION {UNION {{Converted[v][j].object, Converted[v][j].cfi} :
                        j \in DOMAIN Converted[v]} : v \in Upload}
  BY <1>1
<1> QED
  BY <1>4, <1>5 DEF Artifact

\* A request that goes on, whatever its other fields.
LEMMA RequestGoesOn ==
  ASSUME RequestsTrue, NEW u \in Upload, NEW r,
         request' = [request EXCEPT ![u] = r],
         DOMAIN r = RequestFields,
         r.part = "cfi" => Converted[u][r.item].cfi # NoArtifact
  PROVE  RequestsTrue'
BY DEF RequestsTrue, CurrentItem

LEMMA NextPartIsTrue ==
  ASSUME NEW u \in Upload, NEW r, DOMAIN r = RequestFields, r.item = request[u].item
  PROVE  /\ DOMAIN NextPart(u, r) = RequestFields
         /\ NextPart(u, r).part = "cfi" =>
              Converted[u][NextPart(u, r).item].cfi # NoArtifact
<1>1. CASE r.part = "object" /\ CurrentItem(u).cfi # NoArtifact
  <2>1. NextPart(u, r) = [r EXCEPT !.part = "cfi"]
    BY <1>1 DEF NextPart
  <2> QED
    BY <1>1, <2>1 DEF RequestFields, CurrentItem
<1>2. CASE ~(r.part = "object" /\ CurrentItem(u).cfi # NoArtifact)
  <2>1. NextPart(u, r) = [r EXCEPT !.part = "object", !.item = r.item + 1]
    BY <1>2 DEF NextPart
  <2> QED
    BY <2>1 DEF RequestFields
<1> QED
  BY <1>1, <1>2

LEMMA StoredRequest ==
  ASSUME RequestsTrue, NEW u \in Upload, NEW a,
         request' = [request EXCEPT ![u] = AfterStore(u, a)]
  PROVE  RequestsTrue'
<1> DEFINE r == [request[u] EXCEPT !.artifacts = @ \cup {<<a.debug, a.arch, a.kind>>},
                   !.uploaded = IF request[u].part = "object"
                                THEN @ \cup {request[u].item} ELSE @]
<1>1. DOMAIN request[u] = RequestFields
  BY DEF RequestsTrue
<1>2. DOMAIN r = RequestFields /\ r.item = request[u].item
  BY <1>1 DEF RequestFields
<1>3. AfterStore(u, a) = NextPart(u, r)
  BY DEF AfterStore
<1> HIDE DEF r
<1> QED
  BY <1>2, <1>3, NextPartIsTrue, RequestGoesOn

LEMMA FailedRequest ==
  ASSUME RequestsTrue, NEW u \in Upload,
         request' = [request EXCEPT ![u] = AfterFailure(u)]
  PROVE  RequestsTrue'
<1> DEFINE r == request[u]
<1>1. DOMAIN r = RequestFields
  BY DEF RequestsTrue
<1>2. CASE r.part = "cfi"
  <2>1. AfterFailure(u) = NextPart(u, r)
    BY <1>2 DEF AfterFailure
  <2> QED
    BY <1>1, <2>1, NextPartIsTrue, RequestGoesOn
<1>3. CASE r.part # "cfi" /\ r.part = "object" /\ Route[u] = "dsym"
  <2>1. AfterFailure(u) = [r EXCEPT !.errors = @ \cup {r.item}, !.item = @ + 1]
    BY <1>3 DEF AfterFailure
  <2>2. DOMAIN AfterFailure(u) = RequestFields /\ AfterFailure(u).part = r.part
    BY <1>1, <2>1 DEF RequestFields
  <2> QED
    BY <1>3, <2>2, RequestGoesOn
<1>4. CASE r.part # "cfi" /\ ~(r.part = "object" /\ Route[u] = "dsym")
  <2>1. AfterFailure(u) = [r EXCEPT !.step = "failed"]
    BY <1>4 DEF AfterFailure
  <2>2. DOMAIN AfterFailure(u) = RequestFields /\ AfterFailure(u).part = r.part
    BY <1>1, <2>1 DEF RequestFields
  <2> QED
    BY <1>4, <2>2, RequestGoesOn
<1> QED
  BY <1>2, <1>3, <1>4

-----------------------------------------------------------------------------
\* The row a transaction reads.

LEMMA SelectedRow ==
  ASSUME \A r \in artifactRows : RowTrue(r), NEW a \in Artifact
  PROVE  \/ Selected(a) = NoRow /\ NoneExact(a)
         \/ /\ Selected(a) \in artifactRows
            /\ Selected(a).debug = a.debug /\ Selected(a).kind = a.kind
            /\ \/ Selected(a).arch = a.arch
               \/ Selected(a).arch = NoArch /\ NoneExact(a)
<1> DEFINE same == {r \in artifactRows : r.debug = a.debug /\ r.kind = a.kind}
           exact == {r \in same : r.arch = a.arch}
           legacy == {r \in same : a.kind = "native" /\ r.arch = NoArch}
           Right(r) == (exact # {} => r \in exact) /\ (exact \cup legacy # {} => r # NoRow)
<1>1. Selected(a) = CHOOSE r \in exact \cup legacy \cup {NoRow} : Right(r)
  BY DEF Selected
<1>2. \A r \in exact \cup legacy : r # NoRow
  BY NoRowIsNoRow
<1>3. \E r \in exact \cup legacy \cup {NoRow} : Right(r)
  <2>1. CASE exact # {}
    BY <2>1, <1>2
  <2>2. CASE exact = {} /\ legacy # {}
    BY <2>2, <1>2
  <2>3. CASE exact = {} /\ legacy = {}
    BY <2>3
  <2> QED
    BY <2>1, <2>2, <2>3
<1> DEFINE chosen == Selected(a)
<1> HIDE DEF Right
<1>4. chosen \in exact \cup legacy \cup {NoRow} /\ Right(chosen)
  BY <1>1, <1>3
<1> USE DEF Right
<1>5. CASE exact # {}
  BY <1>4, <1>5
<1>6. CASE exact = {}
  <2>1. NoneExact(a)
    BY <1>6 DEF NoneExact
  <2> QED
    BY <1>4, <2>1
<1> QED
  BY <1>5, <1>6

LEMMA BegunTx ==
  ASSUME NEW a \in Artifact, NEW r, NEW stored, NEW u,
         r # NoRow, ReadRow(r, stored, a),
         storeTx' = [upload |-> u, payload |-> a, published |-> FALSE,
                     row |-> r, stored |-> stored],
         UNCHANGED <<artifactRows, artifactFiles, storedOk>>
  PROVE  TxTrue'
<1>1. ReadRow(r, stored, a)'
  BY DEF ReadRow, NoneExact, KeptWithout
<1>2. /\ DOMAIN storeTx' = TxFields /\ storeTx'.payload = a /\ ~storeTx'.published
      /\ storeTx'.row = r /\ storeTx'.stored = stored
  BY DEF TxFields
<1> QED
  BY <1>1, <1>2 DEF TxTrue

LEMMA BeginStoreTx ==
  ASSUME StoreInv, NEW u \in Upload, BeginStore(u)
  PROVE  TxTrue'
<1> DEFINE a == Payload(u)
           row == Selected(a)
           stored == Inspected(row, a)
           kept == IF stored = NoRow THEN NoRow ELSE row
<1>1. a \in Artifact
  BY PayloadIsArtifact DEF StoreInv, BeginStore
<1>2. /\ storeTx' = [upload |-> u, payload |-> a, published |-> FALSE,
                     row |-> kept, stored |-> stored]
      /\ UNCHANGED <<artifactRows, artifactFiles, storedOk>>
  BY DEF BeginStore
<1>3. \/ row = NoRow /\ NoneExact(a)
      \/ /\ row \in artifactRows /\ row.debug = a.debug /\ row.kind = a.kind
         /\ row.arch = a.arch \/ (row.arch = NoArch /\ NoneExact(a))
  BY <1>1, SelectedRow DEF StoreInv
<1>4. a.arch # NoArch
  BY <1>1, ArtifactsAre
<1> HIDE DEF a, row
<1>5. CASE row = NoRow \/ OtherArch(row, a)
  <2>1. stored = NoRow /\ kept = NoRow
    BY <1>5 DEF Inspected
  <2>2. NoneExact(a)
    <3>1. CASE row = NoRow
      BY <1>3, <3>1, NoRowIsNoRow DEF StoreInv
    <3>2. CASE OtherArch(row, a)
      BY <1>3, <1>4, <3>2, NoRowIsNoRow DEF OtherArch, StoreInv, NoneExact
    <3> QED
      BY <1>5, <3>1, <3>2
  <2> QED
    BY <1>1, <1>2, <2>1, <2>2 DEF TxTrue, TxFields, NoneExact
<1>6. CASE ~(row = NoRow \/ OtherArch(row, a))
  <2>1. stored = Measured(row) /\ row \in artifactRows
    BY <1>3, <1>6 DEF Inspected
  <2>2. RowTrue(row)
    BY <2>1 DEF StoreInv
  <2>3. DOMAIN stored = RowFields /\ stored.debug = row.debug /\ stored.kind = row.kind
        /\ stored.path = row.path
    BY <2>1, <2>2 DEF Measured, RowTrue, RowFields
  <2>4. ASSUME row.path \notin artifactFiles  PROVE  ReadRow(row, stored, a)
    <3>1. stored.quality = Unknown
      BY <2>1, <2>2, <2>4 DEF Measured, RowTrue, RowFields
    <3>2. \A b \in storedOk : KeptWithout(row, b)
      BY <2>4 DEF StoreInv, BestKept, KeptWithout
    <3> QED
      BY <1>3, <1>6, <2>1, <2>3, <3>1, <3>2 DEF ReadRow
  <2>5. ASSUME row.path \in artifactFiles  PROVE  ReadRow(row, stored, a)
    <3>1. stored.quality = FileAt(row.path).quality /\ stored.hash = FileAt(row.path).hash
      BY <2>1, <2>2, <2>5 DEF Measured, RowTrue, RowFields
    <3>2. stored.quality # Unknown
      BY <2>2, <3>1, ArtifactsAre DEF RowTrue, Unknown
    <3>3. FileAt(row.path).arch = a.arch
      BY <1>3, <1>4, <1>6, <2>2, <2>5 DEF OtherArch, RowTrue
    <3> QED
      BY <1>3, <1>6, <2>1, <2>3, <2>5, <3>1, <3>2, <3>3 DEF ReadRow
  <2>6. ReadRow(row, stored, a)
    BY <2>4, <2>5
  <2>7. row # NoRow
    BY <2>2, NoRowIsNoRow
  <2>8. stored # NoRow
    <3>1. DOMAIN NoRow # DOMAIN stored
      BY <2>3 DEF NoRow, RowFields
    <3> QED
      BY <3>1
  <2> QED
    BY <1>1, <1>2, <2>6, <2>7, <2>8, BegunTx
<1> QED
  BY <1>5, <1>6

-----------------------------------------------------------------------------
\* The row a transaction writes.

\* One row replaced by a true one of its identity, or one added, that keeps what
\* the old one kept, leaves the store in order.
LEMMA RowReplaced ==
  ASSUME StoreInv, NEW a \in Artifact, NEW old, NEW new,
         old = NoRow \/ old \in artifactRows,
         artifactRows' = (artifactRows \ {old}) \cup {new},
         storedOk' = storedOk \cup {a},
         UNCHANGED <<artifactFiles, vanishedFiles>>,
         RowTrue(new), new.path \in artifactFiles,
         new.debug = a.debug, new.kind = a.kind, new.arch = a.arch,
         \A r \in artifactRows \ {old} :
           ~(r.debug = a.debug /\ r.kind = a.kind /\ r.arch = a.arch),
         Keeps(new, a),
         \A b \in storedOk : KeptWithout(old, b) \/ Keeps(new, b)
  PROVE  (\A r \in artifactRows' : RowTrue(r)) /\ RowsHaveFiles' /\ OneRowPerIdentity' /\ BestKept'
<1>1. \A r \in artifactRows' : RowTrue(r)
  BY DEF StoreInv
<1>2. RowsHaveFiles'
  BY DEF StoreInv, RowsHaveFiles
<1>3. OneRowPerIdentity'
  BY DEF StoreInv, OneRowPerIdentity
<1>4. BestKept'
  <2> SUFFICES ASSUME NEW b \in storedOk \cup {a}
               PROVE  b \in Artifact
                      /\ \E r \in artifactRows' : Keeps(r, b) /\ r.path \in artifactFiles
    BY DEF BestKept
  <2>1. CASE b = a
    BY <2>1
  <2>2. CASE b \in storedOk /\ Keeps(new, b)
    BY <2>2 DEF StoreInv, BestKept
  <2>3. CASE b \in storedOk /\ KeptWithout(old, b)
    BY <2>3 DEF StoreInv, BestKept, KeptWithout
  <2> QED
    BY <2>1, <2>2, <2>3
<1> QED
  BY <1>1, <1>2, <1>3, <1>4

\* What a row kept, it is kept without, or the row is the only one that does.
LEMMA KeptByOrWithout ==
  ASSUME StoreInv, NEW old, NEW b \in storedOk
  PROVE  KeptWithout(old, b) \/ (old \in artifactRows /\ Keeps(old, b))
BY DEF StoreInv, BestKept, KeptWithout

\* No other row has the identity of a payload whose row was read.
LEMMA NoOtherRow ==
  ASSUME StoreInv, NEW r, NEW stored, NEW a, ReadRow(r, stored, a)
  PROVE  \A s \in artifactRows \ {r} :
           ~(s.debug = a.debug /\ s.kind = a.kind /\ s.arch = a.arch)
BY DEF StoreInv, OneRowPerIdentity, ReadRow, NoneExact

LEMMA BetterKeepsMore ==
  ASSUME NEW a \in Artifact, NEW k \in Artifact, NEW b \in Artifact,
         k.quality > b.quality \/ (k.quality = b.quality /\ k.hash <= b.hash),
         ~(k.quality > a.quality \/ (k.quality = a.quality /\ k.hash <= a.hash))
  PROVE  a.quality > b.quality \/ (a.quality = b.quality /\ a.hash <= b.hash)
BY ArtifactsAre

LEMMA CommitRowInv ==
  ASSUME StoreInv, NEW u \in Upload, CommitRow(u)
  PROVE  StoreInv'
<1> DEFINE a == storeTx.payload
           old == storeTx.row
           stored == storeTx.stored
           new == Row(a, ObjectPath(a))
<1>1. /\ a \in Artifact /\ ObjectPath(a) \in artifactFiles
      /\ ~Wins(stored, a)
      /\ old = NoRow => stored = NoRow /\ NoneExact(a)
      /\ old # NoRow => ReadRow(old, stored, a)
  BY DEF StoreInv, TxTrue, CommitRow
<1>2. /\ artifactRows' = (artifactRows \ {old}) \cup {new}
      /\ storedOk' = storedOk \cup {a} /\ storeTx' = NoTx
      /\ request' = [request EXCEPT ![u] = AfterStore(u, a)]
      /\ UNCHANGED <<artifactFiles, vanishedFiles>>
  BY DEF CommitRow
<1>3. /\ RowTrue(new) /\ new.path = ObjectPath(a) /\ FileAt(ObjectPath(a)) = a
      /\ new.debug = a.debug /\ new.kind = a.kind /\ new.arch = a.arch
  BY <1>1, NewRowIsTrue DEF Row
<1> HIDE DEF a, old, stored, new
<1>4. old = NoRow \/ old \in artifactRows
  BY <1>1 DEF ReadRow
<1>5. \A r \in artifactRows \ {old} :
        ~(r.debug = a.debug /\ r.kind = a.kind /\ r.arch = a.arch)
  BY <1>1, NoOtherRow DEF NoneExact
<1>6. Keeps(new, a)
  BY <1>1, <1>3, ArtifactsAre DEF Keeps
<1>7. ASSUME NEW b \in storedOk  PROVE  KeptWithout(old, b) \/ Keeps(new, b)
  <2>1. CASE old = NoRow
    BY <2>1, KeptByOrWithout, NoRowIsNoRow DEF StoreInv
  <2>2. CASE old # NoRow /\ stored.quality = Unknown
    BY <1>1, <2>2 DEF ReadRow
  <2>3. CASE old # NoRow /\ stored.quality # Unknown
    <3>1. ReadRow(old, stored, a)
      BY <1>1, <2>3
    <3>2. SUFFICES ASSUME Keeps(old, b)  PROVE  Keeps(new, b)
      BY KeptByOrWithout
    <3> DEFINE k == FileAt(old.path)
    <3>3. /\ stored.quality = k.quality /\ stored.hash = k.hash /\ k.arch = a.arch
          /\ old.debug = a.debug /\ old.kind = a.kind
      BY <2>3, <3>1 DEF ReadRow
    <3>4. stored # NoRow
      <4>1. DOMAIN stored = RowFields
        BY <3>1 DEF ReadRow
      <4> QED
        BY <4>1 DEF NoRow, RowFields
    <3>5. ~(k.quality > a.quality \/ (k.quality = a.quality /\ k.hash <= a.hash))
      BY <1>1, <2>3, <3>3, <3>4 DEF Wins
    <3>6. /\ old.debug = b.debug /\ old.kind = b.kind /\ k.arch = b.arch
          /\ k.quality > b.quality \/ (k.quality = b.quality /\ k.hash <= b.hash)
      BY <3>2 DEF Keeps
    <3>7. k \in Artifact /\ b \in Artifact
      BY <3>1 DEF ReadRow, StoreInv, RowTrue, BestKept
    <3> HIDE DEF k
    <3>8. a.quality > b.quality \/ (a.quality = b.quality /\ a.hash <= b.hash)
      BY <1>1, <3>5, <3>6, <3>7, BetterKeepsMore
    <3> QED
      BY <1>3, <3>3, <3>6, <3>8 DEF Keeps
  <2> QED
    BY <2>1, <2>2, <2>3
<1>8. (\A r \in artifactRows' : RowTrue(r)) /\ RowsHaveFiles' /\ OneRowPerIdentity' /\ BestKept'
  BY <1>1, <1>2, <1>3, <1>4, <1>5, <1>6, <1>7, RowReplaced
<1>9. TxTrue'
  BY <1>2 DEF TxTrue
<1>10. RequestsTrue'
  BY <1>2, StoredRequest DEF StoreInv
<1> QED
  BY <1>8, <1>9, <1>10 DEF StoreInv

LEMMA KeepStoredInv ==
  ASSUME StoreInv, NEW u \in Upload, KeepStored(u)
  PROVE  StoreInv'
<1> DEFINE a == storeTx.payload
           old == storeTx.row
           stored == storeTx.stored
           new == [stored EXCEPT !.arch = a.arch]
           k == FileAt(old.path)
<1>1. /\ a \in Artifact /\ Wins(stored, a)
      /\ old = NoRow => stored = NoRow
      /\ old # NoRow => ReadRow(old, stored, a)
  BY DEF StoreInv, TxTrue, KeepStored
<1>2. /\ artifactRows' = (artifactRows \ {old}) \cup {new}
      /\ storedOk' = storedOk \cup {a} /\ storeTx' = NoTx
      /\ request' = [request EXCEPT ![u] = AfterStore(u, a)]
      /\ UNCHANGED <<artifactFiles, vanishedFiles>>
  BY DEF KeepStored
<1> HIDE DEF a, old, stored
<1>3. old # NoRow /\ ReadRow(old, stored, a) /\ stored.quality # Unknown
  BY <1>1 DEF Wins
<1>4. /\ k.arch = a.arch /\ old.path \in artifactFiles
      /\ stored.quality = k.quality /\ stored.hash = k.hash
      /\ old \in artifactRows /\ old.debug = a.debug /\ old.kind = a.kind
  BY <1>3 DEF ReadRow
<1>5. RowTrue(old)
  BY <1>4 DEF StoreInv
<1>6. /\ DOMAIN new = RowFields /\ new.path = old.path /\ new.arch = a.arch
      /\ new.debug = a.debug /\ new.kind = a.kind
  BY <1>3, <1>4 DEF ReadRow, RowFields
<1> HIDE DEF new
<1>7. RowTrue(new)
  BY <1>4, <1>5, <1>6 DEF RowTrue
<1>8. k.quality > a.quality \/ (k.quality = a.quality /\ k.hash <= a.hash)
  BY <1>1, <1>4 DEF Wins
<1>9. Keeps(new, a)
  BY <1>4, <1>6, <1>8 DEF Keeps
<1>10. \A r \in artifactRows \ {old} :
         ~(r.debug = a.debug /\ r.kind = a.kind /\ r.arch = a.arch)
  BY <1>3, NoOtherRow
<1>11. ASSUME NEW b \in storedOk  PROVE  KeptWithout(old, b) \/ Keeps(new, b)
  <2>1. SUFFICES ASSUME Keeps(old, b)  PROVE  Keeps(new, b)
    BY KeptByOrWithout
  <2> QED
    BY <1>4, <1>6, <2>1 DEF Keeps
<1>12. (\A r \in artifactRows' : RowTrue(r)) /\ RowsHaveFiles' /\ OneRowPerIdentity' /\ BestKept'
  BY <1>1, <1>2, <1>4, <1>6, <1>7, <1>9, <1>10, <1>11, RowReplaced
<1>13. TxTrue'
  BY <1>2 DEF TxTrue
<1>14. RequestsTrue'
  BY <1>2, StoredRequest DEF StoreInv
<1> QED
  BY <1>12, <1>13, <1>14 DEF StoreInv

-----------------------------------------------------------------------------
\* The other steps.

LEMMA BeginStoreInv ==
  ASSUME StoreInv, NEW u \in Upload, BeginStore(u)
  PROVE  StoreInv'
<1>1. UNCHANGED <<artifactRows, artifactFiles, request, storedOk, vanishedFiles>>
  BY DEF BeginStore
<1>2. TxTrue'
  BY BeginStoreTx
<1> QED
  BY <1>1, <1>2 DEF StoreInv, RowsHaveFiles, OneRowPerIdentity, BestKept, RequestsTrue, CurrentItem

LEMMA PublishFileInv ==
  ASSUME StoreInv, NEW u \in Upload, PublishFile(u)
  PROVE  StoreInv'
<1>1. /\ storeTx # NoTx /\ ~Wins(storeTx.stored, storeTx.payload)
      /\ artifactFiles' = artifactFiles \cup {ObjectPath(storeTx.payload)}
      /\ vanishedFiles' = vanishedFiles \ {ObjectPath(storeTx.payload)}
      /\ storeTx' = [storeTx EXCEPT !.published = TRUE]
      /\ UNCHANGED <<artifactRows, request, storedOk>>
  BY DEF PublishFile
<1>2. RowsHaveFiles'
  BY <1>1 DEF StoreInv, RowsHaveFiles
<1>3. BestKept'
  BY <1>1 DEF StoreInv, BestKept
<1>4. /\ DOMAIN storeTx' = TxFields /\ storeTx'.payload = storeTx.payload
      /\ storeTx'.row = storeTx.row /\ storeTx'.stored = storeTx.stored
  BY <1>1 DEF StoreInv, TxTrue, TxFields
<1>5. ASSUME NEW r, NEW stored, NEW a, ReadRow(r, stored, a)
      PROVE  ReadRow(r, stored, a)'
  BY <1>1, <1>5 DEF ReadRow, NoneExact, KeptWithout
<1>6. TxTrue'
  <2>1. storeTx'.row # NoRow => ReadRow(storeTx.row, storeTx.stored, storeTx.payload)
    BY <1>1, <1>4 DEF StoreInv, TxTrue
  <2>2. storeTx'.row # NoRow => ReadRow(storeTx.row, storeTx.stored, storeTx.payload)
                               /\ ReadRow(storeTx'.row, storeTx'.stored, storeTx'.payload)
    BY <2>1, <1>4
  <2> QED
    BY <1>1, <1>4, <2>2 DEF StoreInv, TxTrue, NoneExact, ReadRow, KeptWithout
<1> QED
  BY <1>1, <1>2, <1>3, <1>6 DEF StoreInv, OneRowPerIdentity, RequestsTrue, CurrentItem

\* Steps that leave the store alone, or roll its transaction back.
LEMMA NothingStored ==
  ASSUME StoreInv, RequestsTrue', storeTx' \in {storeTx, NoTx},
         UNCHANGED <<artifactRows, artifactFiles, storedOk, vanishedFiles>>
  PROVE  StoreInv'
<1>1. CASE storeTx' = NoTx
  BY <1>1 DEF StoreInv, RowsHaveFiles, OneRowPerIdentity, BestKept, TxTrue
<1>2. CASE storeTx' = storeTx
  BY <1>2 DEF StoreInv, RowsHaveFiles, OneRowPerIdentity, BestKept, TxTrue,
              ReadRow, NoneExact, KeptWithout
<1> QED
  BY <1>1, <1>2

LEMMA StoreFailsInv ==
  ASSUME StoreInv, NEW u \in Upload, StoreFails(u)
  PROVE  StoreInv'
<1>1. RequestsTrue'
  BY FailedRequest DEF StoreInv, StoreFails
<1> QED
  BY <1>1, NothingStored DEF StoreFails

LEMMA StoreCrashInv ==
  ASSUME StoreInv, StoreCrash
  PROVE  StoreInv'
<1>1. DOMAIN NewRequest = RequestFields /\ NewRequest.part = "object"
  BY DEF NewRequest, RequestFields
<1>2. RequestsTrue'
  BY <1>1 DEF StoreInv, StoreCrash, RequestsTrue, CurrentItem
<1> QED
  BY <1>2, NothingStored DEF StoreCrash

\* A request converts, is refused, reports or answers.
LEMMA RequestStepInv ==
  ASSUME StoreInv, NEW u \in Upload,
         ConvertUpload(u) \/ AssembleFails(u) \/ ReportRejected(u) \/ Answer(u)
  PROVE  StoreInv'
<1>1. UNCHANGED <<artifactRows, artifactFiles, storeTx, storedOk, vanishedFiles>>
  BY DEF ConvertUpload, AssembleFails, ReportRejected, Answer
<1> DEFINE r == request[u]
<1>2. DOMAIN r = RequestFields /\ (r.part = "cfi" => Converted[u][r.item].cfi # NoArtifact)
  BY DEF StoreInv, RequestsTrue, CurrentItem
<1>3. ASSUME NEW v, request' = [request EXCEPT ![u] = [r EXCEPT !.step = v]]
      PROVE  RequestsTrue'
  <2>1. /\ DOMAIN [r EXCEPT !.step = v] = RequestFields
        /\ [r EXCEPT !.step = v].part = r.part /\ [r EXCEPT !.step = v].item = r.item
    BY <1>2 DEF RequestFields
  <2> QED
    BY <1>2, <1>3, <2>1, RequestGoesOn DEF StoreInv
<1>4. CASE ConvertUpload(u)
  <2>1. PICK v : request' = [request EXCEPT ![u] = [r EXCEPT !.step = v]]
    BY <1>4 DEF ConvertUpload
  <2> QED
    BY <1>1, <1>3, <2>1, NothingStored
<1>5. CASE AssembleFails(u)
  <2>1. request' = [request EXCEPT ![u] = [r EXCEPT !.step = "failed"]]
    BY <1>5 DEF AssembleFails
  <2> QED
    BY <1>1, <1>3, <2>1, NothingStored
<1>6. CASE ReportRejected(u)
  <2> DEFINE q == [r EXCEPT !.errors = @ \cup {r.item}, !.part = "object", !.item = @ + 1]
  <2>1. request' = [request EXCEPT ![u] = q]
    BY <1>6 DEF ReportRejected
  <2>2. DOMAIN q = RequestFields /\ q.part = "object"
    BY <1>2 DEF RequestFields
  <2>3. RequestsTrue'
    BY <2>1, <2>2, RequestGoesOn DEF StoreInv
  <2> QED
    BY <1>1, <2>3, NothingStored
<1>7. CASE Answer(u)
  <2> DEFINE q(p) == [r EXCEPT !.step = "answered", !.primary = p]
  <2>1. PICK p : request' = [request EXCEPT ![u] = q(p)]
    BY <1>7 DEF Answer
  <2>2. DOMAIN q(p) = RequestFields /\ q(p).part = r.part /\ q(p).item = r.item
    BY <1>2 DEF RequestFields
  <2>3. RequestsTrue'
    BY <1>2, <2>1, <2>2, RequestGoesOn DEF StoreInv
  <2> QED
    BY <1>1, <2>3, NothingStored
<1> QED
  BY <1>4, <1>5, <1>6, <1>7

\* A lost file takes with it what its rows kept, and nothing else.
LEMMA CanonicalVanishesInv ==
  ASSUME StoreInv, NEW r \in artifactRows, CanonicalVanishes(r)
  PROVE  StoreInv'
<1>1. /\ storeTx = NoTx
      /\ artifactFiles' = artifactFiles \ {r.path}
      /\ vanishedFiles' = vanishedFiles \cup {r.path}
      /\ storedOk' = {a \in storedOk : \/ a.debug # r.debug
                                       \/ a.kind # r.kind
                                       \/ a.arch # FileAt(r.path).arch}
      /\ UNCHANGED <<artifactRows, storeTx, request>>
  BY DEF CanonicalVanishes
<1>2. RowsHaveFiles'
  BY <1>1 DEF StoreInv, RowsHaveFiles
<1>3. BestKept'
  <2> SUFFICES ASSUME NEW b \in storedOk'
               PROVE  b \in Artifact
                      /\ \E s \in artifactRows : Keeps(s, b) /\ s.path \in artifactFiles'
    BY <1>1 DEF BestKept
  <2>1. b \in storedOk
    BY <1>1
  <2>2. PICK s \in artifactRows : Keeps(s, b) /\ s.path \in artifactFiles
    BY <2>1 DEF StoreInv, BestKept
  <2>3. /\ s.debug = b.debug /\ s.kind = b.kind /\ FileAt(s.path).arch = b.arch
        /\ s.debug = FileAt(s.path).debug /\ s.kind = FileAt(s.path).kind
        /\ r.debug = FileAt(r.path).debug /\ r.kind = FileAt(r.path).kind
    BY <2>2 DEF StoreInv, RowTrue, Keeps
  <2>4. s.path # r.path
    BY <1>1, <2>3
  <2> QED
    BY <1>1, <2>1, <2>2, <2>4 DEF StoreInv, BestKept
<1>4. TxTrue'
  BY <1>1 DEF TxTrue
<1> QED
  BY <1>1, <1>2, <1>3, <1>4 DEF StoreInv, OneRowPerIdentity, RequestsTrue, CurrentItem

-----------------------------------------------------------------------------
\* The invariant.

LEMMA StoreInitInv == ArtifactInit => StoreInv
<1> SUFFICES ASSUME ArtifactInit  PROVE  StoreInv
  OBVIOUS
<1>1. /\ artifactRows = {LegacyRow(a) : a \in Legacy}
      /\ artifactFiles = {LegacyPath(a) : a \in Legacy}
      /\ storedOk = Legacy /\ storeTx = NoTx
      /\ request = [u \in Upload |-> NewRequest]
  BY DEF ArtifactInit
<1>2. NoArtifact \notin Legacy
  BY ArtifactAssumption DEF ArtifactAssumption
<1>3. Legacy \subseteq Artifact
  BY <1>2 DEF Artifact
<1>4. \A a \in Legacy :
        /\ RowTrue(LegacyRow(a)) /\ LegacyRow(a).path = LegacyPath(a)
        /\ LegacyRow(a).debug = a.debug /\ LegacyRow(a).kind = a.kind
        /\ LegacyRow(a).arch = NoArch /\ FileAt(LegacyPath(a)) = a
  BY <1>3 DEF RowTrue, RowFields, LegacyRow, LegacyPath, FileAt
<1>5. RowsHaveFiles
  BY <1>1, <1>4 DEF RowsHaveFiles
<1>6. OneRowPerIdentity
  BY <1>1, <1>4, ArtifactAssumption DEF OneRowPerIdentity, ArtifactAssumption
<1>7. BestKept
  BY <1>1, <1>3, <1>4, ArtifactsAre DEF BestKept, Keeps
<1>8. RequestsTrue
  BY <1>1 DEF RequestsTrue, NewRequest, RequestFields, CurrentItem
<1> QED
  BY <1>1, <1>4, <1>5, <1>6, <1>7, <1>8 DEF StoreInv, TxTrue

\* Every step keeps the invariant.
THEOREM StoreInvariant == ArtifactSpec => []StoreInv
<1>1. StoreInv /\ ArtifactNext => StoreInv'
  BY RequestStepInv, BeginStoreInv, KeepStoredInv, PublishFileInv, CommitRowInv,
     StoreFailsInv, StoreCrashInv, CanonicalVanishesInv DEF ArtifactNext
<1>2. StoreInv /\ UNCHANGED artifactVars => StoreInv'
  <2> SUFFICES ASSUME StoreInv, UNCHANGED artifactVars  PROVE  StoreInv'
    OBVIOUS
  <2>1. RequestsTrue'
    BY DEF artifactVars, StoreInv, RequestsTrue, CurrentItem
  <2> QED
    BY <2>1, NothingStored DEF artifactVars
<1> QED
  BY <1>1, <1>2, StoreInitInv, PTL DEF ArtifactSpec

\* store_artifact (util/artifact_store.rs) publishes a file before the row that
\* names it, also when a statement fails or the process dies in between.
THEOREM RowsKeepFiles == ArtifactSpec => []RowsHaveFiles
<1>1. StoreInv => RowsHaveFiles
  BY DEF StoreInv
<1> QED
  BY <1>1, StoreInvariant, PTL

\* However uploads of one identity and older rows of no architecture compete, the
\* table's unique index is never violated (util/artifact_store.rs).
THEOREM IdentitiesAreUnique == ArtifactSpec => []OneRowPerIdentity
<1>1. StoreInv => OneRowPerIdentity
  BY DEF StoreInv
<1> QED
  BY <1>1, StoreInvariant, PTL

\* Whatever the order of uploads, failures and repairs, an identity's row names
\* the best payload stored for it (util/artifact_store.rs).
THEOREM BestStaysSelected == ArtifactSpec => []BestSelected
<1>1. StoreInv => BestSelected
  BY DEF StoreInv, BestKept, Keeps, BestSelected
<1> QED
  BY <1>1, StoreInvariant, PTL

\* Every row has its file and no identity two rows, through concurrent uploads,
\* failures and repairs: store_artifact (util/artifact_store.rs).
THEOREM RowsStaySound == ArtifactSpec => []RowsSound
<1>1. RowsHaveFiles /\ OneRowPerIdentity => RowsSound
  BY DEF RowsSound
<1> QED
  BY <1>1, RowsKeepFiles, IdentitiesAreUnique, PTL

-----------------------------------------------------------------------------
\* ArtifactStore: what the conversions return.

LEMMA ItemsAre ==
  ASSUME NEW u \in Upload
  PROVE  Len(Converted[u]) \in Nat /\ DOMAIN Converted[u] = 1..Len(Converted[u])
<1>1. PICK items : items = Converted[u]
  OBVIOUS
<1>2. items \in Seq(ToSet(items))
  BY <1>1, ArtifactAssumption DEF ArtifactAssumption
<1>3. Len(items) \in Nat /\ DOMAIN items = 1..Len(items)
  BY ONLY <1>2
<1> QED BY <1>1, <1>3

LEMMA ObjectIsArtifact ==
  ASSUME NEW u \in Upload, NEW i \in DOMAIN Converted[u], Converted[u][i].outcome = "ok"
  PROVE  Converted[u][i].object \in Artifact
<1>1. Converted[u][i].object # NoArtifact
  BY ArtifactAssumption DEF ArtifactAssumption
<1> QED BY <1>1 DEF Artifact

\* An object that was processed for an assembly has the identifier its request
\* names as soon as it has that one's GUID, and its unwind tables have the same.
Named(item, hint) ==
  /\ item.outcome = "ok"
  /\ item.cfi = NoArtifact \/ item.cfi.debug = item.object.debug
  /\ item.object.debug[1] = hint[1] => item.object.debug = hint \/ hint = NoHint

LEMMA ProcessedIsNamed ==
  ASSUME NEW o, NEW hint, ProcessObject(o, hint).outcome = "ok"
  PROVE  Named(ProcessObject(o, hint), hint)
<1>1. PICK id : id = EffectiveDebugId(o, hint)
  OBVIOUS
<1>2. id[1] = hint[1] => id = hint \/ hint = NoHint
  BY <1>1 DEF EffectiveDebugId
<1>3. Native(o, id).outcome = "ok" /\ Native(o, id).object.debug = id
      /\ (Native(o, id).cfi = NoArtifact \/ Native(o, id).cfi.debug = id)
  BY DEF Native, NativeArtifact, CfiArtifact
<1>4. PICK bundle : bundle = [outcome |-> "ok", object |-> SourceBundle(o, id), cfi |-> NoArtifact]
  OBVIOUS
<1>5. bundle.outcome = "ok" /\ bundle.object.debug = id /\ bundle.cfi = NoArtifact
  BY <1>4 DEF SourceBundle
<1>6. PICK n : n = Native(o, id)
  OBVIOUS
<1>7. Named(n, hint) /\ Named(bundle, hint)
  BY <1>2, <1>3, <1>5, <1>6 DEF Named
<1>8. Skipped.outcome # "ok"
  BY DEF Skipped
<1>9. ProcessObject(o, hint) \in {bundle, n, Skipped}
  BY <1>1, <1>4, <1>6 DEF ProcessObject
<1> QED BY <1>7, <1>8, <1>9

LEMMA ObjectsAreNamed ==
  ASSUME NEW objects, NEW S, objects \in Seq(S), NEW hint,
         NEW i \in DOMAIN ProcessObjects(objects, hint)
  PROVE  Named(ProcessObjects(objects, hint)[i], hint)
<1>1. PICK items : items = [j \in DOMAIN objects |-> ProcessObject(objects[j], hint)]
  OBVIOUS
<1>2. PICK P : P = {j \in DOMAIN items : items[j].outcome = "ok"}
  OBVIOUS
<1>3. PICK picked : picked = Picked(items, P)
  OBVIOUS
<1>4. ProcessObjects(objects, hint) = picked
  BY <1>1, <1>2, <1>3 DEF ProcessObjects
<1>5. DOMAIN objects = 1..Len(objects) /\ Len(objects) \in Nat
  OBVIOUS
<1>6. PICK n : n = Len(objects)
  OBVIOUS
<1>7. n \in Nat /\ P \in SUBSET (1..n)
  BY <1>1, <1>2, <1>5, <1>6
<1>8. PICK m : m = Cardinality(P)
  OBVIOUS
<1>9. \E at : PickedFrom(items, P, m, at)
  BY <1>7, <1>8, PickedAre
<1>10. PICK at : at \in [1..m -> P] /\ picked = [k \in 1..m |-> items[at[k]]]
  BY <1>3, <1>9 DEF PickedFrom
<1>11. i \in 1..m /\ picked[i] = items[at[i]] /\ at[i] \in P
  BY <1>4, <1>10
<1>12. PICK j : j = at[i] /\ j \in DOMAIN objects /\ items[j].outcome = "ok"
  BY <1>1, <1>2, <1>11
<1>13. items[j] = ProcessObject(objects[j], hint)
  BY <1>1, <1>12
<1>14. Named(items[j], hint)
  BY <1>12, <1>13, ProcessedIsNamed
<1> QED BY <1>4, <1>11, <1>12, <1>14

LEMMA MapIsNamed ==
  ASSUME NEW f, NEW hint, NEW i \in DOMAIN DartMapItems(f, hint)
  PROVE  Named(DartMapItems(f, hint)[i], hint)
<1>1. PICK map : map = [outcome |-> "ok", cfi |-> NoArtifact,
                        object |-> [debug |-> hint, kind |-> "dart_symbol_map", arch |-> "any",
                                    quality |-> 0, hash |-> f.hash]]
  OBVIOUS
<1>2. map.outcome = "ok" /\ map.cfi = NoArtifact /\ map.object.debug = hint
  BY <1>1
<1>3. DartMapItems(f, hint) = <<>> \/ DartMapItems(f, hint) = <<map>>
  BY <1>1 DEF DartMapItems
<1>4. DartMapItems(f, hint)[i] = map
  BY <1>3
<1> QED BY <1>2, <1>4 DEF Named

\* What an assembly stores has the identifier it names, or another GUID.
LEMMA AssembledAreNamed ==
  ASSUME NEW u \in Upload, Route[u] = "assemble", NEW i \in DOMAIN Converted[u]
  PROVE  /\ Converted[u][i].cfi = NoArtifact
              \/ Converted[u][i].cfi.debug = Converted[u][i].object.debug
         /\ Converted[u][i].object.debug[1] = Hint[u][1] =>
              Converted[u][i].object.debug = Hint[u] /\ Hint[u] # NoHint
<1>1. PICK f, hint, item : f = UploadFile[u] /\ hint = Hint[u] /\ item = Converted[u][i]
  OBVIOUS
<1>2. Converted[u] = AssembledItems(f, hint)
  BY <1>1 DEF Converted
<1>3. Named(item, hint)
  <2>1. CASE f.is = "map"
    <3>1. Converted[u] = DartMapItems(f, hint)
      BY <1>2, <2>1 DEF AssembledItems
    <3> QED BY <1>1, <3>1, MapIsNamed
  <2>2. CASE f.is = "objects"
    <3>1. Converted[u] = ProcessObjects(f.objects, hint)
      BY <1>2, <2>2 DEF AssembledItems
    <3>2. f.objects \in Seq(ToSet(f.objects))
      BY <1>1, <2>2, ArtifactAssumption DEF ArtifactAssumption
    <3> QED BY <1>1, <3>1, <3>2, ObjectsAreNamed
  <2>3. CASE f.is # "map" /\ f.is # "objects"
    <3>1. Converted[u] = <<>>
      BY <1>2, <2>3 DEF AssembledItems
    <3> QED BY <3>1
  <2> QED BY <2>1, <2>2, <2>3
<1>4. item.object \in Artifact
  BY <1>1, <1>3, ObjectIsArtifact DEF Named
<1>5. item.object.debug[1] # NoHint[1]
  BY <1>4, ArtifactAssumption DEF ArtifactAssumption
<1> QED BY <1>1, <1>3, <1>5 DEF Named

\* An answer describes the object that was asked for, if there is one.
LEMMA PrimaryIsAsked ==
  ASSUME NEW u \in Upload, NEW i \in DOMAIN Converted[u], Hint[u] # NoHint,
         Converted[u][i].object.debug = Hint[u]
  PROVE  Converted[u][Primary(Converted[u], Hint[u])].object.debug = Hint[u]
<1>1. PICK items, hint : items = Converted[u] /\ hint = Hint[u]
  OBVIOUS
<1>2. PICK asked : asked = {j \in DOMAIN items : hint # NoHint /\ items[j].object.debug = hint}
  OBVIOUS
<1>3. asked \subseteq Nat /\ asked # {}
  BY <1>1, <1>2, ItemsAre
<1>4. \E n \in asked : \A m \in asked : n <= m
  BY <1>3, LeastNumber
<1>5. PICK n : n = CHOOSE k \in asked : \A m \in asked : k <= m
  OBVIOUS
<1>6. n \in asked
  BY ONLY <1>4, <1>5
<1>7. Primary(items, hint) = n
  BY <1>2, <1>3, <1>5 DEF Primary
<1> QED BY <1>1, <1>2, <1>6, <1>7

-----------------------------------------------------------------------------
\* ArtifactStore: what answers say, the inductive invariant.

\* An artifact that was reported: its row stays, because only a row without an
\* architecture, or one of the same identity, is ever replaced.
HasRow(id) ==
  id[2] # NoArch /\ \E r \in artifactRows : <<r.debug, r.arch, r.kind>> = id

\* What an assembly reports is one of its objects, or the unwind tables of one.
OfAnObject(u, id, uploaded) ==
  \E i \in uploaded : id[1] = Converted[u][i].object.debug

\* The items before the current one are reported, each once, and so is the
\* current one while its unwind tables are on their way.
Reporting(u, r) ==
  /\ r.item \in 1..(Len(Converted[u]) + 1)
  /\ r.part \in {"object", "cfi"}
  /\ r.uploaded \cap r.errors = {}
  /\ r.part = "object" => r.uploaded \cup r.errors = 1..(r.item - 1)
  /\ r.part = "cfi" => /\ r.item \in r.uploaded /\ r.uploaded \cup r.errors = 1..r.item
                       /\ r.item <= Len(Converted[u]) /\ Converted[u][r.item].outcome = "ok"
  /\ Route[u] = "assemble" => \A id \in r.artifacts : OfAnObject(u, id, r.uploaded)
  /\ r.step = "answered" =>
       /\ r.item = Len(Converted[u]) + 1
       /\ Route[u] = "assemble" =>
            r.primary = Converted[u][Primary(Converted[u], Hint[u])].object.debug

ArtifactsHaveRows == \A u \in Upload : \A id \in request[u].artifacts : HasRow(id)

\* The transaction stores the part its request is at.
TxOwned ==
  storeTx # NoTx => /\ storeTx.upload \in Upload
                    /\ Storable(storeTx.upload)
                    /\ storeTx.payload = Payload(storeTx.upload)

ReportInv ==
  /\ \A u \in Upload : Reporting(u, request[u])
  /\ ArtifactsHaveRows
  /\ TxOwned

-----------------------------------------------------------------------------
\* One request goes on, and no row that was reported is lost.

RowsStay == \A id : HasRow(id) => HasRow(id)'

LEMMA ReportChange ==
  ASSUME RequestsTrue, ReportInv, NEW u \in Upload, NEW p,
         request' = [request EXCEPT ![u] = p], Reporting(u, p),
         RowsStay, \A id \in p.artifacts : HasRow(id)', TxOwned'
  PROVE  ReportInv'
<1>1. request'[u] = p /\ \A v \in Upload \ {u} : request'[v] = request[v]
  BY DEF RequestsTrue
<1>2. \A v \in Upload : Reporting(v, request'[v])
  BY <1>1 DEF ReportInv
<1>3. ArtifactsHaveRows'
  BY <1>1 DEF ReportInv, ArtifactsHaveRows, RowsStay
<1> QED BY <1>2, <1>3 DEF ReportInv

LEMMA RowsUnchanged ==
  ASSUME UNCHANGED artifactRows
  PROVE  RowsStay
  BY DEF RowsStay, HasRow

\* A transaction goes on while its own request waits for it.
LEMMA TxKept ==
  ASSUME RequestsTrue, TxOwned, NEW u \in Upload, NEW p,
         request' = [request EXCEPT ![u] = p], storeTx' \in {storeTx, NoTx},
         storeTx' # NoTx => storeTx.upload # u
  PROVE  TxOwned'
<1>1. SUFFICES ASSUME storeTx' # NoTx PROVE TxOwned'
  BY DEF TxOwned
<1>2. storeTx' = storeTx /\ storeTx.upload # u
  BY <1>1
<1>3. PICK v : v = storeTx.upload
  OBVIOUS
<1>4. v \in Upload /\ Storable(v) /\ storeTx.payload = Payload(v)
  BY <1>1, <1>2, <1>3 DEF TxOwned
<1>5. request'[v] = request[v]
  BY <1>2, <1>3, <1>4 DEF RequestsTrue
<1>6. Storable(v)' /\ Payload(v)' = Payload(v)
  BY <1>4, <1>5 DEF Storable, Payload, CurrentItem
<1> QED BY <1>1, <1>2, <1>3, <1>4, <1>6 DEF TxOwned

\* Whose request cannot be stored owns no transaction.
LEMMA NotOwner ==
  ASSUME TxOwned, NEW u \in Upload, ~Storable(u)
  PROVE  storeTx # NoTx => storeTx.upload # u
  BY DEF TxOwned

\* From a part that was dealt with to the next.
LEMMA NextReporting ==
  ASSUME NEW u \in Upload, NEW r, DOMAIN r = RequestFields, r.item = request[u].item,
         r.item \in 1..Len(Converted[u]), Converted[u][r.item].outcome = "ok",
         r.part \in {"object", "cfi"}, r.step # "answered",
         r.uploaded \cap r.errors = {}, r.item \in r.uploaded,
         r.uploaded \cup r.errors = 1..r.item,
         Route[u] = "assemble" => \A id \in r.artifacts : OfAnObject(u, id, r.uploaded)
  PROVE  Reporting(u, NextPart(u, r)) /\ NextPart(u, r).artifacts = r.artifacts
<1>1. Len(Converted[u]) \in Nat
  BY ItemsAre
<1>2. PICK n, i : n = Len(Converted[u]) /\ i = r.item
  OBVIOUS
<1>3. n \in Nat /\ i \in 1..n
  BY <1>1, <1>2
<1>4. /\ i \in 1..(n + 1) /\ i <= n /\ i + 1 \in 1..(n + 1) /\ (i + 1) - 1 = i
  BY ONLY <1>3
<1>5. PICK p : p = NextPart(u, r)
  OBVIOUS
<1>6. /\ p.uploaded = r.uploaded /\ p.errors = r.errors /\ p.artifacts = r.artifacts
      /\ p.step = r.step
      /\ \/ p.part = "cfi" /\ p.item = i
         \/ p.part = "object" /\ p.item = i + 1
  <2>1. CASE p = [r EXCEPT !.part = "cfi"]
    BY <1>2, <2>1 DEF RequestFields
  <2>2. CASE p = [r EXCEPT !.part = "object", !.item = r.item + 1]
    BY <1>2, <2>2 DEF RequestFields
  <2> QED BY <1>5, <2>1, <2>2 DEF NextPart
<1>7. Reporting(u, p)
  <2>1. CASE p.part = "cfi" /\ p.item = i
    BY <1>2, <1>4, <1>6, <2>1 DEF Reporting
  <2>2. CASE p.part = "object" /\ p.item = i + 1
    BY <1>2, <1>4, <1>6, <2>2 DEF Reporting
  <2> QED BY <1>6, <2>1, <2>2
<1> QED BY <1>5, <1>6, <1>7

\* A part was stored.
LEMMA StoredReporting ==
  ASSUME RequestsTrue, ReportInv, NEW u \in Upload, Storable(u), NEW a, a = Payload(u)
  PROVE  /\ Reporting(u, AfterStore(u, a))
         /\ AfterStore(u, a).artifacts
              = request[u].artifacts \cup {<<a.debug, a.arch, a.kind>>}
<1>1. PICK q, i, new, up :
        /\ q = request[u] /\ i = q.item /\ new = <<a.debug, a.arch, a.kind>>
        /\ up = IF q.part = "object" THEN q.uploaded \cup {i} ELSE q.uploaded
  OBVIOUS
<1>2. PICK r : r = [q EXCEPT !.artifacts = q.artifacts \cup {new}, !.uploaded = up]
  OBVIOUS
<1>3. AfterStore(u, a) = NextPart(u, r)
  BY <1>1, <1>2 DEF AfterStore
<1>4. DOMAIN q = RequestFields /\ Reporting(u, q)
  BY <1>1 DEF RequestsTrue, ReportInv
<1>5. /\ DOMAIN r = RequestFields /\ r.item = i /\ r.part = q.part /\ r.step = q.step
      /\ r.errors = q.errors /\ r.uploaded = up /\ r.artifacts = q.artifacts \cup {new}
  BY <1>1, <1>2, <1>4 DEF RequestFields
<1>6. i \in 1..Len(Converted[u]) /\ q.step = "storing" /\ Converted[u][i].outcome = "ok"
  BY <1>1, ItemsAre DEF Storable, CurrentItem
<1>7. PICK n : n = Len(Converted[u])
  OBVIOUS
<1>8. n \in Nat /\ i \in 1..n
  BY <1>6, <1>7, ItemsAre
<1>9. /\ up \cap q.errors = {} /\ i \in up /\ up \cup q.errors = 1..i /\ q.uploaded \subseteq up
  <2>1. CASE q.part = "object"
    <3>1. q.uploaded \cup q.errors = 1..(i - 1) /\ q.uploaded \cap q.errors = {}
      BY <1>1, <1>4, <2>1 DEF Reporting
    <3>2. i \notin 1..(i - 1) /\ 1..i = (1..(i - 1)) \cup {i}
      BY ONLY <1>8
    <3>3. up = q.uploaded \cup {i}
      BY <1>1, <2>1
    <3> QED BY ONLY <3>1, <3>2, <3>3
  <2>2. CASE q.part = "cfi"
    BY <1>1, <1>4, <2>2 DEF Reporting
  <2> QED BY <1>4, <2>1, <2>2 DEF Reporting
<1>10. ASSUME Route[u] = "assemble" PROVE \A id \in r.artifacts : OfAnObject(u, id, up)
  <2>1. a.debug = Converted[u][i].object.debug
    <3>1. CASE q.part = "object"
      BY <1>1, <3>1 DEF Payload, CurrentItem
    <3>2. CASE q.part = "cfi"
      <4>1. a = Converted[u][i].cfi /\ a # NoArtifact
        BY <1>1, <3>2 DEF Payload, CurrentItem, RequestsTrue
      <4>2. i \in DOMAIN Converted[u]
        BY <1>6, ItemsAre
      <4> QED BY <1>10, <4>1, <4>2, AssembledAreNamed
    <3> QED BY <1>4, <3>1, <3>2 DEF Reporting
  <2>2. OfAnObject(u, new, up)
    <3>1. new[1] = a.debug
      BY <1>1
    <3> QED BY <1>9, <2>1, <3>1 DEF OfAnObject
  <2>3. \A id \in q.artifacts : OfAnObject(u, id, up)
    BY <1>4, <1>9, <1>10 DEF Reporting, OfAnObject
  <2> QED BY <1>5, <2>2, <2>3
<1>11. r.part \in {"object", "cfi"}
  BY <1>4, <1>5 DEF Reporting
<1>12. Reporting(u, NextPart(u, r)) /\ NextPart(u, r).artifacts = r.artifacts
  <2>1. /\ DOMAIN r = RequestFields /\ r.item = request[u].item
        /\ r.item \in 1..Len(Converted[u]) /\ r.part \in {"object", "cfi"}
        /\ r.step # "answered" /\ Converted[u][r.item].outcome = "ok"
    BY <1>1, <1>5, <1>6, <1>11
  <2>2. /\ r.uploaded \cap r.errors = {} /\ r.item \in r.uploaded
        /\ r.uploaded \cup r.errors = 1..r.item
    BY <1>5, <1>9
  <2>3. Route[u] = "assemble" => \A id \in r.artifacts : OfAnObject(u, id, r.uploaded)
    BY <1>5, <1>10
  <2> QED BY <2>1, <2>2, <2>3, NextReporting
<1> QED BY <1>1, <1>3, <1>5, <1>12

\* A part could not be stored.
LEMMA FailedReporting ==
  ASSUME RequestsTrue, ReportInv, NEW u \in Upload, Storable(u)
  PROVE  /\ Reporting(u, AfterFailure(u))
         /\ AfterFailure(u).artifacts = request[u].artifacts
<1>1. PICK q, i, n : q = request[u] /\ i = q.item /\ n = Len(Converted[u])
  OBVIOUS
<1>2. DOMAIN q = RequestFields /\ Reporting(u, q)
  BY <1>1 DEF RequestsTrue, ReportInv
<1>3. i \in 1..n /\ n \in Nat /\ q.step = "storing" /\ Converted[u][i].outcome = "ok"
  BY <1>1, ItemsAre DEF Storable, CurrentItem
<1>4. /\ i \in 1..(n + 1) /\ i + 1 \in 1..(n + 1) /\ (i + 1) - 1 = i
      /\ i \notin 1..(i - 1) /\ 1..i = (1..(i - 1)) \cup {i}
  BY ONLY <1>3
<1>5. CASE q.part = "cfi"
  <2>1. AfterFailure(u) = NextPart(u, q)
    BY <1>1, <1>5 DEF AfterFailure
  <2>2. /\ q.uploaded \cap q.errors = {} /\ q.item \in q.uploaded
        /\ q.uploaded \cup q.errors = 1..q.item
    BY <1>2, <1>5 DEF Reporting
  <2>3. Route[u] = "assemble" => \A id \in q.artifacts : OfAnObject(u, id, q.uploaded)
    BY <1>2 DEF Reporting
  <2>4. /\ q.item = request[u].item /\ q.item \in 1..Len(Converted[u])
        /\ q.part \in {"object", "cfi"} /\ q.step # "answered"
        /\ Converted[u][q.item].outcome = "ok"
    BY <1>1, <1>3, <1>5
  <2>5. Reporting(u, NextPart(u, q)) /\ NextPart(u, q).artifacts = q.artifacts
    BY <1>2, <2>2, <2>3, <2>4, NextReporting
  <2> QED BY <1>1, <2>1, <2>5
<1>6. CASE q.part = "object" /\ Route[u] = "dsym"
  <2>1. PICK p : p = [q EXCEPT !.errors = q.errors \cup {i}, !.item = i + 1]
    OBVIOUS
  <2>2. AfterFailure(u) = p
    BY <1>1, <1>6, <2>1 DEF AfterFailure
  <2>3. /\ p.item = i + 1 /\ p.errors = q.errors \cup {i} /\ p.uploaded = q.uploaded
        /\ p.part = "object" /\ p.step = "storing" /\ p.artifacts = q.artifacts
    BY <1>2, <1>3, <1>6, <2>1 DEF RequestFields
  <2>4. q.uploaded \cap q.errors = {} /\ q.uploaded \cup q.errors = 1..(i - 1)
    BY <1>1, <1>2, <1>6 DEF Reporting
  <2>5. p.uploaded \cap p.errors = {} /\ p.uploaded \cup p.errors = 1..i
    BY ONLY <1>4, <2>3, <2>4
  <2>6. Reporting(u, p)
    BY <1>1, <1>4, <1>6, <2>3, <2>5 DEF Reporting
  <2> QED BY <1>1, <2>2, <2>3, <2>6
<1>7. CASE q.part # "cfi" /\ ~(q.part = "object" /\ Route[u] = "dsym")
  <2>1. PICK p : p = [q EXCEPT !.step = "failed"]
    OBVIOUS
  <2>2. AfterFailure(u) = p
    BY <1>1, <1>7, <2>1 DEF AfterFailure
  <2>3. /\ p.item = q.item /\ p.errors = q.errors /\ p.uploaded = q.uploaded
        /\ p.part = q.part /\ p.step = "failed" /\ p.artifacts = q.artifacts
    BY <1>2, <2>1 DEF RequestFields
  <2>4. Reporting(u, p)
    BY <1>2, <2>3 DEF Reporting
  <2> QED BY <1>1, <2>2, <2>3, <2>4
<1> QED BY <1>5, <1>6, <1>7

\* An item that did not convert is an error.
LEMMA RejectedReporting ==
  ASSUME RequestsTrue, ReportInv, NEW u \in Upload, ReportRejected(u)
  PROVE  ReportInv'
<1>1. PICK q, i, n : q = request[u] /\ i = q.item /\ n = Len(Converted[u])
  OBVIOUS
<1>2. DOMAIN q = RequestFields /\ Reporting(u, q)
  BY <1>1 DEF RequestsTrue, ReportInv
<1>3. i \in 1..n /\ n \in Nat /\ q.step = "storing" /\ Converted[u][i].outcome = "rejected"
  <2>1. i <= n /\ i \in 1..(n + 1) /\ n \in Nat
    BY <1>1, <1>2, ItemsAre DEF ReportRejected, Reporting
  <2>2. i \in 1..n
    BY ONLY <2>1
  <2> QED BY <1>1, <2>1, <2>2 DEF ReportRejected, CurrentItem
<1>4. /\ i + 1 \in 1..(n + 1) /\ (i + 1) - 1 = i
      /\ i \notin 1..(i - 1) /\ 1..i = (1..(i - 1)) \cup {i}
  BY ONLY <1>3
<1>5. PICK p : p = [q EXCEPT !.errors = q.errors \cup {i}, !.part = "object", !.item = i + 1]
  OBVIOUS
<1>6. request' = [request EXCEPT ![u] = p]
  BY <1>1, <1>5 DEF ReportRejected
<1>7. /\ p.item = i + 1 /\ p.errors = q.errors \cup {i} /\ p.uploaded = q.uploaded
      /\ p.part = "object" /\ p.step = "storing" /\ p.artifacts = q.artifacts
  BY <1>2, <1>3, <1>5 DEF RequestFields
<1>8. q.part = "object"
  BY <1>1, <1>2, <1>3 DEF Reporting
<1>9. q.uploaded \cap q.errors = {} /\ q.uploaded \cup q.errors = 1..(i - 1)
  BY <1>1, <1>2, <1>8 DEF Reporting
<1>10. p.uploaded \cap p.errors = {} /\ p.uploaded \cup p.errors = 1..i
  BY ONLY <1>4, <1>7, <1>9
<1>11. Route[u] = "assemble" => \A id \in p.artifacts : OfAnObject(u, id, p.uploaded)
  BY <1>2, <1>7 DEF Reporting
<1>12. Reporting(u, p)
  BY <1>1, <1>4, <1>7, <1>10, <1>11 DEF Reporting
<1>13. storeTx' = storeTx /\ artifactRows' = artifactRows
  BY DEF ReportRejected
<1>14. ~Storable(u)
  BY DEF ReportRejected, Storable
<1>15. TxOwned'
  <2>1. TxOwned /\ (storeTx # NoTx => storeTx.upload # u)
    BY <1>14, NotOwner DEF ReportInv
  <2> QED BY <1>6, <1>13, <2>1, TxKept
<1>16. RowsStay
  BY <1>13, RowsUnchanged
<1>17. \A id \in p.artifacts : HasRow(id)'
  BY <1>1, <1>7, <1>16 DEF ReportInv, ArtifactsHaveRows, RowsStay
<1> QED BY <1>6, <1>12, <1>15, <1>16, <1>17, ReportChange

\* A request goes on without a store: it is converted, fails, or is answered.
LEMMA StepReporting ==
  ASSUME RequestsTrue, ReportInv, NEW u \in Upload, ~Storable(u), NEW p,
         request' = [request EXCEPT ![u] = p], storeTx' = storeTx, artifactRows' = artifactRows,
         Reporting(u, p), p.artifacts = request[u].artifacts
  PROVE  ReportInv'
<1>1. TxOwned'
  <2>1. TxOwned /\ (storeTx # NoTx => storeTx.upload # u)
    BY NotOwner DEF ReportInv
  <2> QED BY <2>1, TxKept
<1>2. RowsStay
  BY RowsUnchanged
<1>3. \A id \in p.artifacts : HasRow(id)'
  BY <1>2 DEF ReportInv, ArtifactsHaveRows, RowsStay
<1> QED BY <1>1, <1>2, <1>3, ReportChange

LEMMA ConvertReporting ==
  ASSUME RequestsTrue, ReportInv, NEW u \in Upload, ConvertUpload(u) \/ AssembleFails(u)
  PROVE  ReportInv'
<1>1. PICK q : q = request[u]
  OBVIOUS
<1>2. DOMAIN q = RequestFields /\ Reporting(u, q)
  BY <1>1 DEF RequestsTrue, ReportInv
<1>3. PICK v : v # "answered" /\ request' = [request EXCEPT ![u] = [q EXCEPT !.step = v]]
  BY <1>1 DEF ConvertUpload, AssembleFails
<1>4. PICK p : p = [q EXCEPT !.step = v]
  OBVIOUS
<1>5. /\ p.item = q.item /\ p.errors = q.errors /\ p.uploaded = q.uploaded
      /\ p.part = q.part /\ p.step = v /\ p.artifacts = q.artifacts
  BY <1>2, <1>4 DEF RequestFields
<1>6. Reporting(u, p)
  BY <1>2, <1>3, <1>5 DEF Reporting
<1>7. ~Storable(u) /\ storeTx' = storeTx /\ artifactRows' = artifactRows
  BY DEF ConvertUpload, AssembleFails, Storable
<1>8. request' = [request EXCEPT ![u] = p] /\ p.artifacts = request[u].artifacts
  BY <1>1, <1>3, <1>4, <1>5
<1> QED BY <1>6, <1>7, <1>8, StepReporting

LEMMA AnswerReporting ==
  ASSUME RequestsTrue, ReportInv, NEW u \in Upload, Answer(u)
  PROVE  ReportInv'
<1>1. PICK q, n : q = request[u] /\ n = Len(Converted[u])
  OBVIOUS
<1>2. DOMAIN q = RequestFields /\ Reporting(u, q)
  BY <1>1 DEF RequestsTrue, ReportInv
<1>3. PICK primary : primary = IF Route[u] = "dsym" THEN NoHint
        ELSE Converted[u][Primary(Converted[u], Hint[u])].object.debug
  OBVIOUS
<1>4. PICK p : p = [q EXCEPT !.step = "answered", !.primary = primary]
  OBVIOUS
<1>5. request' = [request EXCEPT ![u] = p]
  BY <1>1, <1>3, <1>4 DEF Answer
<1>6. /\ p.item = q.item /\ p.errors = q.errors /\ p.uploaded = q.uploaded
      /\ p.part = q.part /\ p.artifacts = q.artifacts /\ p.primary = primary
  BY <1>2, <1>4 DEF RequestFields
<1>7. q.item = n + 1 /\ n \in Nat
  <2>1. q.item > n /\ q.item \in 1..(n + 1) /\ n \in Nat
    BY <1>1, <1>2, ItemsAre DEF Answer, Reporting
  <2> QED BY ONLY <2>1
<1>8. Reporting(u, p)
  BY <1>1, <1>2, <1>3, <1>6, <1>7 DEF Reporting
<1>9. ~Storable(u)
  <2>1. ~(n + 1 \in 1..n)
    BY ONLY <1>7
  <2> QED BY <1>1, <1>7, <2>1, ItemsAre DEF Storable
<1>10. storeTx' = storeTx /\ artifactRows' = artifactRows
  BY DEF Answer
<1> QED BY <1>1, <1>5, <1>6, <1>8, <1>9, <1>10, StepReporting

-----------------------------------------------------------------------------
\* A transaction writes its row, or fails.

\* The row of a payload stands for its identity, in place of none, of the same
\* identity's or of one without an architecture.
LEMMA RowWritten ==
  ASSUME StoreInv, NEW a \in Artifact, NEW old, NEW new,
         \/ old = NoRow
         \/ old.debug = a.debug /\ old.kind = a.kind /\ old.arch \in {a.arch, NoArch},
         artifactRows' = (artifactRows \ {old}) \cup {new},
         new.debug = a.debug, new.kind = a.kind, new.arch = a.arch
  PROVE  RowsStay /\ HasRow(<<a.debug, a.arch, a.kind>>)'
<1>1. HasRow(<<a.debug, a.arch, a.kind>>)'
  <2>1. a.arch # NoArch
    BY ArtifactsAre
  <2> QED BY <2>1 DEF HasRow
<1>2. ASSUME NEW id, HasRow(id) PROVE HasRow(id)'
  <2>1. PICK r \in artifactRows : <<r.debug, r.arch, r.kind>> = id
    BY <1>2 DEF HasRow
  <2>2. id[2] = r.arch /\ id[2] # NoArch
    BY <1>2, <2>1 DEF HasRow
  <2>3. CASE r # old
    BY <2>1, <2>2, <2>3 DEF HasRow
  <2>4. CASE r = old
    <3>1. r # NoRow
      BY NoRowIsNoRow DEF StoreInv
    <3>2. r.debug = a.debug /\ r.kind = a.kind /\ r.arch = a.arch
      BY <2>2, <2>4, <3>1
    <3>3. <<new.debug, new.arch, new.kind>> = id
      BY <2>1, <3>2
    <3> QED BY <2>2, <3>3 DEF HasRow
  <2> QED BY <2>3, <2>4
<1> QED BY <1>1, <1>2 DEF RowsStay

LEMMA WrittenReporting ==
  ASSUME StoreInv, ReportInv, NEW u \in Upload, KeepStored(u) \/ CommitRow(u)
  PROVE  ReportInv'
<1>1. PICK a, old, stored, p :
        /\ a = storeTx.payload /\ old = storeTx.row /\ stored = storeTx.stored
        /\ p = AfterStore(u, a)
  OBVIOUS
<1>2. /\ storeTx # NoTx /\ storeTx.upload = u /\ storeTx' = NoTx
      /\ request' = [request EXCEPT ![u] = p]
  BY <1>1 DEF KeepStored, CommitRow
<1>3. /\ a \in Artifact
      /\ old = NoRow => stored = NoRow
      /\ old # NoRow => ReadRow(old, stored, a)
  BY <1>1, <1>2 DEF StoreInv, TxTrue
<1>4. \/ old = NoRow
      \/ old.debug = a.debug /\ old.kind = a.kind /\ old.arch \in {a.arch, NoArch}
  BY <1>3 DEF ReadRow
<1>5. RowsStay /\ HasRow(<<a.debug, a.arch, a.kind>>)'
  <2>1. CASE KeepStored(u)
    <3>1. Wins(stored, a)
      BY <1>1, <2>1 DEF KeepStored
    <3>2. old # NoRow /\ ReadRow(old, stored, a)
      BY <1>3, <3>1 DEF Wins
    <3>3. PICK new : new = [stored EXCEPT !.arch = a.arch]
      OBVIOUS
    <3>4. new.debug = a.debug /\ new.kind = a.kind /\ new.arch = a.arch
      BY <3>2, <3>3 DEF ReadRow, RowFields
    <3>5. artifactRows' = (artifactRows \ {old}) \cup {new}
      BY <1>1, <2>1, <3>3 DEF KeepStored
    <3> QED BY <1>3, <1>4, <3>4, <3>5, RowWritten
  <2>2. CASE CommitRow(u)
    <3>1. PICK new : new = Row(a, ObjectPath(a))
      OBVIOUS
    <3>2. new.debug = a.debug /\ new.kind = a.kind /\ new.arch = a.arch
      BY <3>1 DEF Row
    <3>3. artifactRows' = (artifactRows \ {old}) \cup {new}
      BY <1>1, <2>2, <3>1 DEF CommitRow
    <3> QED BY <1>3, <1>4, <3>2, <3>3, RowWritten
  <2> QED BY <2>1, <2>2
<1>6. Storable(u) /\ a = Payload(u)
  BY <1>1, <1>2 DEF ReportInv, TxOwned
<1>7. /\ Reporting(u, p)
      /\ p.artifacts = request[u].artifacts \cup {<<a.debug, a.arch, a.kind>>}
  BY <1>1, <1>6, StoredReporting DEF StoreInv
<1>8. \A id \in p.artifacts : HasRow(id)'
  BY <1>5, <1>7 DEF ReportInv, ArtifactsHaveRows, RowsStay
<1>9. TxOwned'
  BY <1>2 DEF TxOwned
<1>10. RequestsTrue
  BY DEF StoreInv
<1> QED BY <1>2, <1>5, <1>7, <1>8, <1>9, <1>10, ReportChange

LEMMA FailureReporting ==
  ASSUME RequestsTrue, ReportInv, NEW u \in Upload, StoreFails(u)
  PROVE  ReportInv'
<1>1. PICK p : p = AfterFailure(u)
  OBVIOUS
<1>2. /\ Storable(u) /\ request' = [request EXCEPT ![u] = p] /\ artifactRows' = artifactRows
      /\ storeTx' = IF storeTx # NoTx /\ storeTx.upload = u THEN NoTx ELSE storeTx
  BY <1>1 DEF StoreFails
<1>3. Reporting(u, p) /\ p.artifacts = request[u].artifacts
  BY <1>1, <1>2, FailedReporting
<1>4. TxOwned'
  <2>1. storeTx' \in {storeTx, NoTx} /\ (storeTx' # NoTx => storeTx.upload # u)
    BY <1>2
  <2>2. TxOwned
    BY DEF ReportInv
  <2> QED BY <1>2, <2>1, <2>2, TxKept
<1>5. RowsStay
  BY <1>2, RowsUnchanged
<1>6. \A id \in p.artifacts : HasRow(id)'
  BY <1>3, <1>5 DEF ReportInv, ArtifactsHaveRows, RowsStay
<1> QED BY <1>2, <1>3, <1>4, <1>5, <1>6, ReportChange

-----------------------------------------------------------------------------
\* Steps that report nothing.

LEMMA QuietReporting ==
  ASSUME ReportInv, UNCHANGED <<request, artifactRows>>, TxOwned'
  PROVE  ReportInv'
  BY DEF ReportInv, ArtifactsHaveRows, HasRow

LEMMA SameOwner ==
  ASSUME TxOwned, UNCHANGED request, storeTx # NoTx,
         storeTx'.upload = storeTx.upload, storeTx'.payload = storeTx.payload
  PROVE  TxOwned'
  BY DEF TxOwned, Storable, Payload, CurrentItem

LEMMA BeginReporting ==
  ASSUME ReportInv, NEW u \in Upload, BeginStore(u)
  PROVE  ReportInv'
<1>1. /\ Storable(u) /\ storeTx'.upload = u /\ storeTx'.payload = Payload(u)
      /\ UNCHANGED <<request, artifactRows>>
  BY DEF BeginStore
<1>2. TxOwned'
  BY <1>1 DEF TxOwned, Storable, Payload, CurrentItem
<1> QED BY <1>1, <1>2, QuietReporting

LEMMA PublishReporting ==
  ASSUME StoreInv, ReportInv, NEW u \in Upload, PublishFile(u)
  PROVE  ReportInv'
<1>1. storeTx # NoTx /\ storeTx' = [storeTx EXCEPT !.published = TRUE]
  BY DEF PublishFile
<1>2. DOMAIN storeTx = TxFields
  BY <1>1 DEF StoreInv, TxTrue
<1>3. storeTx'.upload = storeTx.upload /\ storeTx'.payload = storeTx.payload
  BY <1>1, <1>2 DEF TxFields
<1>4. UNCHANGED <<request, artifactRows>>
  BY DEF PublishFile
<1>5. TxOwned'
  BY <1>1, <1>3, <1>4, SameOwner DEF ReportInv
<1> QED BY <1>4, <1>5, QuietReporting

\* A request that has not begun reports nothing.
LEMMA NewReporting ==
  ASSUME NEW u \in Upload
  PROVE  Reporting(u, NewRequest) /\ NewRequest.artifacts = {}
<1>1. PICK n, r : n = Len(Converted[u]) /\ r = NewRequest
  OBVIOUS
<1>2. n \in Nat
  BY <1>1, ItemsAre
<1>3. 1 \in 1..(n + 1) /\ 1..(1 - 1) = {}
  BY ONLY <1>2
<1>4. /\ r.item = 1 /\ r.part = "object" /\ r.uploaded = {} /\ r.errors = {}
      /\ r.artifacts = {} /\ r.step = "idle"
  BY <1>1 DEF NewRequest
<1>5. Reporting(u, r)
  BY <1>1, <1>3, <1>4 DEF Reporting
<1> QED BY <1>1, <1>4, <1>5

LEMMA CrashReporting ==
  ASSUME ReportInv, StoreCrash
  PROVE  ReportInv'
<1>1. /\ storeTx' = NoTx /\ artifactRows' = artifactRows
      /\ request' = [u \in Upload |->
           IF request[u].step = "storing" THEN NewRequest ELSE request[u]]
  BY DEF StoreCrash
<1>2. \A u \in Upload : request'[u] \in {NewRequest, request[u]}
  BY <1>1
<1>3. \A u \in Upload : Reporting(u, request'[u])
  BY <1>2, NewReporting DEF ReportInv
<1>4. ArtifactsHaveRows'
  <2>1. SUFFICES ASSUME NEW u \in Upload, NEW id \in request'[u].artifacts PROVE HasRow(id)'
    BY DEF ArtifactsHaveRows
  <2>2. id \in request[u].artifacts
    BY <1>2, <2>1, NewReporting
  <2>3. HasRow(id)
    BY <2>2 DEF ReportInv, ArtifactsHaveRows
  <2> QED BY <1>1, <2>3 DEF HasRow
<1>5. TxOwned'
  BY <1>1 DEF TxOwned
<1> QED BY <1>3, <1>4, <1>5 DEF ReportInv

LEMMA VanishReporting ==
  ASSUME ReportInv, NEW r \in artifactRows, CanonicalVanishes(r)
  PROVE  ReportInv'
<1>1. storeTx = NoTx /\ storeTx' = storeTx /\ UNCHANGED <<request, artifactRows>>
  BY DEF CanonicalVanishes
<1>2. TxOwned'
  BY <1>1 DEF TxOwned
<1> QED BY <1>1, <1>2, QuietReporting

-----------------------------------------------------------------------------
LEMMA ReportInitInv == ArtifactInit => ReportInv
<1> SUFFICES ASSUME ArtifactInit PROVE ReportInv
  OBVIOUS
<1>2. storeTx = NoTx /\ \A u \in Upload : request[u] = NewRequest
  BY DEF ArtifactInit
<1> QED BY <1>2, NewReporting DEF ReportInv, ArtifactsHaveRows, TxOwned

LEMMA ReportStepInv == StoreInv /\ ReportInv /\ [ArtifactNext]_artifactVars => ReportInv'
<1> SUFFICES ASSUME StoreInv, ReportInv, [ArtifactNext]_artifactVars PROVE ReportInv'
  OBVIOUS
<1>2. RequestsTrue
  BY DEF StoreInv
<1>3. ASSUME NEW u \in Upload, ConvertUpload(u) \/ AssembleFails(u) PROVE ReportInv'
  BY <1>2, <1>3, ConvertReporting
<1>4. ASSUME NEW u \in Upload, ReportRejected(u) PROVE ReportInv'
  BY <1>2, <1>4, RejectedReporting
<1>5. ASSUME NEW u \in Upload, Answer(u) PROVE ReportInv'
  BY <1>2, <1>5, AnswerReporting
<1>6. ASSUME NEW u \in Upload, BeginStore(u) PROVE ReportInv'
  BY <1>6, BeginReporting
<1>7. ASSUME NEW u \in Upload, KeepStored(u) \/ CommitRow(u) PROVE ReportInv'
  BY <1>7, WrittenReporting
<1>8. ASSUME NEW u \in Upload, PublishFile(u) PROVE ReportInv'
  BY <1>8, PublishReporting
<1>9. ASSUME NEW u \in Upload, StoreFails(u) PROVE ReportInv'
  BY <1>2, <1>9, FailureReporting
<1>10. CASE StoreCrash
  BY <1>10, CrashReporting
<1>11. ASSUME NEW r \in artifactRows, CanonicalVanishes(r) PROVE ReportInv'
  BY <1>11, VanishReporting
<1>12. CASE UNCHANGED artifactVars
  <2>1. UNCHANGED <<request, artifactRows, storeTx>>
    BY <1>12 DEF artifactVars
  <2>2. TxOwned'
    BY <2>1 DEF ReportInv, TxOwned, Storable, Payload, CurrentItem
  <2> QED BY <2>1, <2>2, QuietReporting
<1> QED BY <1>3, <1>4, <1>5, <1>6, <1>7, <1>8, <1>9, <1>10, <1>11, <1>12 DEF ArtifactNext

\* Every request has reported exactly the items before its current one, and every
\* artifact it reported has a row (upload_dsym and assemble_one).
THEOREM ReportInvariant == ArtifactSpec => []ReportInv
  BY ReportInitInv, ReportStepInv, StoreInvariant, PTL DEF ArtifactSpec

\* An answer is true: each object is reported once, an artifact it lists has a
\* row, whoever stored the same identity meanwhile, and an assembly that names an
\* identifier whose GUID is in its file answers with that identifier
\* (api/dsyms.rs, api/chunked_upload.rs).
THEOREM AnswersStayTrue == ArtifactSpec => []AnswersAreTrue
<1>1. ReportInv => AnswersAreTrue
  <2> SUFFICES ASSUME ReportInv, NEW u \in Upload, request[u].step = "answered"
        PROVE  /\ request[u].uploaded \cup request[u].errors = 1..Len(Converted[u])
               /\ request[u].uploaded \cap request[u].errors = {}
               /\ \A id \in request[u].artifacts :
                    \E r \in artifactRows : <<r.debug, r.arch, r.kind>> = id
               /\ Route[u] = "assemble" /\ (\E id \in request[u].artifacts : id[1][1] = Hint[u][1])
                    => request[u].primary = Hint[u]
    BY DEF AnswersAreTrue
  <2>2. PICK q, n : q = request[u] /\ n = Len(Converted[u])
    OBVIOUS
  <2>3. Reporting(u, q) /\ q.step = "answered" /\ n \in Nat
    BY <2>2, ItemsAre DEF ReportInv
  <2>4. q.item = n + 1 /\ q.part = "object"
    <3>1. q.item = n + 1
      BY <2>2, <2>3 DEF Reporting
    <3>2. ~(q.item <= n)
      BY ONLY <2>3, <3>1
    <3> QED BY <2>2, <2>3, <3>1, <3>2 DEF Reporting
  <2>5. q.uploaded \cap q.errors = {} /\ q.uploaded \cup q.errors = 1..n
    <3>1. q.uploaded \cap q.errors = {} /\ q.uploaded \cup q.errors = 1..(q.item - 1)
      BY <2>3, <2>4 DEF Reporting
    <3>2. q.item - 1 = n
      BY ONLY <2>3, <2>4
    <3> QED BY <3>1, <3>2
  <2>6. \A id \in q.artifacts : \E r \in artifactRows : <<r.debug, r.arch, r.kind>> = id
    BY <2>2 DEF ReportInv, ArtifactsHaveRows, HasRow
  <2>7. ASSUME Route[u] = "assemble", NEW id \in q.artifacts, id[1][1] = Hint[u][1]
        PROVE  q.primary = Hint[u]
    <3>1. PICK i \in q.uploaded : id[1] = Converted[u][i].object.debug
      BY <2>3, <2>7 DEF Reporting, OfAnObject
    <3>2. i \in DOMAIN Converted[u]
      BY <2>2, <2>5, ItemsAre
    <3>3. Converted[u][i].object.debug = Hint[u] /\ Hint[u] # NoHint
      BY <2>7, <3>1, <3>2, AssembledAreNamed
    <3>4. Converted[u][Primary(Converted[u], Hint[u])].object.debug = Hint[u]
      BY <3>2, <3>3, PrimaryIsAsked
    <3> QED BY <2>3, <2>7, <3>4 DEF Reporting
  <2> QED BY <2>2, <2>5, <2>6, <2>7
<1> QED BY <1>1, ReportInvariant, PTL

-----------------------------------------------------------------------------
\* ChunkCollector: the inductive invariant.

PartSteps == {"sent", "touch", "mkdir", "write", "stored", "rejected", "failed"}

ChunkTyped ==
  /\ chunkTime \in 0..MaxChunkTime
  /\ chunkFile \in [ChunkHash -> Gone..MaxChunkTime]
  /\ uploadedAt \in [ChunkHash -> Gone..MaxChunkTime]
  /\ chunkPart \in [Part -> PartSteps]
  /\ sweep \in [step : {"idle", "files", "remove"}, cutoff : Int, left : SUBSET ChunkHash,
                chunk : ChunkHash \cup {Gone}, seen : Int]
  /\ unprotected \subseteq ChunkHash

\* No time is in the future.
NoneInFuture == \A h \in ChunkHash : chunkFile[h] <= chunkTime

\* Without a directory there is no file.
FilesInShard == ~shardDir => \A h \in ChunkHash : chunkFile[h] = Gone

\* The chunk is as young as the answer to its last upload: this is what the
\* collector, which knows only the time of the file, can rely on.
RefreshedWhenUploaded ==
  \A h \in ChunkHash \ unprotected :
    uploadedAt[h] # Gone /\ chunkTime - uploadedAt[h] < ChunkRetention
      => chunkFile[h] # Gone /\ chunkFile[h] >= uploadedAt[h]

\* A pass removes only what was old when it looked.
SweepsTheStale ==
  /\ sweep.step # "idle" => sweep.cutoff <= chunkTime - ChunkRetention
  /\ sweep.step = "remove" => sweep.chunk \in ChunkHash /\ sweep.seen <= sweep.cutoff

ChunkInv == ChunkTyped /\ NoneInFuture /\ FilesInShard /\ RefreshedWhenUploaded /\ SweepsTheStale

-----------------------------------------------------------------------------
LEMMA ChunkInitInv == ChunkInit => ChunkInv
  BY ChunkAssumption
  DEF ChunkInit, ChunkInv, ChunkTyped, NoneInFuture, FilesInShard, RefreshedWhenUploaded,
      SweepsTheStale, NoSweep, Gone, PartSteps

\* A part that is only sent on changes nothing the collector reads.
LEMMA PartGoesOn ==
  ASSUME ChunkInv, NEW u \in Part, NEW step \in PartSteps, PartGoto(u, step),
         UNCHANGED <<chunkTime, chunkFile, sweep, uploadedAt, unprotected>>,
         shardDir' = shardDir \/ shardDir' = TRUE
  PROVE  ChunkInv'
  BY DEF ChunkInv, ChunkTyped, NoneInFuture, FilesInShard, RefreshedWhenUploaded,
         SweepsTheStale, PartGoto

\* An answered part leaves its chunk there, with the time of the answer.
LEMMA AnsweredPart ==
  ASSUME ChunkInv, NEW u \in Part, AnswerPart(u), shardDir,
         chunkFile' = [chunkFile EXCEPT ![ClaimedHash(u)] = chunkTime],
         UNCHANGED <<chunkTime, shardDir, sweep>>
  PROVE  ChunkInv'
<1> DEFINE h == ClaimedHash(u)
<1>1. h \in ChunkHash
  BY ChunkAssumption DEF ClaimedHash
<1>2. ChunkTyped'
  BY <1>1, ChunkAssumption DEF ChunkInv, ChunkTyped, AnswerPart, PartGoto, PartSteps, Gone
<1>3. /\ chunkFile'[h] = chunkTime /\ uploadedAt'[h] = chunkTime
      /\ \A g \in ChunkHash \ {h} : chunkFile'[g] = chunkFile[g] /\ uploadedAt'[g] = uploadedAt[g]
      /\ chunkTime \in Nat
  BY <1>1 DEF ChunkInv, ChunkTyped, AnswerPart
<1>4. NoneInFuture' /\ FilesInShard'
  BY <1>1, <1>3 DEF ChunkInv, NoneInFuture, FilesInShard
<1>5. RefreshedWhenUploaded'
  BY <1>1, <1>3 DEF ChunkInv, RefreshedWhenUploaded, AnswerPart, Gone
<1>6. SweepsTheStale'
  BY DEF ChunkInv, SweepsTheStale
<1> QED BY <1>2, <1>4, <1>5, <1>6 DEF ChunkInv

LEMMA UploadStepInv ==
  ASSUME ChunkInv, NEW u \in Part,
         FindChunk(u) \/ TouchChunk(u) \/ TouchFails(u) \/ MakeShard(u) \/ WriteChunk(u)
  PROVE  ChunkInv'
<1>0. ClaimedHash(u) \in ChunkHash
  BY ChunkAssumption DEF ClaimedHash
<1>1. CASE FindChunk(u)
  <2>1. PICK step \in PartSteps : PartGoto(u, step)
    BY <1>1 DEF FindChunk, PartSteps
  <2> QED BY <1>1, <2>1, PartGoesOn DEF FindChunk
<1>2. CASE TouchChunk(u)
  <2>1. CASE chunkFile[ClaimedHash(u)] = Gone
    BY <1>2, <2>1, PartGoesOn DEF TouchChunk, PartSteps
  <2>2. CASE chunkFile[ClaimedHash(u)] # Gone
    <3>1. shardDir
      BY <1>0, <2>2 DEF ChunkInv, FilesInShard
    <3>2. /\ AnswerPart(u) /\ UNCHANGED <<chunkTime, shardDir, sweep>>
          /\ chunkFile' = [chunkFile EXCEPT ![ClaimedHash(u)] = chunkTime]
      BY <1>2, <2>2 DEF TouchChunk
    <3> QED BY <3>1, <3>2, AnsweredPart
  <2> QED BY <2>1, <2>2
<1>3. CASE TouchFails(u)
  <2>1. ChunkTyped'
    BY <1>0, <1>3, ChunkAssumption DEF ChunkInv, ChunkTyped, TouchFails, PartGoto, PartSteps, Gone
  <2>2. NoneInFuture' /\ FilesInShard' /\ SweepsTheStale'
    BY <1>3 DEF ChunkInv, NoneInFuture, FilesInShard, SweepsTheStale, TouchFails
  <2>3. RefreshedWhenUploaded'
    BY <1>0, <1>3 DEF ChunkInv, ChunkTyped, RefreshedWhenUploaded, TouchFails
  <2> QED BY <2>1, <2>2, <2>3 DEF ChunkInv
<1>4. CASE MakeShard(u)
  BY <1>4, PartGoesOn DEF MakeShard, PartSteps
<1>5. CASE WriteChunk(u)
  <2>1. CASE shardDir
    BY <1>5, <2>1, AnsweredPart DEF WriteChunk
  <2>2. CASE ~shardDir
    BY <1>5, <2>2, PartGoesOn DEF WriteChunk, PartSteps
  <2> QED BY <2>1, <2>2
<1> QED BY <1>1, <1>2, <1>3, <1>4, <1>5

LEMMA StatChunkInv ==
  ASSUME ChunkInv, NEW h \in ChunkHash, StatChunk(h)
  PROVE  ChunkInv'
<1>0. UNCHANGED <<chunkTime, chunkFile, shardDir, chunkPart, uploadedAt, unprotected>>
  BY DEF StatChunk
<1>a. /\ ChunkTyped /\ SweepsTheStale /\ sweep.step # "idle"
      /\ chunkFile[h] \in Int
  BY DEF StatChunk, ChunkInv, ChunkTyped, Gone
<1>1. ChunkTyped' /\ SweepsTheStale'
  <2>1. CASE sweep' = NoSweep
    BY <1>0, <1>a, <2>1 DEF ChunkTyped, SweepsTheStale, NoSweep, Gone
  <2>2. CASE /\ IsStaleChunk(h)
             /\ sweep' = [sweep EXCEPT !.step = "remove", !.left = @ \ {h}, !.chunk = h,
                                      !.seen = chunkFile[h]]
    <3>1. /\ sweep'.step = "remove" /\ sweep'.chunk = h /\ sweep'.seen = chunkFile[h]
          /\ sweep'.cutoff = sweep.cutoff /\ sweep'.left = sweep.left \ {h}
      BY <1>a, <2>2 DEF ChunkTyped
    <3>2. sweep' \in [step : {"idle", "files", "remove"}, cutoff : Int, left : SUBSET ChunkHash,
                      chunk : ChunkHash \cup {Gone}, seen : Int]
      BY <1>a, <2>2 DEF ChunkTyped
    <3> QED BY <1>0, <1>a, <2>2, <3>1, <3>2 DEF ChunkTyped, SweepsTheStale, IsStaleChunk
  <2>3. CASE sweep' = [sweep EXCEPT !.left = @ \ {h}]
    BY <1>0, <1>a, <2>3 DEF ChunkTyped, SweepsTheStale
  <2> QED BY <2>1, <2>2, <2>3 DEF StatChunk
<1>2. NoneInFuture' /\ FilesInShard' /\ RefreshedWhenUploaded'
  BY DEF ChunkInv, NoneInFuture, FilesInShard, RefreshedWhenUploaded, StatChunk
<1> QED BY <1>1, <1>2 DEF ChunkInv

\* A file that is as it was seen is older than the retention, so no upload that
\* still counts was answered for it.
LEMMA RemoveChunkInv ==
  ASSUME ChunkInv, RemoveChunk
  PROVE  ChunkInv'
<1> DEFINE h == sweep.chunk
<1>1. /\ h \in ChunkHash /\ sweep.seen <= sweep.cutoff
      /\ sweep.cutoff <= chunkTime - ChunkRetention
      /\ sweep.seen \in Int /\ sweep.cutoff \in Int
  BY DEF ChunkInv, ChunkTyped, SweepsTheStale, RemoveChunk
<1>2. ChunkTyped' /\ SweepsTheStale'
  <2>1. /\ UNCHANGED <<chunkTime, chunkPart, uploadedAt>>
        /\ chunkFile' = [chunkFile EXCEPT ![h] = Gone]
        /\ unprotected' = unprotected \/ unprotected' = unprotected \cup {h}
        /\ sweep' = [sweep EXCEPT !.step = "files", !.chunk = Gone, !.seen = Gone]
    BY DEF RemoveChunk
  <2>2. ChunkTyped /\ Gone \in Gone..MaxChunkTime /\ Gone \in Int
    BY ChunkAssumption DEF ChunkInv, Gone
  <2>3. /\ sweep' \in [step : {"idle", "files", "remove"}, cutoff : Int, left : SUBSET ChunkHash,
                       chunk : ChunkHash \cup {Gone}, seen : Int]
        /\ sweep'.step = "files" /\ sweep'.cutoff = sweep.cutoff
    BY <2>1, <2>2 DEF ChunkTyped
  <2>4. ChunkTyped'
    BY <1>1, <2>1, <2>2, <2>3 DEF ChunkTyped
  <2> QED BY <1>1, <2>1, <2>3, <2>4 DEF SweepsTheStale
<1>3. /\ chunkFile'[h] = Gone
      /\ \A g \in ChunkHash \ {h} : chunkFile'[g] = chunkFile[g]
  BY <1>1 DEF ChunkInv, ChunkTyped, RemoveChunk
<1>4. NoneInFuture' /\ FilesInShard'
  BY <1>3, <1>1 DEF ChunkInv, ChunkTyped, NoneInFuture, FilesInShard, RemoveChunk, Gone
<1>5. RefreshedWhenUploaded'
  <2>1. SUFFICES ASSUME NEW g \in ChunkHash \ unprotected', uploadedAt[g] # Gone,
                        chunkTime - uploadedAt[g] < ChunkRetention
                 PROVE  chunkFile'[g] # Gone /\ chunkFile'[g] >= uploadedAt[g]
    BY DEF RefreshedWhenUploaded, RemoveChunk
  <2>2. g \notin unprotected
    BY <2>1 DEF RemoveChunk
  <2>3. chunkFile[g] # Gone /\ chunkFile[g] >= uploadedAt[g]
    BY <2>1, <2>2 DEF ChunkInv, RefreshedWhenUploaded
  <2>4. g # h
    <3>1. SUFFICES ASSUME g = h PROVE FALSE
      OBVIOUS
    <3>2. chunkFile[h] = sweep.seen
      BY <2>1, <3>1 DEF RemoveChunk
    <3>3. uploadedAt[g] \in Int /\ chunkTime \in Int /\ ChunkRetention \in Int
      BY ChunkAssumption DEF ChunkInv, ChunkTyped, Gone
    <3> QED BY <1>1, <2>1, <2>3, <3>1, <3>2, <3>3
  <2> QED BY <1>3, <2>3, <2>4
<1> QED BY <1>2, <1>4, <1>5 DEF ChunkInv

LEMMA SweepStepInv ==
  ASSUME ChunkInv, StartSweep \/ EndSweep
  PROVE  ChunkInv'
<1>1. CASE StartSweep
  BY <1>1, ChunkAssumption DEF ChunkInv, ChunkTyped, NoneInFuture, FilesInShard,
                               RefreshedWhenUploaded, SweepsTheStale, StartSweep, Gone
<1>2. CASE EndSweep
  BY <1>2 DEF ChunkInv, ChunkTyped, NoneInFuture, FilesInShard, RefreshedWhenUploaded,
              SweepsTheStale, EndSweep, NoSweep, Gone
<1> QED BY <1>1, <1>2

LEMMA ChunkTickInv ==
  ASSUME ChunkInv, ChunkTick
  PROVE  ChunkInv'
<1>a. ChunkTyped'
  BY ChunkAssumption DEF ChunkInv, ChunkTyped, ChunkTick
<1>b. NoneInFuture'
  BY DEF ChunkInv, ChunkTyped, NoneInFuture, ChunkTick, Gone
<1>c. FilesInShard'
  BY DEF ChunkInv, FilesInShard, ChunkTick
<1>d. SweepsTheStale'
  BY ChunkAssumption DEF ChunkInv, ChunkTyped, SweepsTheStale, ChunkTick
<1>1. ChunkTyped' /\ NoneInFuture' /\ FilesInShard' /\ SweepsTheStale'
  BY <1>a, <1>b, <1>c, <1>d
<1>2. RefreshedWhenUploaded'
  BY ChunkAssumption DEF ChunkInv, ChunkTyped, RefreshedWhenUploaded, ChunkTick, Gone
<1> QED BY <1>1, <1>2 DEF ChunkInv

\* The invariant of ChunkCollector holds in every reachable state.
THEOREM ChunkInvariant == ChunkSpec => []ChunkInv
<1>1. ChunkInv /\ UNCHANGED chunkVars => ChunkInv'
  BY DEF chunkVars, ChunkInv, ChunkTyped, NoneInFuture, FilesInShard, RefreshedWhenUploaded,
         SweepsTheStale
<1>2. ChunkInv /\ ChunkNext => ChunkInv'
  BY UploadStepInv, StatChunkInv, RemoveChunkInv, SweepStepInv, ChunkTickInv DEF ChunkNext
<1> QED BY ChunkInitInv, <1>1, <1>2, PTL DEF ChunkSpec

\* upload_chunks and cleanup_stale_chunks: the invariant implies the types.
THEOREM ChunksTypeCorrect == ChunkSpec => []ChunkTypeOK
<1>1. ChunkTyped => \A u \in Part : chunkPart[u] \in PartSteps
  BY DEF ChunkTyped
<1>2. ChunkTyped => sweep.step \in {"idle", "files", "remove"} /\ sweep.left \subseteq ChunkHash
  BY DEF ChunkTyped
<1>3. ChunkTyped => chunkFile \in [ChunkHash -> Gone..MaxChunkTime] /\ unprotected \subseteq ChunkHash
  BY DEF ChunkTyped
<1>a. ASSUME NoneInFuture, FilesInShard
      PROVE  \A h \in ChunkHash : chunkFile[h] # Gone => shardDir /\ chunkFile[h] <= chunkTime
  <2>1. CASE shardDir
    BY <1>a, <2>1 DEF NoneInFuture
  <2>2. CASE ~shardDir
    BY <1>a, <2>2 DEF FilesInShard
  <2> QED BY <2>1, <2>2
<1>4. ChunkInv => ChunkTypeOK
  BY <1>1, <1>2, <1>3, <1>a DEF ChunkInv, ChunkTypeOK, PartSteps
<1> QED BY <1>4, ChunkInvariant, PTL

\* upload_chunks and cleanup_stale_chunks (util/chunk_store.rs): a chunk whose
\* upload was answered is there for the retention that follows, for any parts
\* and passes - unless the collector looked at it before it was refreshed, or its
\* time could not be set.
THEOREM ChunksAreKept == ChunkSpec => []UploadedChunksKept
<1>1. ChunkInv => UploadedChunksKept
  BY DEF ChunkInv, RefreshedWhenUploaded, UploadedChunksKept
<1> QED BY <1>1, ChunkInvariant, PTL

-----------------------------------------------------------------------------
\* Migrations: the inductive invariant.

Number == Len(Statements)

\* Statements in the order of their migrations, and in the order within them.
InOrder(statements) ==
  \A i, j \in DOMAIN statements : i < j =>
    \/ statements[i][1] < statements[j][1]
    \/ statements[i][1] = statements[j][1] /\ statements[i][2] < statements[j][2]

MigratedTo(k) ==
  /\ markers = 1..k
  /\ InOrder(schema)
  /\ \A n \in DOMAIN schema : schema[n][1] <= k
  /\ ToSet(schema) = {x \in Nat \X Nat : x[1] \in 1..k /\ x[2] \in 1..Statements[x[1]]}

\* A process that migrates has passed only migrations that are committed.
StartsBehind ==
  \A s \in StartingServer :
    /\ start[s].step \in {"migrate", "statements"} =>
         start[s].version \in Nat \ {0} /\ 1..(start[s].version - 1) \subseteq markers
    /\ start[s].step = "serving" => Versions \subseteq markers

\* The transaction's owner is the only process between its BEGIN and its COMMIT,
\* and has executed the first statements of its migration.
OwnerExecutes ==
  /\ \A s \in StartingServer : start[s].step = "statements" <=> txOwner = s
  /\ \A s \in StartingServer : txOwner = s =>
       /\ start[s].version \in Versions
       /\ Len(txSchema) <= Statements[start[s].version]
       /\ \A i \in 1..Len(txSchema) : txSchema[i] = <<start[s].version, i>>

SequencesTyped == schema \in Seq(Nat \X Nat) /\ txSchema \in Seq(Nat \X Nat)

MigrationInv ==
  /\ MigrationTypeOK
  /\ SequencesTyped
  /\ StartsBehind
  /\ OwnerExecutes
  /\ \E k \in 0..Number : MigratedTo(k)

-----------------------------------------------------------------------------
\* Facts about sequences of statements.

LEMMA VersionsAreFirst == Number \in Nat /\ Versions = 1..Number
BY MigrationAssumption DEF MigrationAssumption, Number, Versions

LEMMA LastOfFirst ==
  ASSUME NEW k \in Nat
  PROVE  LastVersion(1..k) = k
<1>1. k \in 1..k \cup {0} /\ \A u \in 1..k \cup {0} : u <= k
  OBVIOUS
<1>2. \A v \in 1..k \cup {0} : (\A u \in 1..k \cup {0} : u <= v) => v = k
  OBVIOUS
<1> QED
  BY <1>1, <1>2 DEF LastVersion

LEMMA OrderedAreDistinct ==
  ASSUME NEW q \in Seq(Nat \X Nat), InOrder(q)
  PROVE  \A i, j \in DOMAIN q : q[i] = q[j] => i = j
<1> SUFFICES ASSUME NEW i \in DOMAIN q, NEW j \in DOMAIN q, i < j PROVE q[i] # q[j]
  <2>1. DOMAIN q \subseteq Nat
    OBVIOUS
  <2> QED
    BY <2>1
<1>1. q[i][1] < q[j][1] \/ q[i][2] < q[j][2]
  BY DEF InOrder
<1>2. q[i] \in Nat \X Nat
  OBVIOUS
<1>3. q[i][1] \in Nat /\ q[i][2] \in Nat
  BY <1>2
<1> QED
  BY <1>1, <1>3

FirstStatements(v, n) == {<<v, i>> : i \in 1..n}

\* What a commit makes of the committed statements q and the transaction's r.
CommitOrdered(q, r, k) ==
  /\ InOrder(q \o r)
  /\ \A n \in DOMAIN (q \o r) : (q \o r)[n][1] <= k
  /\ ToSet(q \o r) = ToSet(q) \cup FirstStatements(k, Len(r))

\* The statements of the next migration follow the committed ones.
LEMMA NextMigration ==
  ASSUME NEW q \in Seq(Nat \X Nat), NEW r \in Seq(Nat \X Nat), NEW k \in Nat,
         InOrder(q), \A n \in DOMAIN q : q[n][1] <= k,
         \A i \in 1..Len(r) : r[i] = <<k + 1, i>>
  PROVE  CommitOrdered(q, r, k + 1)
<1> DEFINE all == q \o r
<1>1. /\ all \in Seq(Nat \X Nat) /\ DOMAIN all = 1..(Len(q) + Len(r))
      /\ DOMAIN q = 1..Len(q) /\ Len(q) \in Nat /\ Len(r) \in Nat
  OBVIOUS
<1>2. \A n \in 1..Len(q) : all[n] = q[n] /\ all[n] \in Nat \X Nat /\ all[n][1] <= k
  OBVIOUS
<1>3. \A n \in DOMAIN all \ 1..Len(q) :
        n - Len(q) \in 1..Len(r) /\ all[n] = r[n - Len(q)] /\ all[n] = <<k + 1, n - Len(q)>>
  <2> SUFFICES ASSUME NEW n \in DOMAIN all \ 1..Len(q)
               PROVE  /\ n - Len(q) \in 1..Len(r) /\ all[n] = r[n - Len(q)]
                      /\ all[n] = <<k + 1, n - Len(q)>>
    OBVIOUS
  <2>1. n \in Nat /\ Len(q) < n /\ n <= Len(q) + Len(r)
    BY <1>1
  <2>2. n - Len(q) \in 1..Len(r)
    BY <1>1, <2>1
  <2>3. all[n] = r[n - Len(q)]
    BY <1>1, <2>1
  <2> QED
    BY <2>2, <2>3
<1> HIDE DEF all
<1>4. InOrder(all)
  <2> SUFFICES ASSUME NEW i \in DOMAIN all, NEW j \in DOMAIN all, i < j
               PROVE  \/ all[i][1] < all[j][1]
                      \/ all[i][1] = all[j][1] /\ all[i][2] < all[j][2]
    BY DEF InOrder
  <2>1. CASE j \in 1..Len(q)
    <3>1. i \in 1..Len(q)
      BY <1>1, <2>1
    <3>2. i \in DOMAIN q /\ j \in DOMAIN q /\ all[i] = q[i] /\ all[j] = q[j]
      BY <1>1, <1>2, <2>1, <3>1
    <3>3. \/ q[i][1] < q[j][1]
          \/ q[i][1] = q[j][1] /\ q[i][2] < q[j][2]
      BY <3>2 DEF InOrder
    <3> QED
      BY <3>2, <3>3
  <2>2. CASE j \notin 1..Len(q) /\ i \in 1..Len(q)
    <3>1. all[j][1] = k + 1
      BY <1>3, <2>2
    <3>2. all[i] \in Nat \X Nat /\ all[i][1] <= k
      BY <1>2, <2>2
    <3>3. all[i][1] \in Nat
      BY <3>2
    <3> QED
      BY <3>1, <3>2, <3>3
  <2>3. CASE j \notin 1..Len(q) /\ i \notin 1..Len(q)
    BY <1>1, <1>3, <2>3
  <2> QED
    BY <2>1, <2>2, <2>3
<1>5. \A n \in DOMAIN all : all[n][1] <= k + 1
  <2>1. \A n \in 1..Len(q) : all[n][1] <= k + 1
    <3>1. \A n \in 1..Len(q) : all[n][1] \in Nat /\ all[n][1] <= k
      BY <1>2
    <3> QED
      BY <3>1
  <2>2. \A n \in DOMAIN all \ 1..Len(q) : all[n][1] = k + 1
    BY <1>3
  <2>3. k + 1 <= k + 1
    OBVIOUS
  <2> QED
    BY <2>1, <2>2, <2>3
<1>6. ToSet(all) = ToSet(q) \cup FirstStatements(k + 1, Len(r))
  <2>1. \A n \in DOMAIN all : all[n] \in ToSet(q) \cup FirstStatements(k + 1, Len(r))
    BY <1>1, <1>2, <1>3 DEF ToSet, FirstStatements
  <2>2. \A n \in DOMAIN q : q[n] \in ToSet(all)
    <3>1. \A n \in DOMAIN q : n \in DOMAIN all /\ all[n] = q[n]
      BY <1>1, <1>2
    <3> QED
      BY <3>1 DEF ToSet
  <2>3. \A i \in 1..Len(r) : <<k + 1, i>> \in ToSet(all)
    <3>1. \A i \in 1..Len(r) : Len(q) + i \in DOMAIN all /\ all[Len(q) + i] = <<k + 1, i>>
      <4> SUFFICES ASSUME NEW i \in 1..Len(r)
                   PROVE  Len(q) + i \in DOMAIN all /\ all[Len(q) + i] = <<k + 1, i>>
        OBVIOUS
      <4>1. Len(q) \in Nat /\ Len(r) \in Nat /\ i \in Nat /\ 1 <= i /\ i <= Len(r)
            /\ Len(all) = Len(q) + Len(r) /\ DOMAIN all = 1..Len(all)
        BY <1>1
      <4>2. Len(q) + i \in DOMAIN all \ 1..Len(q) /\ (Len(q) + i) - Len(q) = i
        BY <4>1
      <4> QED
        BY <1>3, <4>2
    <3> QED
      BY <3>1 DEF ToSet
  <2> QED
    BY <2>1, <2>2, <2>3 DEF ToSet, FirstStatements
<1> QED
  BY <1>4, <1>5, <1>6 DEF all, CommitOrdered

-----------------------------------------------------------------------------
\* What a step that ends a process keeps.

LEMMA ExitKeeps ==
  ASSUME MigrationInv, NEW s \in StartingServer, Exit(s), UNCHANGED <<schema, markers>>
  PROVE  /\ txOwner' \in StartingServer \cup {NoWriter}
         /\ start' \in [StartingServer -> [step : {"down", "checked", "migrate", "statements",
                                                    "serving"},
                                           version : Versions \cup {0, Number + 1, NotRead}]]
         /\ SequencesTyped' /\ StartsBehind' /\ OwnerExecutes'
         /\ \E k \in 0..Number : MigratedTo(k)'
<1> USE DEF MigrationInv
<1>1. /\ start'[s] = [step |-> "down", version |-> NotRead]
      /\ \A t \in StartingServer \ {s} : start'[t] = start[t]
      /\ start' \in [StartingServer -> [step : {"down", "checked", "migrate", "statements",
                                                    "serving"},
                                           version : Versions \cup {0, Number + 1, NotRead}]]
  BY DEF Exit, MigrationTypeOK, Number
<1>2. txOwner' \in StartingServer \cup {NoWriter}
  BY DEF Exit, MigrationTypeOK
<1>3. SequencesTyped'
  BY DEF Exit, SequencesTyped
<1>4. StartsBehind'
  BY <1>1 DEF StartsBehind
<1>5. OwnerExecutes'
  <2>1. \A t \in StartingServer : txOwner' = t => t # s /\ txOwner = t /\ txSchema' = txSchema
    BY MigrationAssumption DEF Exit, MigrationAssumption
  <2>2. \A t \in StartingServer \ {s} : txOwner = t => txOwner' = t
    BY DEF Exit
  <2> QED
    BY <1>1, <2>1, <2>2 DEF OwnerExecutes
<1>6. \E k \in 0..Number : MigratedTo(k)'
  BY DEF MigratedTo
<1> QED
  BY <1>1, <1>2, <1>3, <1>4, <1>5, <1>6
-----------------------------------------------------------------------------
\* The commit: the marker is refused, or the schema is that of one more migration.

LEMMA CommitKeeps ==
  ASSUME MigrationInv, NEW s \in StartingServer, CommitMigration(s)
  PROVE  MigrationInv'
<1> DEFINE v == start[s].version
<1> USE DEF MigrationInv
<1>1. /\ start[s].step = "statements" /\ Len(txSchema) = Statements[v]
      /\ txOwner = s /\ v \in Versions /\ 1..(v - 1) \subseteq markers
      /\ \A i \in 1..Len(txSchema) : txSchema[i] = <<v, i>>
  BY DEF CommitMigration, OwnerExecutes, StartsBehind
<1>2. CASE v \in markers
  <2>1. Exit(s) /\ UNCHANGED <<schema, markers>> /\ startFaults' = startFaults
    BY <1>2 DEF CommitMigration
  <2>2. MigrationTypeOK'
    BY <2>1, ExitKeeps DEF MigrationTypeOK, Number
  <2> QED
    BY <2>1, <2>2, ExitKeeps
<1>3. CASE v \notin markers
  <2>1. /\ schema' = schema \o txSchema /\ markers' = markers \cup {v}
        /\ txOwner' = NoWriter /\ txSchema' = <<>> /\ startFaults' = startFaults
        /\ start' = [start EXCEPT ![s] = [step |-> "migrate", version |-> v + 1]]
    BY <1>3 DEF CommitMigration
  <2>2. PICK k \in 0..Number : MigratedTo(k)
    OBVIOUS
  <2>3. v = k + 1 /\ k \in Nat /\ k + 1 \in 1..Number
    <3>1. v \in Nat /\ 1 <= v /\ v <= Number /\ k \in Nat /\ markers = 1..k
      BY <1>1, <2>2, VersionsAreFirst DEF MigratedTo
    <3>2. k < v
      BY <1>3, <3>1
    <3>3. v = 1 \/ v - 1 \in 1..k
      BY <1>1, <3>1
    <3> QED
      BY <3>1, <3>2, <3>3
  <2>4. MigratedTo(k + 1)'
    <3>1. /\ schema \in Seq(Nat \X Nat) /\ txSchema \in Seq(Nat \X Nat) /\ InOrder(schema)
          /\ \A n \in DOMAIN schema : schema[n][1] <= k
          /\ \A i \in 1..Len(txSchema) : txSchema[i] = <<k + 1, i>>
      BY <1>1, <2>2, <2>3 DEF SequencesTyped, MigratedTo
    <3>2. /\ InOrder(schema') /\ \A n \in DOMAIN schema' : schema'[n][1] <= k + 1
          /\ ToSet(schema') = ToSet(schema) \cup FirstStatements(k + 1, Len(txSchema))
      <4> HIDE DEF MigrationInv
      <4>1. CommitOrdered(schema, txSchema, k + 1)
        BY <2>3, <3>1, NextMigration
      <4> QED
        BY <2>1, <4>1, Zenon DEF CommitOrdered
    <3>3. markers' = 1..(k + 1)
      BY <2>1, <2>2, <2>3 DEF MigratedTo
    <3>4. ToSet(schema')
            = {x \in Nat \X Nat : x[1] \in 1..(k + 1) /\ x[2] \in 1..Statements[x[1]]}
      <4>1. FirstStatements(k + 1, Len(txSchema))
              = {x \in Nat \X Nat : x[1] = k + 1 /\ x[2] \in 1..Statements[x[1]]}
        BY <1>1, <2>3 DEF FirstStatements
      <4>2. ToSet(schema) = {x \in Nat \X Nat : x[1] \in 1..k /\ x[2] \in 1..Statements[x[1]]}
        BY <2>2 DEF MigratedTo
      <4>3. 1..(k + 1) = 1..k \cup {k + 1}
        BY <2>3
      <4> QED
        BY <3>2, <4>1, <4>2, <4>3
    <3> QED
      BY <3>2, <3>3, <3>4 DEF MigratedTo
  <2>5. MigrationTypeOK'
    <3>1. \A i \in DOMAIN schema' : schema'[i] \in ToSet(schema')
      BY DEF ToSet
    <3>2. \A x \in ToSet(schema') : x[1] \in 1..(k + 1)
      BY <2>4 DEF MigratedTo
    <3>3. \A i \in DOMAIN schema' : schema'[i][1] \in Versions
      BY <2>3, <3>1, <3>2, VersionsAreFirst
    <3>4. v + 1 \in Versions \cup {Number + 1}
      BY <2>3, VersionsAreFirst
    <3>5. markers' \subseteq Versions
      BY <1>1, <2>1 DEF MigrationTypeOK
    <3> QED
      BY <1>1, <2>1, <3>3, <3>4, <3>5 DEF MigrationTypeOK, Number
  <2>6. SequencesTyped'
    BY <2>1 DEF SequencesTyped
  <2>7. StartsBehind'
    <3>1. markers \subseteq markers' /\ 1..((v + 1) - 1) \subseteq markers'
      <4>1. markers' = 1..(k + 1) /\ (v + 1) - 1 = k + 1
        BY <2>3, <2>4 DEF MigratedTo
      <4> QED
        BY <2>1, <4>1
    <3>2. start'[s] = [step |-> "migrate", version |-> v + 1]
          /\ \A t \in StartingServer \ {s} : start'[t] = start[t]
      BY <2>1 DEF MigrationTypeOK
    <3> QED
      BY <2>3, <3>1, <3>2 DEF StartsBehind
  <2>8. OwnerExecutes'
    <3>1. \A t \in StartingServer : start'[t].step # "statements" /\ txOwner' # t
      BY <1>1, <2>1, MigrationAssumption DEF OwnerExecutes, MigrationTypeOK, MigrationAssumption
    <3> QED
      BY <3>1 DEF OwnerExecutes
  <2>9. k + 1 \in 0..Number
    BY <2>3, VersionsAreFirst
  <2> QED
    BY <2>4, <2>5, <2>6, <2>7, <2>8, <2>9
<1> QED
  BY <1>2, <1>3
-----------------------------------------------------------------------------
\* The invariant.

THEOREM MigrationsInvariant == MigrationSpec => []MigrationInv
<1>1. MigrationInit => MigrationInv
  <2> SUFFICES ASSUME MigrationInit PROVE MigrationInv
    OBVIOUS
  <2>1. MigrationTypeOK /\ SequencesTyped /\ StartsBehind
    BY MigrationAssumption
    DEF MigrationInit, MigrationTypeOK, SequencesTyped, StartsBehind, MigrationAssumption
  <2>2. OwnerExecutes
    BY MigrationAssumption DEF MigrationInit, OwnerExecutes, MigrationAssumption
  <2>3. MigratedTo(0)
    BY DEF MigrationInit, MigratedTo, InOrder, ToSet
  <2> QED
    BY <2>1, <2>2, <2>3, VersionsAreFirst DEF MigrationInv
<1>2. MigrationInv /\ [MigrationNext]_migrationVars => MigrationInv'
  <2> SUFFICES ASSUME MigrationInv, [MigrationNext]_migrationVars PROVE MigrationInv'
    OBVIOUS
  <2> USE DEF MigrationInv
  <2>1. CASE UNCHANGED migrationVars
    BY <2>1 DEF migrationVars, MigrationTypeOK, SequencesTyped, StartsBehind, OwnerExecutes,
                MigratedTo
  <2>2. ASSUME NEW s \in StartingServer, OpenDatabase(s) \/ ReadVersion(s) \/ Serve(s)
        PROVE  MigrationInv'
    <3>1. /\ start[s].step \notin {"statements"} /\ start'[s].step \notin {"statements"}
          /\ \A t \in StartingServer \ {s} : start'[t] = start[t]
          /\ UNCHANGED <<schema, markers, txOwner, txSchema, startFaults>>
      BY <2>2 DEF OpenDatabase, ReadVersion, Serve, MigrationTypeOK
    <3>2. PICK k \in 0..Number : MigratedTo(k)
      OBVIOUS
    <3>3. LastVersion(markers) = k /\ k \in Nat /\ k + 1 \in Versions \cup {Number + 1}
      BY <3>2, LastOfFirst, VersionsAreFirst DEF MigratedTo
    <3>4. MigrationTypeOK'
      BY <2>2, <3>1, <3>3 DEF OpenDatabase, ReadVersion, Serve, MigrationTypeOK, Number
    <3>5. StartsBehind'
      <4>1. CASE OpenDatabase(s)
        BY <4>1, <3>1 DEF OpenDatabase, StartsBehind, MigrationTypeOK
      <4>2. CASE ReadVersion(s)
        <5>1. start'[s] = [step |-> "migrate", version |-> k + 1] /\ markers = 1..k
          BY <4>2, <3>2, <3>3 DEF ReadVersion, MigrationTypeOK, MigratedTo
        <5>2. k + 1 \in Nat \ {0} /\ (k + 1) - 1 = k
          BY <3>3
        <5> QED
          BY <3>1, <5>1, <5>2 DEF StartsBehind
      <4>3. CASE Serve(s)
        <5>1. /\ start[s].version \in Nat \ {0} /\ start[s].version \notin 1..Number
              /\ 1..(start[s].version - 1) \subseteq markers
          BY <4>3, VersionsAreFirst DEF Serve, StartsBehind
        <5>2. 1..Number \subseteq 1..(start[s].version - 1)
          BY <5>1, VersionsAreFirst
        <5>3. Versions \subseteq markers
          BY <5>1, <5>2, VersionsAreFirst
        <5>4. start'[s].step = "serving"
          BY <4>3 DEF Serve, MigrationTypeOK
        <5> QED
          BY <3>1, <5>3, <5>4 DEF StartsBehind
      <4> QED
        BY <2>2, <4>1, <4>2, <4>3
    <3>6. OwnerExecutes'
      BY <3>1 DEF OwnerExecutes
    <3> QED
      BY <3>1, <3>2, <3>4, <3>5, <3>6 DEF SequencesTyped, MigratedTo
  <2>3. ASSUME NEW s \in StartingServer, BeginMigration(s)
        PROVE  MigrationInv'
    <3>1. /\ start'[s].step = "statements" /\ start'[s].version = start[s].version
          /\ start[s].version \in Versions /\ start[s].step = "migrate"
          /\ \A t \in StartingServer \ {s} : start'[t] = start[t]
          /\ txOwner = NoWriter /\ txOwner' = s /\ txSchema' = <<>>
          /\ UNCHANGED <<schema, markers, startFaults>>
      BY <2>3 DEF BeginMigration, MigrationTypeOK
    <3>2. MigrationTypeOK'
      BY <2>3, <3>1 DEF BeginMigration, MigrationTypeOK
    <3>3. StartsBehind'
      BY <3>1 DEF StartsBehind
    <3>4. OwnerExecutes'
      <4>1. \A t \in StartingServer \ {s} : start'[t].step # "statements"
        BY <3>1, MigrationAssumption DEF OwnerExecutes, MigrationAssumption
      <4>2. Len(txSchema') = 0 /\ Statements[start[s].version] \in Nat
        BY <3>1, MigrationAssumption DEF MigrationAssumption, Versions
      <4> QED
        BY <3>1, <4>1, <4>2 DEF OwnerExecutes
    <3>5. SequencesTyped'
      BY <3>1 DEF SequencesTyped
    <3>6. \E k \in 0..Number : MigratedTo(k)'
      BY <3>1 DEF MigratedTo
    <3> QED
      BY <3>2, <3>3, <3>4, <3>5, <3>6
  <2>4. ASSUME NEW s \in StartingServer, ExecuteStatement(s)
        PROVE  MigrationInv'
    <3> DEFINE v == start[s].version
               n == Len(txSchema)
    <3>1. /\ start[s].step = "statements" /\ n < Statements[v]
          /\ txSchema' = Append(txSchema, <<v, n + 1>>)
          /\ UNCHANGED <<schema, markers, txOwner, start, startFaults>>
      BY <2>4 DEF ExecuteStatement
    <3>2. /\ txOwner = s /\ v \in Nat /\ Statements[v] \in Nat /\ n \in Nat
          /\ \A i \in 1..n : txSchema[i] = <<v, i>>
      <4>1. txOwner = s /\ v \in Versions /\ \A i \in 1..n : txSchema[i] = <<v, i>>
        BY <3>1 DEF OwnerExecutes
      <4>2. v \in Nat /\ Statements[v] \in Nat
        BY <4>1, VersionsAreFirst, MigrationAssumption DEF MigrationAssumption, Versions
      <4>3. n \in Nat
        BY DEF SequencesTyped
      <4> QED
        BY <4>1, <4>2, <4>3
    <3>3. Len(txSchema') = n + 1 /\ \A i \in 1..(n + 1) : txSchema'[i] = <<v, i>>
      <4>1. Len(txSchema') = n + 1 /\ txSchema'[n + 1] = <<v, n + 1>>
        BY <3>1, <3>2 DEF SequencesTyped
      <4>2. \A i \in 1..n : txSchema'[i] = txSchema[i]
        BY <3>1, <3>2 DEF SequencesTyped
      <4>3. \A i \in 1..(n + 1) : i \in 1..n \/ i = n + 1
        BY <3>2
      <4> QED
        BY <3>2, <4>1, <4>2, <4>3
    <3>4. OwnerExecutes'
      BY <3>1, <3>2, <3>3 DEF OwnerExecutes
    <3>5. SequencesTyped'
      BY <3>1, <3>2 DEF SequencesTyped
    <3> QED
      BY <3>1, <3>4, <3>5 DEF MigrationTypeOK, StartsBehind, MigratedTo
  <2>5. ASSUME NEW s \in StartingServer, StatementConflicts(s) \/ StartFails(s)
        PROVE  MigrationInv'
    <3>1. Exit(s) /\ UNCHANGED <<schema, markers>> /\ startFaults' \in 0..MaxStartFaults
      BY <2>5, MigrationAssumption
      DEF StatementConflicts, StartFails, MigrationTypeOK, MigrationAssumption
    <3>2. MigrationTypeOK'
      BY <3>1, ExitKeeps DEF MigrationTypeOK, Number
    <3> QED
      BY <3>1, <3>2, ExitKeeps
  <2> QED
    BY <2>1, <2>2, <2>3, <2>4, <2>5, CommitKeeps DEF MigrationNext
<1> QED
  BY <1>1, <1>2, PTL DEF MigrationSpec

\* Type correctness.
THEOREM MigrationsTypeCorrect == MigrationSpec => []MigrationTypeOK
<1>1. MigrationInv => MigrationTypeOK
  BY DEF MigrationInv
<1> QED
  BY <1>1, MigrationsInvariant, PTL

\* What is committed is the marked migrations, the first ones, each once, whole
\* and in order, whichever processes migrated and wherever they failed.
THEOREM SchemaIsMarked == MigrationSpec => []SchemaMatchesMarkers
<1>1. MigrationInv => SchemaMatchesMarkers
  <2> SUFFICES ASSUME MigrationInv PROVE SchemaMatchesMarkers
    OBVIOUS
  <2>1. PICK k \in 0..Number : MigratedTo(k)
    BY DEF MigrationInv
  <2>2. k \in Nat /\ markers = 1..k /\ LastVersion(markers) = k
    BY <2>1, LastOfFirst, VersionsAreFirst DEF MigratedTo
  <2>3. \A i, j \in DOMAIN schema : schema[i] = schema[j] => i = j
    BY <2>1, OrderedAreDistinct DEF MigrationInv, SequencesTyped, MigratedTo
  <2>4. \A v \in Versions : \A i \in 1..Statements[v] :
          v \in markers <=> <<v, i>> \in ToSet(schema)
    <3> SUFFICES ASSUME NEW v \in Versions, NEW i \in 1..Statements[v]
                 PROVE  v \in markers <=> <<v, i>> \in ToSet(schema)
      OBVIOUS
    <3>1. <<v, i>> \in Nat \X Nat
      BY VersionsAreFirst, MigrationAssumption DEF MigrationAssumption, Versions
    <3> QED
      BY <2>1, <2>2, <3>1 DEF MigratedTo
  <2> QED
    BY <2>1, <2>2, <2>3, <2>4 DEF SchemaMatchesMarkers, MigratedTo, InOrder
<1> QED
  BY <1>1, MigrationsInvariant, PTL

\* A process that serves requests has every statement of every migration.
THEOREM CurrentSchemaServed == MigrationSpec => []ServesCurrentSchema
<1>1. MigrationInv /\ SchemaMatchesMarkers => ServesCurrentSchema
  BY DEF MigrationInv, StartsBehind, SchemaMatchesMarkers, ServesCurrentSchema
<1> QED
  BY <1>1, MigrationsInvariant, SchemaIsMarked, PTL

\* Whatever fails or dies while one or two processes migrate, the schema is that of
\* the committed versions, and a process that serves has the newest: run_migrations
\* (db/pool.rs).
THEOREM SchemaStaysSound == MigrationSpec => []SchemaSound
<1>1. SchemaMatchesMarkers /\ ServesCurrentSchema => SchemaSound
  BY DEF SchemaSound
<1> QED
  BY <1>1, SchemaIsMarked, CurrentSchemaServed, PTL

-----------------------------------------------------------------------------
\* LeaseHeartbeat: the inductive invariant.

\* Each task waits for the connection exactly while its state says so, and a
\* transaction is the queue's head.
QueueIsTheWaiting ==
  /\ "conversion" \in ToSet(writerQueue) <=> conversion \in {"waiting", "in transaction"}
  /\ "heartbeat" \in ToSet(writerQueue) <=> leaseTask = "renewing"
  /\ conversion = "in transaction" => HoldsWriter("conversion") /\ storesLeft > 0
  /\ conversion = "waiting" => storesLeft > 0

\* The lease task returns only with the result of its conversion.
ReturnedAfterConversion == leaseTask = "returned" => conversion = "finished"

HeartbeatInv ==
  /\ HeartbeatTypeOK
  /\ writerQueue \in Seq(WriterTask)
  /\ QueueIsTheWaiting
  /\ ReturnedAfterConversion

-----------------------------------------------------------------------------
\* Facts about queues whose members are distinct.

\* A task that joins a queue is its last; no other place changes.
LEMMA JoinedQueue ==
  ASSUME NEW q \in Seq(WriterTask), IsInjective(q), NEW t \in WriterTask, t \notin ToSet(q)
  PROVE  /\ Append(q, t) \in Seq(WriterTask)
         /\ ToSet(Append(q, t)) = ToSet(q) \cup {t}
         /\ IsInjective(Append(q, t))
         /\ q # <<>> => Head(Append(q, t)) = Head(q)
         /\ Append(q, t) # <<>>
<1> DEFINE p == Append(q, t)
<1>1. /\ p \in Seq(WriterTask) /\ Len(p) = Len(q) + 1 /\ Len(q) \in Nat
      /\ DOMAIN p = 1..(Len(q) + 1) /\ DOMAIN q = 1..Len(q)
  OBVIOUS
<1>2. \A i \in 1..Len(q) : p[i] = q[i]
  OBVIOUS
<1>3. p[Len(q) + 1] = t
  OBVIOUS
<1>4. ToSet(p) = ToSet(q) \cup {t}
  BY <1>1, <1>2, <1>3 DEF ToSet
<1>5. IsInjective(p)
  BY <1>1, <1>2, <1>3 DEF IsInjective, ToSet
<1>6. q # <<>> => Head(p) = Head(q)
  OBVIOUS
<1>7. p # <<>>
  BY <1>1
<1> QED
  BY <1>1, <1>4, <1>5, <1>6, <1>7

\* The head leaves a queue, and no other task does.
LEMMA LeftQueue ==
  ASSUME NEW q \in Seq(WriterTask), IsInjective(q), q # <<>>
  PROVE  /\ Tail(q) \in Seq(WriterTask)
         /\ ToSet(Tail(q)) = ToSet(q) \ {Head(q)}
         /\ IsInjective(Tail(q))
<1> DEFINE p == Tail(q)
<1>1. /\ p \in Seq(WriterTask) /\ Len(p) = Len(q) - 1 /\ Len(q) \in Nat \ {0}
      /\ DOMAIN p = 1..(Len(q) - 1) /\ DOMAIN q = 1..Len(q)
  OBVIOUS
<1>2. \A i \in 1..(Len(q) - 1) : p[i] = q[i + 1]
  OBVIOUS
<1>3. Head(q) = q[1]
  OBVIOUS
<1>4. ASSUME NEW x \in ToSet(p)  PROVE  x \in ToSet(q) \ {Head(q)}
  <2>1. PICK i \in 1..(Len(q) - 1) : x = p[i]
    BY <1>1 DEF ToSet
  <2>2. x = q[i + 1] /\ i + 1 \in 1..Len(q) /\ i + 1 # 1
    BY <2>1, <1>1, <1>2
  <2> QED
    BY <2>2, <1>1, <1>3 DEF ToSet, IsInjective
<1>5. ASSUME NEW x \in ToSet(q) \ {Head(q)}  PROVE  x \in ToSet(p)
  <2>1. PICK i \in 1..Len(q) : x = q[i] /\ i # 1
    BY <1>1, <1>3 DEF ToSet
  <2>2. i - 1 \in 1..(Len(q) - 1) /\ p[i - 1] = x
    BY <2>1, <1>1, <1>2
  <2> QED
    BY <2>2, <1>1 DEF ToSet
<1>6. IsInjective(p)
  <2> SUFFICES ASSUME NEW i \in DOMAIN p, NEW j \in DOMAIN p, p[i] = p[j]
               PROVE  i = j
    BY DEF IsInjective
  <2>1. q[i + 1] = q[j + 1] /\ i + 1 \in DOMAIN q /\ j + 1 \in DOMAIN q
    BY <1>1, <1>2
  <2> QED
    BY <2>1, <1>1 DEF IsInjective
<1> QED
  BY <1>1, <1>4, <1>5, <1>6

-----------------------------------------------------------------------------
\* The invariant.

LEMMA HeartbeatInitInv == HeartbeatInit => HeartbeatInv
BY HeartbeatAssumption
   DEF HeartbeatInit, HeartbeatInv, HeartbeatTypeOK, QueueIsTheWaiting,
       ReturnedAfterConversion, ToSet, IsInjective, HeartbeatAssumption

LEMMA ConversionStepInv ==
  ASSUME HeartbeatInv, ConversionStep
  PROVE  HeartbeatInv'
<1>1. CASE WantWriter
  <2>1. "conversion" \notin ToSet(writerQueue) /\ leaseTask # "returned"
    BY <1>1 DEF HeartbeatInv, QueueIsTheWaiting, ReturnedAfterConversion, WantWriter
  <2>2. /\ writerQueue' \in Seq(WriterTask)
        /\ ToSet(writerQueue') = ToSet(writerQueue) \cup {"conversion"}
        /\ IsInjective(writerQueue')
    BY <1>1, <2>1, JoinedQueue DEF HeartbeatInv, HeartbeatTypeOK, WantWriter, WriterTask
  <2> QED
    BY <1>1, <2>1, <2>2
       DEF HeartbeatInv, HeartbeatTypeOK, QueueIsTheWaiting, ReturnedAfterConversion,
           WantWriter, WriterTask
<1>2. CASE BeginWrite
  BY <1>2 DEF HeartbeatInv, HeartbeatTypeOK, QueueIsTheWaiting, ReturnedAfterConversion,
              BeginWrite, HoldsWriter
<1>3. CASE EndWrite
  <2>1. writerQueue # <<>> /\ Head(writerQueue) = "conversion"
    BY <1>3 DEF HeartbeatInv, QueueIsTheWaiting, EndWrite, HoldsWriter
  <2>2. /\ writerQueue' \in Seq(WriterTask)
        /\ ToSet(writerQueue') = ToSet(writerQueue) \ {"conversion"}
        /\ IsInjective(writerQueue')
    BY <1>3, <2>1, LeftQueue DEF HeartbeatInv, HeartbeatTypeOK, EndWrite
  <2>3. storesLeft' \in 0..MaxStores
    <3>1. storesLeft \in 0..MaxStores /\ storesLeft > 0 /\ storesLeft' = storesLeft - 1
      BY <1>3 DEF HeartbeatInv, HeartbeatTypeOK, QueueIsTheWaiting, EndWrite
    <3> QED
      BY <3>1, HeartbeatAssumption DEF HeartbeatAssumption
  <2>4. HeartbeatTypeOK'
    BY <1>3, <2>2, <2>3 DEF HeartbeatInv, HeartbeatTypeOK, EndWrite
  <2>5. QueueIsTheWaiting' /\ ReturnedAfterConversion'
    BY <1>3, <2>2 DEF HeartbeatInv, QueueIsTheWaiting, ReturnedAfterConversion, EndWrite
  <2> QED
    BY <2>2, <2>4, <2>5 DEF HeartbeatInv
<1>4. CASE FinishConversion
  BY <1>4 DEF HeartbeatInv, HeartbeatTypeOK, QueueIsTheWaiting, ReturnedAfterConversion,
              FinishConversion, HoldsWriter
<1> QED
  BY <1>1, <1>2, <1>3, <1>4 DEF ConversionStep

LEMMA LeaseTaskStepInv ==
  ASSUME HeartbeatInv, LeaseTaskStep
  PROVE  HeartbeatInv'
<1>1. CASE ReturnResult
  BY <1>1 DEF HeartbeatInv, HeartbeatTypeOK, QueueIsTheWaiting, ReturnedAfterConversion,
              ReturnResult, HoldsWriter
<1>2. CASE Beat
  <2>1. "heartbeat" \notin ToSet(writerQueue)
    BY <1>2 DEF HeartbeatInv, QueueIsTheWaiting, Beat
  <2>2. /\ writerQueue' \in Seq(WriterTask)
        /\ ToSet(writerQueue') = ToSet(writerQueue) \cup {"heartbeat"}
        /\ IsInjective(writerQueue')
        /\ writerQueue # <<>> => Head(writerQueue') = Head(writerQueue)
        /\ writerQueue' # <<>>
    BY <1>2, <2>1, JoinedQueue DEF HeartbeatInv, HeartbeatTypeOK, Beat, WriterTask
  <2>3. beatsLeft' \in 0..MaxBeats
    <3>1. beatsLeft \in 0..MaxBeats /\ beatsLeft > 0 /\ beatsLeft' = beatsLeft - 1
      BY <1>2 DEF HeartbeatInv, HeartbeatTypeOK, Beat
    <3> QED
      BY <3>1, HeartbeatAssumption DEF HeartbeatAssumption
  <2>4. HeartbeatTypeOK'
    BY <1>2, <2>2, <2>3 DEF HeartbeatInv, HeartbeatTypeOK, Beat, WriterTask
  <2>5. QueueIsTheWaiting' /\ ReturnedAfterConversion'
    BY <1>2, <2>2
       DEF HeartbeatInv, QueueIsTheWaiting, ReturnedAfterConversion, Beat, HoldsWriter
  <2> QED
    BY <2>2, <2>4, <2>5 DEF HeartbeatInv
<1>3. CASE Renew
  <2>1. writerQueue # <<>> /\ Head(writerQueue) = "heartbeat" /\ leaseTask = "renewing"
    BY <1>3 DEF Renew, HoldsWriter
  <2>2. /\ writerQueue' \in Seq(WriterTask)
        /\ ToSet(writerQueue') = ToSet(writerQueue) \ {"heartbeat"}
        /\ IsInjective(writerQueue')
    BY <1>3, <2>1, LeftQueue DEF HeartbeatInv, HeartbeatTypeOK, Renew
  <2>3. leaseTask' \in {"selecting", "awaiting"}
        /\ leaseResult' = leaseResult /\ leaseHeld' = leaseHeld
        /\ UNCHANGED <<conversion, storesLeft, beatsLeft>>
    BY <1>3 DEF Renew, LeaseLost
  <2>4. conversion # "in transaction"
    BY <2>1 DEF HeartbeatInv, QueueIsTheWaiting, HoldsWriter
  <2> QED
    BY <2>2, <2>3, <2>4
       DEF HeartbeatInv, HeartbeatTypeOK, QueueIsTheWaiting, ReturnedAfterConversion
<1>4. CASE ReturnLost
  BY <1>4 DEF HeartbeatInv, HeartbeatTypeOK, QueueIsTheWaiting, ReturnedAfterConversion,
              ReturnLost, HoldsWriter
<1> QED
  BY <1>1, <1>2, <1>3, <1>4 DEF LeaseTaskStep

LEMMA WriterStepInv ==
  ASSUME HeartbeatInv, RequestWrites \/ RequestDone
  PROVE  HeartbeatInv'
<1>1. CASE RequestWrites
  <2>1. /\ writerQueue' \in Seq(WriterTask)
        /\ ToSet(writerQueue') = ToSet(writerQueue) \cup {"request"}
        /\ IsInjective(writerQueue')
        /\ writerQueue # <<>> => Head(writerQueue') = Head(writerQueue)
        /\ writerQueue' # <<>>
    BY <1>1, JoinedQueue DEF HeartbeatInv, HeartbeatTypeOK, RequestWrites, WriterTask
  <2> QED
    BY <1>1, <2>1
       DEF HeartbeatInv, HeartbeatTypeOK, QueueIsTheWaiting, ReturnedAfterConversion,
           RequestWrites, HoldsWriter, WriterTask
<1>2. CASE RequestDone
  <2>1. writerQueue # <<>> /\ Head(writerQueue) = "request"
    BY <1>2 DEF RequestDone, HoldsWriter
  <2>2. /\ writerQueue' \in Seq(WriterTask)
        /\ ToSet(writerQueue') = ToSet(writerQueue) \ {"request"}
        /\ IsInjective(writerQueue')
    BY <1>2, <2>1, LeftQueue DEF HeartbeatInv, HeartbeatTypeOK, RequestDone
  <2>3. conversion # "in transaction"
    BY <2>1 DEF HeartbeatInv, QueueIsTheWaiting, HoldsWriter
  <2>4. leaseHeld' \in BOOLEAN
    BY <1>2 DEF HeartbeatInv, HeartbeatTypeOK, RequestDone
  <2> QED
    BY <1>2, <2>2, <2>3, <2>4
       DEF HeartbeatInv, HeartbeatTypeOK, QueueIsTheWaiting, ReturnedAfterConversion, RequestDone
<1> QED
  BY <1>1, <1>2

\* Every step keeps the invariant.
THEOREM HeartbeatInvariant == HeartbeatSpec => []HeartbeatInv
<1>1. HeartbeatInv /\ [HeartbeatNext]_heartbeatVars => HeartbeatInv'
  <2> SUFFICES ASSUME HeartbeatInv, [HeartbeatNext]_heartbeatVars  PROVE  HeartbeatInv'
    OBVIOUS
  <2>1. CASE UNCHANGED heartbeatVars
    BY <2>1 DEF heartbeatVars, HeartbeatInv, HeartbeatTypeOK, QueueIsTheWaiting,
                ReturnedAfterConversion, HoldsWriter
  <2> QED
    BY <2>1, ConversionStepInv, LeaseTaskStepInv, WriterStepInv DEF HeartbeatNext
<1> QED
  BY <1>1, HeartbeatInitInv, PTL DEF HeartbeatSpec

\* The writer's queue never holds a task twice (the types of LeaseHeartbeat).
THEOREM HeartbeatTypeCorrect == HeartbeatSpec => []HeartbeatTypeOK
<1>1. HeartbeatInv => HeartbeatTypeOK
  BY DEF HeartbeatInv
<1> QED
  BY <1>1, HeartbeatInvariant, PTL

\* No worker takes its next job while the conversion of the last one runs or
\* holds the writer connection: process_with_lease (worker/dif_assembly.rs).
THEOREM NoConversionLeft == HeartbeatSpec => []NoOrphanConversion
<1>1. HeartbeatInv => NoOrphanConversion
  BY DEF HeartbeatInv, QueueIsTheWaiting, ReturnedAfterConversion, NoOrphanConversion
<1> QED
  BY <1>1, HeartbeatInvariant, PTL

=============================================================================
