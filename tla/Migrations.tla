----------------------------- MODULE Migrations -----------------------------
(***************************************************************************)
(* Start-up of the database: DbPool::init and run_migrations (db/pool.rs). *)
(*                                                                         *)
(* Each migration runs in one write transaction with its version marker.   *)
(* A process that fails or dies in it exits; its successor, or a second    *)
(* process that was started meanwhile, begins with the version it reads.   *)
(***************************************************************************)
EXTENDS Integers, FiniteSets, Sequences, SequencesExt

CONSTANTS
  StartingServer, \* processes that open the database
  Statements,     \* Statements[v]: number of statements of migration v
  MaxStartFaults  \* bound: failing statements and crashes

Versions == DOMAIN Statements
NoWriter == "none"
NotRead == -1

MigrationAssumption ==
  /\ Statements \in Seq(Nat \ {0})
  /\ NoWriter \notin StartingServer
  /\ MaxStartFaults \in Nat
ASSUME MigrationAssumption

VARIABLES
  schema,      \* committed statements <<version, number>>, in order
  markers,     \* the rows of _migrations
  txOwner,     \* the process in a write transaction, or NoWriter
  txSchema,    \* what the transaction has executed
  start,       \* start[s]: [step, version]
  startFaults

migrationVars == <<schema, markers, txOwner, txSchema, start, startFaults>>

LastVersion(versions) ==
  CHOOSE v \in versions \cup {0} : \A u \in versions \cup {0} : u <= v

MigrationTypeOK ==
  /\ \A i \in DOMAIN schema : schema[i][1] \in Versions
  /\ markers \subseteq Versions
  /\ txOwner \in StartingServer \cup {NoWriter}
  /\ start \in [StartingServer -> [step : {"down", "checked", "migrate", "statements", "serving"},
                                   version : Versions \cup {0, Len(Statements) + 1, NotRead}]]
  /\ startFaults \in 0..MaxStartFaults

MigrationInit ==
  /\ schema = <<>>
  /\ markers = {}
  /\ txOwner = NoWriter
  /\ txSchema = <<>>
  /\ start = [s \in StartingServer |-> [step |-> "down", version |-> NotRead]]
  /\ startFaults = 0

\* The pools connect and the write-ahead log is checkpointed; SQLite has rolled
\* back what a dead process left open.
OpenDatabase(s) ==
  /\ start[s].step = "down"
  /\ start' = [start EXCEPT ![s].step = "checked"]
  /\ UNCHANGED <<schema, markers, txOwner, txSchema, startFaults>>

\* current_version is read once, outside of any transaction.
ReadVersion(s) ==
  /\ start[s].step = "checked"
  /\ start' = [start EXCEPT ![s] = [step |-> "migrate", version |-> LastVersion(markers) + 1]]
  /\ UNCHANGED <<schema, markers, txOwner, txSchema, startFaults>>

BeginMigration(s) ==
  /\ start[s].step = "migrate"
  /\ start[s].version \in Versions
  /\ txOwner = NoWriter
  /\ txOwner' = s
  /\ txSchema' = <<>>
  /\ start' = [start EXCEPT ![s].step = "statements"]
  /\ UNCHANGED <<schema, markers, startFaults>>

\* A statement that another process has committed already may fail (a CREATE) or
\* not (an UPDATE or an INSERT OR IGNORE).
ExecuteStatement(s) ==
  /\ start[s].step = "statements"
  /\ Len(txSchema) < Statements[start[s].version]
  /\ txSchema' = Append(txSchema, <<start[s].version, Len(txSchema) + 1>>)
  /\ UNCHANGED <<schema, markers, txOwner, start, startFaults>>

Exit(s) ==
  /\ start' = [start EXCEPT ![s] = [step |-> "down", version |-> NotRead]]
  /\ txOwner' = IF txOwner = s THEN NoWriter ELSE txOwner
  /\ txSchema' = IF txOwner = s THEN <<>> ELSE txSchema

CommitUnchecked(s) == \* mutant: a marker that is there is replaced
  LET v == start[s].version IN
  /\ start[s].step = "statements"
  /\ Len(txSchema) = Statements[v]
  /\ schema' = schema \o txSchema
  /\ markers' = markers \cup {v}
  /\ txOwner' = NoWriter
  /\ txSchema' = <<>>
  /\ start' = [start EXCEPT ![s] = [step |-> "migrate", version |-> v + 1]]
  /\ UNCHANGED startFaults

\* The marker is inserted in the same transaction; its primary key refuses a
\* version another process has migrated to, and nothing is committed.
CommitMigration(s) ==
  LET v == start[s].version IN
  /\ start[s].step = "statements"
  /\ Len(txSchema) = Statements[v]
  /\ IF v \in markers
     THEN Exit(s) /\ UNCHANGED <<schema, markers>>
     ELSE /\ schema' = schema \o txSchema
          /\ markers' = markers \cup {v}
          /\ txOwner' = NoWriter
          /\ txSchema' = <<>>
          /\ start' = [start EXCEPT ![s] = [step |-> "migrate", version |-> v + 1]]
  /\ UNCHANGED startFaults

Serve(s) ==
  /\ start[s].step = "migrate"
  /\ start[s].version \notin Versions
  /\ start' = [start EXCEPT ![s].step = "serving"]
  /\ UNCHANGED <<schema, markers, txOwner, txSchema, startFaults>>

\* A statement fails because it was executed before.
StatementConflicts(s) ==
  /\ start[s].step = "statements"
  /\ Len(txSchema) < Statements[start[s].version]
  /\ start[s].version \in markers
  /\ Exit(s)
  /\ UNCHANGED <<schema, markers, startFaults>>

\* The disk is full or read-only, the write transaction stays busy for longer
\* than the timeout, or the process is killed: init returns an error or never
\* returns, the transaction is rolled back and the process is gone.
StartFails(s) ==
  /\ start[s].step # "down"
  /\ startFaults < MaxStartFaults
  /\ startFaults' = startFaults + 1
  /\ Exit(s)
  /\ UNCHANGED <<schema, markers>>

MigrationNext ==
  \E s \in StartingServer :
    \/ OpenDatabase(s) \/ ReadVersion(s) \/ BeginMigration(s) \/ ExecuteStatement(s)
    \/ CommitMigration(s) \/ Serve(s) \/ StatementConflicts(s) \/ StartFails(s)

MigrationSpec == MigrationInit /\ [][MigrationNext]_migrationVars

------------------------------------------------------------------------------
(* Properties.                                                             *)

\* What is committed is exactly the migrations that are marked, which are the
\* first ones, each executed once, in order and completely - after crashes in
\* the middle of one and with two processes migrating at once.
SchemaMatchesMarkers ==
  /\ markers = 1..LastVersion(markers)
  /\ \A i, j \in DOMAIN schema : schema[i] = schema[j] => i = j
  /\ \A i, j \in DOMAIN schema : i < j =>
       \/ schema[i][1] < schema[j][1]
       \/ schema[i][1] = schema[j][1] /\ schema[i][2] < schema[j][2]
  /\ \A v \in Versions : \A i \in 1..Statements[v] :
       v \in markers <=> <<v, i>> \in ToSet(schema)

\* No process serves requests before every statement of every migration is
\* committed, whichever process ran it and however often one died on the way.
ServesCurrentSchema ==
  \A s \in StartingServer : start[s].step = "serving" =>
    \A v \in Versions : \A i \in 1..Statements[v] : <<v, i>> \in ToSet(schema)

\* However many processes start, fail and die: the committed schema is that of the
\* markers, and a process that serves does so on the current one.
SchemaSound == SchemaMatchesMarkers /\ ServesCurrentSchema
=============================================================================
