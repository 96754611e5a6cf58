------------------------------- MODULE Schema -------------------------------
(***************************************************************************)
(* The coordinator's database schema: the migration plan, the two          *)
(* migrators and the check a serving replica makes before it opens its     *)
(* listeners (blaktail-coord/src/lib.rs, Store).                           *)
(*                                                                         *)
(* A release supports the schema version of its own number.  SQLite        *)
(* records one number and takes one transaction per version; PostgreSQL    *)
(* records a row per version and takes one transaction under an advisory   *)
(* lock.  The statements of version v are in the database when v is in     *)
(* `statements`.                                                           *)
(***************************************************************************)
EXTENDS Naturals, FiniteSetsExt

CONSTANTS
  Latest,          \* the newest release
  Plain,           \* versions whose SQL adds a column and fails when repeated
  MigrateJobs,     \* processes that may run `blaktail-coord migrate`
  ServeReplicas,
  OldNodes,        \* names of the nodes of an old database, in order of creation
  MaxMigrateJobs,  \* jobs started in a behaviour
  MaxSqliteJobs    \* jobs at work on one SQLite file

ASSUME SchemaAssumption ==
  /\ Latest \in Nat \ {0} /\ Plain \subseteq 2..Latest
  /\ MaxMigrateJobs \in Nat /\ MaxSqliteJobs \in Nat
  /\ IsFiniteSet(MigrateJobs) /\ DOMAIN OldNodes \subseteq Nat \ {0}

Releases == 1..Latest
OldNode == DOMAIN OldNodes

VARIABLES
  backend,      \* DatabaseBackend
  userVersion,  \* PRAGMA user_version
  recorded,     \* versions in coordinator_schema_migrations
  statements,
  dnsName,      \* dns_name of each node, <<label, suffix>>
  job,          \* each job: its release and the version it has applied, or nothing
  replica,      \* release each serving replica opened the database with, or 0
  jobsRun

schemaVars == <<backend, userVersion, recorded, statements, dnsName, job, replica, jobsRun>>

NoJobNow == [release |-> 0, applied |-> 0]

-----------------------------------------------------------------------------
(* normalise_dns_names(): in order of creation, the base name, or the base *)
(* with a suffix of the node's own when an earlier node has it.            *)
Normalised == [n \in OldNode |->
  <<OldNodes[n], IF \E m \in 1..(n - 1) : OldNodes[m] = OldNodes[n] THEN n ELSE 0>>]

(* MIGRATIONS: version v is the one after v - 1, and none is left out.     *)
Plan(from, to) == {v \in 1..to : v > from}

(* migrate_sqlite_to_v2() and its like only use ensure_column() and CREATE *)
(* ... IF NOT EXISTS.                                                      *)
Repeatable(v) == v \notin Plain
(* ensure_column() skips a column that is there; a plain ALTER TABLE fails. *)
Applies(v) == Repeatable(v) \/ v \notin statements

(* validate_schema_version(): PostgreSQL's rows must be contiguous.        *)
Contiguous == recorded = 1..Cardinality(recorded)
SchemaVersion == IF backend = "sqlite" THEN userVersion ELSE Cardinality(recorded)
(* Mutant: any version the release knows is accepted.                      *)
ValidSchemaOrOlder(release) == SchemaVersion <= release
ValidSchema(release) == (backend = "postgres" => Contiguous) /\ SchemaVersion = release

-----------------------------------------------------------------------------
(* A database some earlier release left, or one from before the runner,    *)
(* which has no version and may hold the tables of version one.            *)
SchemaInit ==
  /\ backend \in {"sqlite", "postgres"}
  /\ \E v \in 0..Latest :
       /\ userVersion = (IF backend = "sqlite" THEN v ELSE 0)
       /\ recorded = (IF backend = "sqlite" THEN {} ELSE 1..v)
       /\ statements = 1..v
       /\ dnsName = (IF v = 0 THEN [n \in OldNode |-> <<"", 0>>] ELSE Normalised)
  /\ job = [j \in MigrateJobs |-> NoJobNow]
  /\ replica = [r \in ServeReplicas |-> 0]
  /\ jobsRun = 0

Starts(j, release) ==
  /\ job[j] = NoJobNow /\ jobsRun < MaxMigrateJobs /\ jobsRun' = jobsRun + 1
  /\ SchemaVersion <= release

(* apply_sqlite_migrations(): the version is read outside any transaction. *)
SqliteBegin(j, release) ==
  /\ backend = "sqlite" /\ Starts(j, release)
  /\ Cardinality({k \in MigrateJobs : job[k] # NoJobNow}) < MaxSqliteJobs
  /\ job' = [job EXCEPT ![j] = [release |-> release, applied |-> userVersion]]
  /\ UNCHANGED <<backend, userVersion, recorded, statements, dnsName, replica>>

(* One version: its statements and its number in one transaction.          *)
SqliteVersion(j) ==
  /\ job[j].release > job[j].applied
  /\ LET v == job[j].applied + 1 IN
       /\ Applies(v) /\ userVersion' = v
       /\ statements' = statements \cup {v}
       /\ dnsName' = IF v = 1 THEN Normalised ELSE dnsName
       /\ job' = [job EXCEPT ![j].applied = v]
  /\ UNCHANGED <<backend, recorded, replica, jobsRun>>

(* The job is done, its statement failed, or the process was killed: an    *)
(* open transaction is rolled back.                                        *)
SqliteEnd(j) ==
  /\ job[j] # NoJobNow /\ job' = [job EXCEPT ![j] = NoJobNow]
  /\ UNCHANGED <<backend, userVersion, recorded, statements, dnsName, replica, jobsRun>>

(* apply_postgres_migrations(): the rows are read under the lock and all   *)
(* that is missing is applied in the same transaction.                     *)
PostgresMigrate(j, release) ==
  /\ backend = "postgres" /\ Starts(j, release) /\ Contiguous
  /\ LET missing == Plan(SchemaVersion, release) IN
       /\ \A v \in missing : Applies(v)
       /\ statements' = statements \cup missing /\ recorded' = recorded \cup missing
       /\ dnsName' = IF 1 \in missing THEN Normalised ELSE dnsName
  /\ UNCHANGED <<backend, userVersion, job, replica>>

(* Store::open_existing() and open_existing_postgres().                    *)
OpenExisting(r, release) ==
  /\ replica[r] = 0 /\ ValidSchema(release)
  /\ replica' = [replica EXCEPT ![r] = release]
  /\ UNCHANGED <<backend, userVersion, recorded, statements, dnsName, job, jobsRun>>
StopReplica(r) ==
  /\ replica[r] # 0 /\ replica' = [replica EXCEPT ![r] = 0]
  /\ UNCHANGED <<backend, userVersion, recorded, statements, dnsName, job, jobsRun>>

SchemaNext ==
  \/ \E j \in MigrateJobs, release \in Releases : SqliteBegin(j, release) \/ PostgresMigrate(j, release)
  \/ \E j \in MigrateJobs : SqliteVersion(j) \/ SqliteEnd(j)
  \/ \E r \in ServeReplicas, release \in Releases : OpenExisting(r, release)
  \/ \E r \in ServeReplicas : StopReplica(r)

SchemaSpec == SchemaInit /\ [][SchemaNext]_schemaVars

-----------------------------------------------------------------------------
(* A job that stops at any point leaves the statements of exactly the      *)
(* versions the database records.                                          *)
LastCompleteVersion == statements = 1..SchemaVersion

(* A replica that passed the check finds every table and column of its     *)
(* release, and no two nodes of an old database with one DNS name, also    *)
(* while a newer release migrates under it.                                *)
ServedSchemaIsThere ==
  \A r \in ServeReplicas : replica[r] # 0 =>
    /\ 1..replica[r] \subseteq statements
    /\ \A m, n \in OldNode : m # n => dnsName[m] # dnsName[n]

(* A database is always at a complete version, and served only when it is  *)
(* the right one.                                                          *)
SchemaInv == LastCompleteVersion /\ ServedSchemaIsThere
=============================================================================
