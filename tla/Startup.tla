------------------------------- MODULE Startup -------------------------------
(***************************************************************************)
(* serve (app/server.rs) up to its first request: the configuration, the   *)
(* opening of the database (app/database.rs) and its migrations            *)
(* (persistence/migrations.rs), and the socket.  Several processes start   *)
(* on one database file, and may die anywhere.  SQLite, as the code uses   *)
(* it: one writer at a time, who waits five seconds for another; a         *)
(* transaction that has read does not wait to write, it fails.             *)
(***************************************************************************)
EXTENDS Naturals, Configuration

CONSTANTS
  Server,      \* processes on one database
  NoServer,
  Env,         \* environments they may be started with
  MaxFaults    \* bound of the model: crashes and failing calls

ASSUME ServerAssumption == NoServer \notin Server
ASSUME EnvAssumption == Env \subseteq Environment
ASSUME FaultsAssumption == MaxFaults \in Nat

VARIABLES
  proc,    \* the progress of each process
  env,     \* what it was started with
  db,      \* the database, as committed
  writer,  \* the process that holds the write lock
  draft,   \* the database as the writer sees it
  faults   \* crashes and failing calls still to come

startVars == <<proc, env, db, writer, draft, faults>>
----
LatestVersion == 2
Version == 1..LatestVersion
VersionTable == "schema_migrations"
CreatedBy(v) ==
  IF v = 1 THEN {"download_cache"} ELSE {"auth_sessions", "oidc_pending_flows"}
Table == {VersionTable} \cup UNION {CreatedBy(v) : v \in Version}
Database == [tables : SUBSET Table, versions : SUBSET Version]

Phase ==
  {"configuring", "opening", "versioning", "reading", "binding", "serving", "exited"}
Migrating == [pc : {"creating", "recording", "committing"}, version : Version]
Proc == [pc : Phase] \cup Migrating

\* New; of the release before; and half way to this one, as the tests have it.
OldDatabase ==
  {[tables |-> {}, versions |-> {}],
   [tables |-> {VersionTable, "download_cache"}, versions |-> {1}],
   [tables |-> {VersionTable, "download_cache", "auth_sessions"}, versions |-> {1}]}

Init ==
  /\ proc = [i \in Server |-> [pc |-> "configuring"]]
  /\ env \in [Server -> Env]
  /\ db \in OldDatabase
  /\ writer = NoServer
  /\ draft = db
  /\ faults = MaxFaults

At(i, pc) == proc[i].pc = pc
Goto(i, p) == proc' = [proc EXCEPT ![i] = p]
WriterElse(i) == writer \notin {i, NoServer}

\* A process in a transaction that has only read yet.
ReadLocked(i) == At(i, "recording") /\ writer # i
----
\* Config::from_env.
Configure(i) ==
  /\ At(i, "configuring")
  /\ Goto(i, [pc |-> IF Accepted(env[i]) THEN "opening" ELSE "exited"])
  /\ UNCHANGED <<env, db, writer, draft, faults>>

\* Directories and the connection.
Open(i) ==
  /\ At(i, "opening")
  /\ Goto(i, [pc |-> "versioning"])
  /\ UNCHANGED <<env, db, writer, draft, faults>>

\* migrate: the version table, in a transaction of its own.
CreateVersions(i) ==
  /\ At(i, "versioning")
  /\ VersionTable \in db.tables \/ writer = NoServer
  /\ db' = [db EXCEPT !.tables = @ \cup {VersionTable}]
  /\ Goto(i, [pc |-> "reading"])
  /\ UNCHANGED <<env, writer, draft, faults>>

\* Mutant: a database without a recorded version is taken for a current one.
NextOnlyOne(versions) ==
  IF versions = {1} THEN [pc |-> "creating", version |-> 2] ELSE [pc |-> "binding"]

\* The first migration that is due after those recorded.
NextAfter(versions) ==
  IF 2 \in versions THEN [pc |-> "binding"]
  ELSE [pc |-> "creating", version |-> IF 1 \in versions THEN 2 ELSE 1]

\* current_version: SELECT MAX(version).
ReadVersion(i) ==
  /\ At(i, "reading")
  /\ Goto(i, NextAfter(db.versions))
  /\ UNCHANGED <<env, db, writer, draft, faults>>

\* Mutant: CREATE TABLE without IF NOT EXISTS.
CreateNew(i) ==
  /\ At(i, "creating")
  /\ writer = NoServer
  /\ LET noneThere == CreatedBy(proc[i].version) \cap db.tables = {}
     IN IF noneThere
        THEN /\ writer' = i
             /\ draft' = [db EXCEPT !.tables = @ \cup CreatedBy(proc[i].version)]
             /\ Goto(i, [proc[i] EXCEPT !.pc = "recording"])
        ELSE /\ Goto(i, [pc |-> "exited"])
             /\ UNCHANGED <<writer, draft>>
  /\ UNCHANGED <<env, db, faults>>

\* apply_migration: BEGIN, and the tables; nothing is written when they exist.
Create(i) ==
  /\ At(i, "creating")
  /\ Goto(i, [proc[i] EXCEPT !.pc = "recording"])
  /\ LET tables == CreatedBy(proc[i].version)
     IN IF tables \subseteq db.tables THEN UNCHANGED <<writer, draft>>
        ELSE /\ writer = NoServer
             /\ writer' = i
             /\ draft' = [db EXCEPT !.tables = @ \cup tables]
  /\ UNCHANGED <<env, db, faults>>

\* Mutant: the record is a transaction of its own, before that of the tables.
RecordCommitted(i) ==
  /\ At(i, "recording")
  /\ ~WriterElse(i)
  /\ writer' = i
  /\ db' = [db EXCEPT !.versions = @ \cup {proc[i].version}]
  /\ draft' = [(IF writer = i THEN draft ELSE db) EXCEPT !.versions = @ \cup {proc[i].version}]
  /\ Goto(i, [proc[i] EXCEPT !.pc = "committing"])
  /\ UNCHANGED <<env, faults>>

\* record_migration: INSERT OR IGNORE.  After the tables were only looked at, this is where
\* the transaction wants to write.
Record(i) ==
  /\ At(i, "recording")
  /\ IF WriterElse(i)
     THEN /\ Goto(i, [pc |-> "exited"])
          /\ UNCHANGED <<writer, draft>>
     ELSE /\ writer' = i
          /\ draft' = [(IF writer = i THEN draft ELSE db)
                         EXCEPT !.versions = @ \cup {proc[i].version}]
          /\ Goto(i, [proc[i] EXCEPT !.pc = "committing"])
  /\ UNCHANGED <<env, db, faults>>

\* Mutant: it always goes on to the next version.
CommitOn(i) ==
  /\ At(i, "committing")
  /\ \A j \in Server \ {i} : ~ReadLocked(j)
  /\ db' = draft
  /\ writer' = NoServer
  /\ draft' = draft
  /\ Goto(i, [pc |-> "creating", version |-> proc[i].version + 1])
  /\ UNCHANGED <<env, faults>>

\* COMMIT, once no transaction reads; then the next migration, or the socket.
Commit(i) ==
  /\ At(i, "committing")
  /\ \A j \in Server \ {i} : ~ReadLocked(j)
  /\ db' = draft
  /\ writer' = NoServer
  /\ draft' = draft
  /\ Goto(i, IF proc[i].version < LatestVersion
             THEN [pc |-> "creating", version |-> proc[i].version + 1]
             ELSE [pc |-> "binding"])
  /\ UNCHANGED <<env, faults>>

\* SQLite gives up waiting for another writer, and so does the process.
Busy(i) ==
  /\ \/ At(i, "versioning") /\ VersionTable \notin db.tables
     \/ At(i, "creating") /\ ~(CreatedBy(proc[i].version) \subseteq db.tables)
  /\ WriterElse(i)
  /\ Goto(i, [pc |-> "exited"])
  /\ UNCHANGED <<env, db, writer, draft, faults>>

\* The address is parsed and bound; the service listens.
Bind(i) ==
  /\ At(i, "binding")
  /\ Goto(i, [pc |-> IF env[i].bindParses THEN "serving" ELSE "exited"])
  /\ UNCHANGED <<env, db, writer, draft, faults>>

Step(i) ==
  Configure(i) \/ Open(i) \/ CreateVersions(i) \/ ReadVersion(i) \/ Create(i) \/ Record(i)
  \/ Commit(i) \/ Busy(i) \/ Bind(i)

\* A call fails and serve returns its error, or the process is killed: a transaction that
\* was open is rolled back.
Die(i) ==
  /\ faults > 0
  /\ ~At(i, "exited")
  /\ faults' = faults - 1
  /\ Goto(i, [pc |-> "exited"])
  /\ writer' = IF writer = i THEN NoServer ELSE writer
  /\ UNCHANGED <<env, db, draft>>

\* A service that listens is stopped.
Stop(i) ==
  /\ At(i, "serving")
  /\ Goto(i, [pc |-> "exited"])
  /\ UNCHANGED <<env, db, writer, draft, faults>>

\* Somebody starts it again.
StartAgain(i) ==
  /\ At(i, "exited")
  /\ Goto(i, [pc |-> "configuring"])
  /\ UNCHANGED <<env, db, writer, draft, faults>>

Next == \E i \in Server : Step(i) \/ Die(i) \/ Stop(i) \/ StartAgain(i)

Spec == Init /\ [][Next]_startVars

\* A process that runs takes its steps; nobody has to start it again.
FairSpec == Spec /\ \A i \in Server : WF_startVars(Step(i))
----
(***************************************************************************)
(* Properties.                                                             *)
(***************************************************************************)
TypeOK ==
  /\ proc \in [Server -> Proc]
  /\ env \in [Server -> Environment]
  /\ db \in Database
  /\ writer \in Server \cup {NoServer}
  /\ draft \in Database
  /\ faults \in 0..MaxFaults

\* A recorded version means its tables are there, whoever else migrates and wherever a
\* process died: a migration is not skipped on the word of a record that outran it.
RecordedMeansCreated ==
  \A v \in db.versions : \A w \in 1..v : CreatedBy(w) \subseteq db.tables

\* However many processes migrate one database, and wherever they die, it changes as if one
\* of them applied each migration at once, in order, with its record, and never again.
Schema == INSTANCE SchemaLife
MigratesAtomically == Schema!Spec

\* A process that serves finds every table that its handlers use.
ServesOnFullSchema ==
  (\E i \in Server : At(i, "serving")) => db.tables = Table /\ db.versions = Version

\* Processes that migrate one database at the same time may make each other give up, but
\* not all of them: where whoever opens the database could also serve, one of them does,
\* unless a process dies.
SomebodyServes ==
  (/\ \E i \in Server : Accepted(env[i])
   /\ \A i \in Server : Accepted(env[i]) => env[i].bindParses)
    => <>(faults < MaxFaults \/ \E i \in Server : At(i, "serving"))
=============================================================================
