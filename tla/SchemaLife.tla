----------------------------- MODULE SchemaLife -----------------------------
(***************************************************************************)
(* What migrate (persistence/migrations.rs) promises of the database, as   *)
(* everybody who opens it sees it: the version table appears, then one     *)
(* migration after the other, each at once with its record, and none       *)
(* twice.  Nothing is ever taken back.                                     *)
(***************************************************************************)
EXTENDS Naturals

CONSTANTS
  Version,       \* the migrations
  VersionTable,  \* where they are recorded
  CreatedBy(_),  \* the tables of each
  OldDatabase    \* the databases that are met with

VARIABLE db  \* the tables there are, and the versions that are recorded

Init == db \in OldDatabase

CreateVersions == db' = [db EXCEPT !.tables = @ \cup {VersionTable}]

Migrate(v) ==
  /\ VersionTable \in db.tables
  /\ v \notin db.versions
  /\ \A w \in Version : w < v => w \in db.versions
  /\ db' = [tables |-> db.tables \cup CreatedBy(v), versions |-> db.versions \cup {v}]

Next == CreateVersions \/ \E v \in Version : Migrate(v)

Spec == Init /\ [][Next]_db
=============================================================================
