---------------------------- MODULE Startup_proofs ----------------------------
(***************************************************************************)
(* Proofs about Startup: however many processes start on one database,     *)
(* with whatever environments, and wherever they die.                      *)
(***************************************************************************)
EXTENDS Startup, TLAPS

\* The versions of a database are recorded in their order, each with its tables.
Sound(d) ==
  /\ 2 \in d.versions => 1 \in d.versions
  /\ \A v \in d.versions : CreatedBy(v) \subseteq d.tables

Extends(d, c) == c.tables \subseteq d.tables /\ c.versions \subseteq d.versions

\* The draft of a writer adds to what is committed.
WriterInv ==
  writer # NoServer =>
    /\ proc[writer].pc \in {"recording", "committing"}
    /\ Sound(draft)
    /\ Extends(draft, db)
    /\ CreatedBy(proc[writer].version) \subseteq draft.tables
    /\ At(writer, "committing") => proc[writer].version \in draft.versions

\* What a process knows of the database from its own progress.
ProgressInv(i) ==
  /\ proc[i].pc \notin {"configuring", "exited"} => Accepted(env[i])
  /\ proc[i].pc \in {"reading", "creating", "recording", "committing", "binding", "serving"} =>
       VersionTable \in db.tables
  /\ proc[i].pc \in {"creating", "recording", "committing"} /\ proc[i].version = 2 =>
       1 \in db.versions
  /\ At(i, "recording") /\ writer # i => CreatedBy(proc[i].version) \subseteq db.tables
  /\ At(i, "committing") => writer = i
  /\ proc[i].pc \in {"binding", "serving"} => 2 \in db.versions

StartInv ==
  /\ TypeOK
  /\ Sound(db)
  /\ WriterInv
  /\ \A i \in Server : ProgressInv(i)

LEMMA Versions == Version = {1, 2}
  BY DEF Version, LatestVersion

LEMMA Tables ==
  Table = {VersionTable, "download_cache", "auth_sessions", "oidc_pending_flows"}
  BY Versions DEF Table, CreatedBy

LEMMA StartInit == Init => StartInv
<1> SUFFICES ASSUME Init PROVE StartInv
  OBVIOUS
<1>1. db \in Database
  BY Versions, Tables DEF Init, OldDatabase, Database
<1>2. Sound(db)
  BY DEF Init, OldDatabase, Sound, CreatedBy
<1>3. TypeOK
  BY <1>1, EnvAssumption, FaultsAssumption DEF Init, TypeOK, Proc, Phase
<1>4. WriterInv /\ \A i \in Server : ProgressInv(i)
  BY DEF Init, WriterInv, ProgressInv, At
<1> QED BY <1>1, <1>2, <1>3, <1>4 DEF StartInv

\* A process that holds no lock moves, and nothing else does.
LEMMA Moves ==
  ASSUME StartInv, NEW i \in Server, NEW p \in Proc, Goto(i, p), writer # i,
         UNCHANGED <<env, db, writer, draft>>, faults' \in 0..MaxFaults, ProgressInv(i)'
  PROVE  StartInv'
<1>1. TypeOK'
  BY DEF StartInv, TypeOK, Goto
<1>2. \A j \in Server : j # i => proc'[j] = proc[j]
  BY DEF StartInv, TypeOK, Goto
<1>3. Sound(db)'
  BY DEF StartInv, Sound
<1>4. WriterInv'
  BY <1>2 DEF StartInv, WriterInv, TypeOK, Sound, Extends, At
<1>5. ASSUME NEW j \in Server PROVE ProgressInv(j)'
  <2>1. CASE j = i
    BY <2>1
  <2>2. CASE j # i
    BY <1>2, <2>2 DEF StartInv, ProgressInv, At
  <2> QED BY <2>1, <2>2
<1> QED BY <1>1, <1>3, <1>4, <1>5 DEF StartInv

\* The version table appears while nobody writes.
LEMMA VersionsCreated ==
  ASSUME StartInv, NEW i \in Server, CreateVersions(i)
  PROVE  StartInv'
<1> USE DEF StartInv
<1>1. proc'[i] = [pc |-> "reading"] /\ \A j \in Server : j # i => proc'[j] = proc[j]
  BY DEF CreateVersions, Goto, TypeOK
<1>2. /\ db' \in Database /\ VersionTable \in db'.tables
      /\ db'.versions = db.versions /\ db.tables \subseteq db'.tables
      /\ VersionTable \in db.tables => db' = db
  BY DEF CreateVersions, TypeOK, Database, Table
<1>3. TypeOK'
  BY <1>2 DEF CreateVersions, TypeOK, Goto, Proc, Phase
<1>4. Sound(db)'
  BY <1>2 DEF Sound
<1>5. WriterInv'
  <2>1. CASE writer = NoServer
    BY <2>1 DEF CreateVersions, WriterInv
  <2>2. CASE writer # NoServer
    <3>1. db' = db /\ writer # i /\ writer \in Server
      BY <1>2, <2>2 DEF CreateVersions, WriterInv, At, TypeOK
    <3> QED BY <1>1, <3>1 DEF CreateVersions, WriterInv, Sound, Extends, At
  <2> QED BY <2>1, <2>2
<1>6. ASSUME NEW j \in Server PROVE ProgressInv(j)'
  <2>1. CASE j = i
    BY <1>1, <1>2, <2>1 DEF CreateVersions, ProgressInv, At
  <2>2. CASE j # i
    BY <1>1, <1>2, <2>2 DEF CreateVersions, ProgressInv, At
  <2> QED BY <2>1, <2>2
<1> QED BY <1>3, <1>4, <1>5, <1>6

\* A writer starts its draft from what is committed.
LEMMA TablesDrafted ==
  ASSUME StartInv, NEW i \in Server, Create(i), ~(CreatedBy(proc[i].version) \subseteq db.tables)
  PROVE  StartInv'
<1> USE DEF StartInv
<1> DEFINE v == proc[i].version
<1>1. /\ proc[i] \in Migrating /\ v \in Version /\ proc[i].pc = "creating"
      /\ proc'[i] = [pc |-> "recording", version |-> v]
      /\ \A j \in Server : j # i => proc'[j] = proc[j]
  BY DEF Create, Goto, TypeOK, At, Proc, Phase, Migrating
<1>2. /\ writer = NoServer /\ writer' = i /\ i # NoServer
      /\ draft'.tables = db.tables \cup CreatedBy(v)
      /\ draft'.versions = db.versions
      /\ draft' \in Database
  BY <1>1, ServerAssumption DEF Create, TypeOK, Database, Table
<1>3. TypeOK'
  BY <1>1, <1>2 DEF Create, TypeOK, Goto, Proc, Migrating
<1>4. Sound(db)'
  BY DEF Create, Sound
<1>5. WriterInv'
  BY <1>1, <1>2 DEF Create, WriterInv, Sound, Extends, At
<1>6. ASSUME NEW j \in Server PROVE ProgressInv(j)'
  <2>1. CASE j = i
    BY <1>1, <1>2, <2>1 DEF Create, ProgressInv, At
  <2>2. CASE j # i
    BY <1>1, <1>2, <2>2, ServerAssumption DEF Create, ProgressInv, At
  <2> QED BY <2>1, <2>2
<1> QED BY <1>3, <1>4, <1>5, <1>6

\* The record joins the tables in the draft, whether this process created them or found them.
LEMMA VersionDrafted ==
  ASSUME StartInv, NEW i \in Server, Record(i), ~WriterElse(i)
  PROVE  StartInv'
<1> USE DEF StartInv
<1> DEFINE v == proc[i].version
<1>1. /\ proc[i] \in Migrating /\ v \in Version /\ proc[i].pc = "recording"
      /\ proc'[i] = [pc |-> "committing", version |-> v]
      /\ \A j \in Server : j # i => proc'[j] = proc[j]
  BY DEF Record, Goto, TypeOK, At, Proc, Phase, Migrating
<1>2. PICK d \in Database :
        /\ d = IF writer = i THEN draft ELSE db
        /\ draft' = [d EXCEPT !.versions = @ \cup {v}]
  BY DEF Record, TypeOK
<1>3. /\ writer' = i /\ i # NoServer /\ db' = db /\ env' = env
      /\ draft'.tables = d.tables /\ draft'.versions = d.versions \cup {v}
      /\ draft' \in Database
  BY <1>1, <1>2, ServerAssumption DEF Record, Database
<1>4. Sound(d) /\ Extends(d, db) /\ CreatedBy(v) \subseteq d.tables
  BY <1>1, <1>2, <1>3 DEF WriterInv, ProgressInv, Extends, At
<1>5. 2 = v => 1 \in d.versions
  BY <1>1, <1>4 DEF ProgressInv, Extends
<1>6. Sound(draft') /\ Extends(draft', db)
  BY <1>3, <1>4, <1>5 DEF Sound, Extends
<1>7. TypeOK'
  BY <1>1, <1>3 DEF Record, TypeOK, Goto, Proc, Migrating
<1>8. WriterInv'
  BY <1>1, <1>3, <1>4, <1>6 DEF WriterInv, Sound, Extends, At
<1>9. ASSUME NEW j \in Server PROVE ProgressInv(j)'
  <2>1. CASE j = i
    BY <1>1, <1>3, <2>1 DEF ProgressInv, At
  <2>2. CASE j # i
    BY <1>1, <1>3, <2>2, ServerAssumption DEF ProgressInv, WriterElse, At
  <2> QED BY <2>1, <2>2
<1> QED BY <1>3, <1>7, <1>8, <1>9 DEF Sound

\* A commit only adds to the database, and leaves the next process a sound one.
LEMMA DraftCommitted ==
  ASSUME StartInv, NEW i \in Server, Commit(i)
  PROVE  StartInv'
<1> USE DEF StartInv
<1> DEFINE v == proc[i].version
<1>1. /\ proc[i] \in Migrating /\ v \in Version /\ proc[i].pc = "committing"
      /\ \A j \in Server : j # i => proc'[j] = proc[j]
  BY DEF Commit, Goto, TypeOK, At, Proc, Phase, Migrating
<1>2. /\ db' = draft /\ writer' = NoServer /\ env' = env /\ draft' = draft
      /\ writer = i /\ i # NoServer
  BY ServerAssumption DEF Commit, ProgressInv, At
<1>3. Sound(draft) /\ Extends(draft, db) /\ v \in draft.versions
  BY <1>2 DEF WriterInv, ProgressInv, Commit
<1>4. \/ v = 1 /\ proc'[i] = [pc |-> "creating", version |-> 2]
      \/ v = 2 /\ proc'[i] = [pc |-> "binding"]
  BY <1>1, Versions DEF Commit, Goto, TypeOK, LatestVersion
<1>5. TypeOK'
  BY <1>2, <1>4, Versions DEF Commit, TypeOK, Goto, Proc, Phase, Migrating
<1>6. WriterInv' /\ Sound(db)'
  BY <1>2, <1>3 DEF WriterInv, Sound
<1>7. ASSUME NEW j \in Server PROVE ProgressInv(j)'
  <2>1. CASE j = i
    BY <1>1, <1>2, <1>3, <1>4, <2>1 DEF ProgressInv, Extends, At
  <2>2. CASE j # i
    BY <1>1, <1>2, <1>3, <2>2 DEF Commit, ProgressInv, ReadLocked, Extends, At
  <2> QED BY <2>1, <2>2
<1> QED BY <1>5, <1>6, <1>7

\* A process that dies takes its draft with it.
LEMMA Dies ==
  ASSUME StartInv, NEW i \in Server, Die(i)
  PROVE  StartInv'
<1> USE DEF StartInv
<1>1. proc'[i] = [pc |-> "exited"] /\ \A j \in Server : j # i => proc'[j] = proc[j]
  BY DEF Die, Goto, TypeOK
<1>2. TypeOK'
  BY FaultsAssumption DEF Die, TypeOK, Goto, Proc, Phase
<1>3. WriterInv' /\ Sound(db)'
  BY <1>1 DEF Die, WriterInv, Sound, Extends, At, TypeOK
<1>4. ASSUME NEW j \in Server PROVE ProgressInv(j)'
  <2>1. CASE j = i
    BY <1>1, <2>1 DEF ProgressInv, At
  <2>2. CASE j # i
    BY <1>1, <2>2, ServerAssumption DEF Die, ProgressInv, At
  <2> QED BY <2>1, <2>2
<1> QED BY <1>2, <1>3, <1>4

LEMMA StartNext ==
  ASSUME StartInv, [Next]_startVars
  PROVE  StartInv'
<1>1. CASE UNCHANGED startVars
  BY <1>1 DEF startVars, StartInv, TypeOK, Sound, WriterInv, ProgressInv, Extends, At
<1>2. ASSUME NEW i \in Server, Step(i) \/ Die(i) \/ Stop(i) \/ StartAgain(i) PROVE StartInv'
  <2> USE DEF StartInv
  <2>0. /\ writer = i => proc[i].pc \in {"recording", "committing"}
        /\ faults \in 0..MaxFaults
    BY ServerAssumption DEF WriterInv, TypeOK
  <2>1. CASE Configure(i)
    <3>1. PICK p \in Proc : Goto(i, p) /\ p = [pc |-> IF Accepted(env[i]) THEN "opening" ELSE "exited"]
      BY <2>1 DEF Configure, Proc, Phase
    <3>2. ProgressInv(i)'
      BY <2>1, <3>1 DEF Configure, ProgressInv, Goto, At, TypeOK
    <3> QED BY <2>0, <2>1, <3>1, <3>2, Moves DEF Configure, At
  <2>2. CASE Open(i)
    <3>1. PICK p \in Proc : Goto(i, p) /\ p = [pc |-> "versioning"]
      BY <2>2 DEF Open, Proc, Phase
    <3>2. ProgressInv(i)'
      BY <2>2, <3>1 DEF Open, ProgressInv, Goto, At, TypeOK
    <3> QED BY <2>0, <2>2, <3>1, <3>2, Moves DEF Open, At
  <2>3. CASE CreateVersions(i)
    BY <2>3, VersionsCreated
  <2>4. CASE ReadVersion(i)
    <3>1. PICK p \in Proc : Goto(i, p) /\ p = NextAfter(db.versions)
      BY <2>4, Versions DEF ReadVersion, NextAfter, Proc, Phase, Migrating
    <3>2. ProgressInv(i)'
      BY <2>4, <3>1 DEF ReadVersion, NextAfter, ProgressInv, Goto, At, TypeOK
    <3> QED BY <2>0, <2>4, <3>1, <3>2, Moves DEF ReadVersion, At
  <2>5. CASE Create(i)
    <3>1. CASE CreatedBy(proc[i].version) \subseteq db.tables
      <4>1. PICK p \in Proc : Goto(i, p) /\ p = [pc |-> "recording", version |-> proc[i].version]
        BY <2>5 DEF Create, At, TypeOK, Proc, Phase, Migrating
      <4>2. ProgressInv(i)'
        BY <2>5, <3>1, <4>1 DEF Create, ProgressInv, Goto, At, TypeOK
      <4> QED BY <2>0, <2>5, <3>1, <4>1, <4>2, Moves DEF Create, At
    <3> QED BY <2>5, <3>1, TablesDrafted
  <2>6. CASE Record(i)
    <3>1. CASE WriterElse(i)
      <4>1. PICK p \in Proc : Goto(i, p) /\ p = [pc |-> "exited"]
        BY <2>6, <3>1 DEF Record, Proc, Phase
      <4>2. ProgressInv(i)'
        BY <2>6, <4>1 DEF Record, ProgressInv, Goto, At, TypeOK
      <4> QED BY <2>0, <2>6, <3>1, <4>1, <4>2, Moves DEF Record, WriterElse
    <3> QED BY <2>6, <3>1, VersionDrafted
  <2>7. CASE Commit(i)
    BY <2>7, DraftCommitted
  <2>8. CASE Busy(i)
    <3>1. PICK p \in Proc : Goto(i, p) /\ p = [pc |-> "exited"]
      BY <2>8 DEF Busy, Proc, Phase
    <3>2. ProgressInv(i)'
      BY <2>8, <3>1 DEF Busy, ProgressInv, Goto, At, TypeOK
    <3> QED BY <2>0, <2>8, <3>1, <3>2, Moves DEF Busy, WriterElse
  <2>9. CASE Bind(i)
    <3>1. PICK p \in Proc : Goto(i, p) /\ p = [pc |-> IF env[i].bindParses THEN "serving" ELSE "exited"]
      BY <2>9 DEF Bind, Proc, Phase
    <3>2. ProgressInv(i)'
      BY <2>9, <3>1 DEF Bind, ProgressInv, Goto, At, TypeOK
    <3> QED BY <2>0, <2>9, <3>1, <3>2, Moves DEF Bind, At
  <2>10. CASE Die(i)
    BY <2>10, Dies
  <2>11. CASE Stop(i)
    <3>1. PICK p \in Proc : Goto(i, p) /\ p = [pc |-> "exited"]
      BY <2>11 DEF Stop, Proc, Phase
    <3>2. ProgressInv(i)'
      BY <2>11, <3>1 DEF Stop, ProgressInv, Goto, At, TypeOK
    <3> QED BY <2>0, <2>11, <3>1, <3>2, Moves DEF Stop, At
  <2>12. CASE StartAgain(i)
    <3>1. PICK p \in Proc : Goto(i, p) /\ p = [pc |-> "configuring"]
      BY <2>12 DEF StartAgain, Proc, Phase
    <3>2. ProgressInv(i)'
      BY <2>12, <3>1 DEF StartAgain, ProgressInv, Goto, At, TypeOK
    <3> QED BY <2>0, <2>12, <3>1, <3>2, Moves DEF StartAgain, At
  <2> QED BY <1>2, <2>1, <2>2, <2>3, <2>4, <2>5, <2>6, <2>7, <2>8, <2>9, <2>10, <2>11, <2>12
          DEF Step
<1> QED BY <1>1, <1>2 DEF Next

LEMMA StartInvariant == Spec => []StartInv
  BY StartInit, StartNext, PTL DEF Spec

\* The processes and the database keep their types.
THEOREM StartTypeCorrect == Spec => []TypeOK
<1>1. StartInv => TypeOK
  BY DEF StartInv
<1> QED BY <1>1, StartInvariant, PTL

\* A version is recorded only with its tables, by however many processes and deaths.
THEOREM RecordsAreTrue == Spec => []RecordedMeansCreated
<1>1. ASSUME StartInv PROVE RecordedMeansCreated
  <2>1. db.versions \subseteq {1, 2}
    BY <1>1, Versions DEF StartInv, TypeOK, Database
  <2> QED BY <1>1, <2>1 DEF StartInv, Sound, RecordedMeansCreated
<1> QED BY <1>1, StartInvariant, PTL

\* Whoever serves has the whole schema under it.
THEOREM SchemaComplete == Spec => []ServesOnFullSchema
<1>1. ASSUME StartInv, NEW i \in Server, At(i, "serving")
      PROVE  db.tables = Table /\ db.versions = Version
  <2>1. /\ 1 \in db.versions /\ 2 \in db.versions /\ VersionTable \in db.tables
        /\ db.versions \subseteq Version /\ db.tables \subseteq Table
    BY <1>1 DEF StartInv, ProgressInv, Sound, At, TypeOK, Database
  <2>2. CreatedBy(1) \subseteq db.tables /\ CreatedBy(2) \subseteq db.tables
    BY <1>1, <2>1 DEF StartInv, Sound
  <2> QED BY <2>1, <2>2, Versions, Tables DEF CreatedBy
<1>2. StartInv => ServesOnFullSchema
  BY <1>1 DEF ServesOnFullSchema
<1> QED BY <1>2, StartInvariant, PTL
----
(***************************************************************************)
(* The processes implement SchemaLife: what is committed changes as if     *)
(* each migration were one step.                                           *)
(***************************************************************************)

\* The draft of a writer is what is committed, and the migration it is about.
DraftInv ==
  writer # NoServer =>
    /\ draft.tables = db.tables \cup CreatedBy(proc[writer].version)
    /\ draft.versions =
         db.versions \cup (IF At(writer, "committing") THEN {proc[writer].version} ELSE {})

\* While a process writes, nothing is committed but what it drafted.
LEMMA DraftNext ==
  ASSUME StartInv, StartInv', DraftInv, [Next]_startVars
  PROVE  DraftInv'
<1> USE DEF StartInv
<1>1. CASE UNCHANGED startVars
  BY <1>1 DEF startVars, DraftInv, At
<1>2. ASSUME NEW i \in Server, Step(i) \/ Die(i) \/ Stop(i) \/ StartAgain(i) PROVE DraftInv'
  <2>0. /\ i # NoServer /\ \A j \in Server : j # i => proc'[j] = proc[j]
        /\ writer = i => proc[i].pc \in {"recording", "committing"}
        /\ writer \in Server \cup {NoServer}
    BY <1>2, ServerAssumption
       DEF Step, Configure, Open, CreateVersions, ReadVersion, Create, Record, Commit, Busy, Bind,
           Die, Stop, StartAgain, Goto, TypeOK, WriterInv
  <2>1. CASE Create(i) /\ writer' # writer
    <3>1. /\ proc'[i].pc = "recording" /\ proc'[i].version = proc[i].version
          /\ writer' = i /\ db' = db
          /\ draft' = [db EXCEPT !.tables = @ \cup CreatedBy(proc[i].version)]
      BY <2>1 DEF Create, Goto, At, TypeOK, Proc, Phase, Migrating
    <3> QED BY <3>1 DEF DraftInv, At, TypeOK, Database
  <2>2. CASE Record(i) /\ ~WriterElse(i)
    <3>1. /\ proc[i].pc = "recording"
          /\ proc'[i].pc = "committing" /\ proc'[i].version = proc[i].version
          /\ writer' = i /\ db' = db
      BY <2>2 DEF Record, Goto, At, TypeOK, Proc, Phase, Migrating
    <3>2. PICK d \in Database : /\ d = IF writer = i THEN draft ELSE db
                               /\ draft' = [d EXCEPT !.versions = @ \cup {proc[i].version}]
      BY <2>2 DEF Record, TypeOK
    <3>3. /\ d.tables = db.tables \cup CreatedBy(proc[i].version)
          /\ d.versions = db.versions
      BY <2>0, <3>1, <3>2 DEF DraftInv, ProgressInv, At
    <3> QED BY <3>1, <3>2, <3>3 DEF DraftInv, At, Database
  <2>3. CASE Commit(i) \/ (Die(i) /\ writer = i)
    BY <2>3 DEF Commit, Die, DraftInv
  <2>4. CASE CreateVersions(i)
    <3>1. writer' = writer /\ draft' = draft /\ writer # i
      BY <2>0, <2>4 DEF CreateVersions, At
    <3>2. writer # NoServer => db' = db
      BY <2>4 DEF CreateVersions, TypeOK, Database
    <3> QED BY <2>0, <3>1, <3>2 DEF DraftInv, At
  <2>5. CASE /\ UNCHANGED <<db, writer, draft>>
             /\ writer # i
    BY <2>0, <2>5 DEF DraftInv, At
  <2> QED BY <1>2, <2>0, <2>1, <2>2, <2>3, <2>4, <2>5
          DEF Step, Configure, Open, ReadVersion, Create, Record, WriterElse, Busy, Bind, Die,
              Stop, StartAgain, At
<1> QED BY <1>1, <1>2 DEF Next

\* Only two steps change what is committed: the version table appears, and a commit is the
\* migration it was drafted for, or nothing when another process got there before.
LEMMA SchemaStep ==
  ASSUME StartInv, DraftInv, [Next]_startVars
  PROVE  [Schema!Next]_db
<1> USE DEF StartInv
<1>1. CASE UNCHANGED startVars
  BY <1>1 DEF startVars
<1>2. ASSUME NEW i \in Server, Step(i) \/ Die(i) \/ Stop(i) \/ StartAgain(i)
      PROVE  [Schema!Next]_db
  <2>1. CASE CreateVersions(i)
    BY <2>1 DEF CreateVersions, Schema!Next, Schema!CreateVersions
  <2>2. CASE Commit(i)
    <3> DEFINE v == proc[i].version
    <3>1. /\ writer = i /\ i # NoServer /\ At(i, "committing") /\ db' = draft
          /\ v \in Version /\ draft \in Database /\ db \in Database
          /\ VersionTable \in db.tables /\ (v = 2 => 1 \in db.versions)
      BY <2>2, ServerAssumption
         DEF Commit, ProgressInv, At, TypeOK, Proc, Phase, Migrating
    <3>2. /\ draft.tables = db.tables \cup CreatedBy(v)
          /\ draft.versions = db.versions \cup {v}
      BY <3>1 DEF DraftInv
    <3>3. CASE v \in db.versions
      <4>1. CreatedBy(v) \subseteq db.tables
        BY <3>3 DEF Sound
      <4>2. draft.tables = db.tables /\ draft.versions = db.versions
        BY <3>2, <3>3, <4>1
      <4> QED BY <3>1, <4>2 DEF Database
    <3>4. CASE v \notin db.versions
      <4>1. db' = [tables |-> db.tables \cup CreatedBy(v), versions |-> db.versions \cup {v}]
        BY <3>1, <3>2 DEF Database
      <4>2. \A w \in Version : w < v => w \in db.versions
        BY <3>1, Versions
      <4> QED BY <3>1, <3>4, <4>1, <4>2 DEF Schema!Next, Schema!Migrate
    <3> QED BY <3>3, <3>4
  <2>3. CASE db' = db
    BY <2>3
  <2> QED BY <1>2, <2>1, <2>2, <2>3
          DEF Step, Configure, Open, ReadVersion, Create, Record, Busy, Bind, Die, Stop, StartAgain
<1> QED BY <1>1, <1>2 DEF Next

\* However many processes migrate one database, and wherever they die, it changes as if
\* each migration were applied at once and only once.
THEOREM MigrationsAtomic == Spec => MigratesAtomically
<1>1. Init => Schema!Init
  BY DEF Init, Schema!Init
<1>2. Init => DraftInv
  BY DEF Init, DraftInv
<1>3. StartInv /\ StartInv' /\ DraftInv /\ [Next]_startVars => DraftInv'
  BY DraftNext
<1>4. StartInv /\ DraftInv /\ [Next]_startVars => [Schema!Next]_db
  BY SchemaStep
<1> QED BY <1>1, <1>2, <1>3, <1>4, StartInvariant, PTL DEF Spec, MigratesAtomically, Schema!Spec

(***************************************************************************)
(* Progress.  The fairness of a process is spelled out with its guard,     *)
(* which is what ENABLED of its next step comes to.                        *)
(***************************************************************************)

\* A process that runs waits for nothing but the readers of the database, to commit.
StepReady(i) ==
  /\ ~At(i, "serving") /\ ~At(i, "exited")
  /\ At(i, "committing") => \A j \in Server \ {i} : ~ReadLocked(j)
StepFairness(i) == []<>(~StepReady(i)) \/ []<><<Step(i)>>_startVars

\* Its environment is right; n faults are still to come, or fewer.
Able(i, n) == Accepted(env[i]) /\ env[i].bindParses /\ faults = n
Stage(i, n, pc) == At(i, pc) /\ Able(i, n)
Faulty(n) == faults < n

\* The schema is up to date, and its records have a table to be in.
Migrated == LatestVersion \in db.versions
RecordsInTable == db.versions # {} => VersionTable \in db.tables

\* What SchemaLife allows keeps the records in their table, and a finished schema finished.
LEMMA SchemaKeeps ==
  ASSUME [Schema!Next]_db
  PROVE  (RecordsInTable => RecordsInTable') /\ (Migrated => Migrated')
<1>1. CASE Schema!CreateVersions
  BY <1>1 DEF Schema!CreateVersions, RecordsInTable, Migrated
<1>2. ASSUME NEW v \in Version, Schema!Migrate(v)
      PROVE  (RecordsInTable => RecordsInTable') /\ (Migrated => Migrated')
  BY <1>2 DEF Schema!Migrate, RecordsInTable, Migrated
<1>3. CASE db' = db
  BY <1>3 DEF RecordsInTable, Migrated
<1> QED BY <1>1, <1>2, <1>3 DEF Schema!Next

LEMMA RecordsHaveTable == Spec => []RecordsInTable
<1>1. Init => RecordsInTable
  BY DEF Init, OldDatabase, RecordsInTable
<1>2. RecordsInTable /\ [Schema!Next]_db => RecordsInTable'
  BY SchemaKeeps
<1> QED BY <1>1, <1>2, MigrationsAtomic, PTL DEF Spec, MigratesAtomically, Schema!Spec

\* Only its own steps, and its death, move a process that is neither serving nor gone.
LEMMA OthersLeaveIt ==
  ASSUME StartInv, [Next]_startVars, NEW i \in Server, NEW n \in Nat, Able(i, n),
         ~At(i, "serving"), ~At(i, "exited")
  PROVE  (Able(i, n)' /\ (Step(i) \/ proc'[i] = proc[i])) \/ Faulty(n)'
<1> USE DEF StartInv, TypeOK, Able, Goto
<1>1. CASE UNCHANGED startVars
  BY <1>1 DEF startVars
<1>2. ASSUME NEW j \in Server, Step(j) PROVE Able(i, n)' /\ (Step(i) \/ proc'[i] = proc[i])
  <2>1. UNCHANGED <<env, faults>>
    BY <1>2
       DEF Step, Configure, Open, CreateVersions, ReadVersion, Create, Record, Commit, Busy, Bind
  <2>2. \E q : Goto(j, q)
    BY <1>2
       DEF Step, Configure, Open, CreateVersions, ReadVersion, Create, Record, Commit, Busy, Bind
  <2> QED BY <1>2, <2>1, <2>2
<1>3. ASSUME NEW j \in Server, Die(j) PROVE Faulty(n)'
  BY <1>3, FaultsAssumption DEF Die, Faulty
<1>4. ASSUME NEW j \in Server, Stop(j) \/ StartAgain(j) PROVE Able(i, n)' /\ proc'[i] = proc[i]
  BY <1>4 DEF Stop, StartAgain, At
<1> QED BY <1>1, <1>2, <1>3, <1>4 DEF Next

\* Where a step leads when the schema is up to date: nobody is waited for.
LEMMA MigratedStep ==
  ASSUME StartInv, RecordsInTable, Migrated, NEW i \in Server, NEW n \in Nat, Able(i, n), Step(i)
  PROVE  /\ At(i, "configuring") => At(i, "opening")'
         /\ At(i, "opening") => At(i, "versioning")'
         /\ At(i, "versioning") => At(i, "reading")'
         /\ At(i, "reading") => At(i, "binding")'
         /\ At(i, "binding") => At(i, "serving")'
<1> USE DEF StartInv, TypeOK, Able, Goto, At
<1>1. CASE Configure(i)
  BY <1>1 DEF Configure
<1>2. CASE Open(i)
  BY <1>2 DEF Open
<1>3. CASE CreateVersions(i)
  BY <1>3 DEF CreateVersions
<1>4. CASE ReadVersion(i)
  BY <1>4 DEF ReadVersion, NextAfter, Migrated, LatestVersion
<1>5. CASE Create(i) \/ Record(i) \/ Commit(i)
  BY <1>5 DEF Create, Record, Commit
<1>6. CASE Busy(i)
  BY <1>6 DEF Busy, RecordsInTable, Migrated
<1>7. CASE Bind(i)
  BY <1>7 DEF Bind
<1> QED BY <1>1, <1>2, <1>3, <1>4, <1>5, <1>6, <1>7 DEF Step

\* A process that is started on a finished schema comes to serve, whatever the other processes
\* are at: it waits for none of them, and none of them makes it give up.
THEOREM MigratedStarts ==
  ASSUME NEW i \in Server, NEW n \in Nat
  PROVE  Spec /\ StepFairness(i) =>
           [](Migrated /\ Stage(i, n, "configuring") => <>(At(i, "serving") \/ Faulty(n)))
<1> DEFINE On(pc) == Migrated /\ Stage(i, n, pc)
<1>1. Spec => []StartInv /\ []RecordsInTable /\ [][Schema!Next]_db
  BY StartInvariant, RecordsHaveTable, MigrationsAtomic DEF MigratesAtomically, Schema!Spec
<1>2. Spec /\ StepFairness(i) => [](On("configuring") => <>On("opening") \/ <>Faulty(n))
  <2>1. StartInv /\ RecordsInTable /\ [Schema!Next]_db /\ [Next]_startVars /\ On("configuring")
          => On("configuring")' \/ On("opening")' \/ Faulty(n)'
    BY SchemaKeeps, OthersLeaveIt, MigratedStep DEF Stage, At
  <2>2. StartInv /\ RecordsInTable /\ [Schema!Next]_db /\ <<Next /\ Step(i)>>_startVars
          /\ On("configuring") => On("opening")' \/ Faulty(n)'
    BY SchemaKeeps, OthersLeaveIt, MigratedStep DEF Stage, At
  <2>3. On("configuring") => StepReady(i)
    BY DEF Stage, StepReady, At
  <2> QED BY <1>1, <2>1, <2>2, <2>3, PTL DEF StepFairness, Spec
<1>3. Spec /\ StepFairness(i) => [](On("opening") => <>On("versioning") \/ <>Faulty(n))
  <2>1. StartInv /\ RecordsInTable /\ [Schema!Next]_db /\ [Next]_startVars /\ On("opening")
          => On("opening")' \/ On("versioning")' \/ Faulty(n)'
    BY SchemaKeeps, OthersLeaveIt, MigratedStep DEF Stage, At
  <2>2. StartInv /\ RecordsInTable /\ [Schema!Next]_db /\ <<Next /\ Step(i)>>_startVars
          /\ On("opening") => On("versioning")' \/ Faulty(n)'
    BY SchemaKeeps, OthersLeaveIt, MigratedStep DEF Stage, At
  <2>3. On("opening") => StepReady(i)
    BY DEF Stage, StepReady, At
  <2> QED BY <1>1, <2>1, <2>2, <2>3, PTL DEF StepFairness, Spec
<1>4. Spec /\ StepFairness(i) => [](On("versioning") => <>On("reading") \/ <>Faulty(n))
  <2>1. StartInv /\ RecordsInTable /\ [Schema!Next]_db /\ [Next]_startVars /\ On("versioning")
          => On("versioning")' \/ On("reading")' \/ Faulty(n)'
    BY SchemaKeeps, OthersLeaveIt, MigratedStep DEF Stage, At
  <2>2. StartInv /\ RecordsInTable /\ [Schema!Next]_db /\ <<Next /\ Step(i)>>_startVars
          /\ On("versioning") => On("reading")' \/ Faulty(n)'
    BY SchemaKeeps, OthersLeaveIt, MigratedStep DEF Stage, At
  <2>3. On("versioning") => StepReady(i)
    BY DEF Stage, StepReady, At
  <2> QED BY <1>1, <2>1, <2>2, <2>3, PTL DEF StepFairness, Spec
<1>5. Spec /\ StepFairness(i) => [](On("reading") => <>On("binding") \/ <>Faulty(n))
  <2>1. StartInv /\ RecordsInTable /\ [Schema!Next]_db /\ [Next]_startVars /\ On("reading")
          => On("reading")' \/ On("binding")' \/ Faulty(n)'
    BY SchemaKeeps, OthersLeaveIt, MigratedStep DEF Stage, At
  <2>2. StartInv /\ RecordsInTable /\ [Schema!Next]_db /\ <<Next /\ Step(i)>>_startVars
          /\ On("reading") => On("binding")' \/ Faulty(n)'
    BY SchemaKeeps, OthersLeaveIt, MigratedStep DEF Stage, At
  <2>3. On("reading") => StepReady(i)
    BY DEF Stage, StepReady, At
  <2> QED BY <1>1, <2>1, <2>2, <2>3, PTL DEF StepFairness, Spec
<1>6. Spec /\ StepFairness(i) => [](On("binding") => <>At(i, "serving") \/ <>Faulty(n))
  <2>1. StartInv /\ RecordsInTable /\ [Schema!Next]_db /\ [Next]_startVars /\ On("binding")
          => On("binding")' \/ At(i, "serving")' \/ Faulty(n)'
    BY SchemaKeeps, OthersLeaveIt, MigratedStep DEF Stage, At
  <2>2. StartInv /\ RecordsInTable /\ [Schema!Next]_db /\ <<Next /\ Step(i)>>_startVars
          /\ On("binding") => At(i, "serving")' \/ Faulty(n)'
    BY SchemaKeeps, OthersLeaveIt, MigratedStep DEF Stage, At
  <2>3. On("binding") => StepReady(i)
    BY DEF Stage, StepReady, At
  <2> QED BY <1>1, <2>1, <2>2, <2>3, PTL DEF StepFairness, Spec
<1> QED BY <1>2, <1>3, <1>4, <1>5, <1>6, PTL

\* The process is at a point of the migration v.
Apply(i, n, pc, v) == Stage(i, n, pc) /\ proc[i].version = v

\* Where a step leads when there is no other process: nobody can make it give up.
LEMMA LoneStep ==
  ASSUME StartInv, NEW i \in Server, Server = {i}, NEW n \in Nat, Able(i, n), Step(i)
  PROVE  /\ At(i, "configuring") => At(i, "opening")'
         /\ At(i, "opening") => At(i, "versioning")'
         /\ At(i, "versioning") => At(i, "reading")'
         /\ At(i, "reading") => \/ At(i, "binding")'
                                \/ At(i, "creating")' /\ proc'[i].version \in {1, 2}
         /\ At(i, "creating") => At(i, "recording")' /\ proc'[i].version = proc[i].version
         /\ At(i, "recording") => At(i, "committing")' /\ proc'[i].version = proc[i].version
         /\ At(i, "committing") /\ proc[i].version = 1 =>
              At(i, "creating")' /\ proc'[i].version = 2
         /\ At(i, "committing") /\ proc[i].version = 2 => At(i, "binding")'
         /\ At(i, "binding") => At(i, "serving")'
<1> USE DEF StartInv, TypeOK, Able, Goto, At
<1>0. ~WriterElse(i)
  BY DEF WriterElse
<1>1. CASE Configure(i)
  BY <1>1 DEF Configure
<1>2. CASE Open(i)
  BY <1>2 DEF Open
<1>3. CASE CreateVersions(i)
  BY <1>3 DEF CreateVersions
<1>4. CASE ReadVersion(i)
  BY <1>4 DEF ReadVersion, NextAfter
<1>5. ASSUME Create(i) \/ Record(i) \/ Commit(i) PROVE proc[i] \in Migrating
  BY <1>5 DEF Create, Record, Commit, Proc, Phase
<1>6. CASE Create(i)
  BY <1>5, <1>6 DEF Create, Migrating
<1>7. CASE Record(i)
  BY <1>0, <1>5, <1>7 DEF Record, Migrating
<1>8. CASE Commit(i)
  BY <1>5, <1>8 DEF Commit, Migrating, LatestVersion
<1>9. CASE Busy(i)
  BY <1>0, <1>9 DEF Busy
<1>10. CASE Bind(i)
  BY <1>10 DEF Bind
<1> QED BY <1>1, <1>2, <1>3, <1>4, <1>6, <1>7, <1>8, <1>9, <1>10 DEF Step

\* A process that is alone, in an environment that is right, comes to serve from any database
\* it meets, unless a call fails.
THEOREM LoneProcessServes ==
  ASSUME NEW s \in Server, Server = {s}
  PROVE  Spec /\ StepFairness(s) => SomebodyServes
<1> DEFINE n == MaxFaults
           On(pc) == Stage(s, n, pc)
           For(pc, v) == Apply(s, n, pc, v)
           Serving == At(s, "serving")
<1>0. n \in Nat
  BY FaultsAssumption
<1>1. Spec => []StartInv
  BY StartInvariant
<1>2. Spec /\ StepFairness(s) => [](On("configuring") => <>On("opening") \/ <>Faulty(n))
  <2>1. StartInv /\ [Next]_startVars /\ On("configuring")
          => On("configuring")' \/ On("opening")' \/ Faulty(n)'
    BY <1>0, OthersLeaveIt, LoneStep DEF Stage, At
  <2>2. StartInv /\ <<Next /\ Step(s)>>_startVars /\ On("configuring")
          => On("opening")' \/ Faulty(n)'
    BY <1>0, OthersLeaveIt, LoneStep DEF Stage, At
  <2>3. On("configuring") => StepReady(s)
    BY DEF Stage, StepReady, At
  <2> QED BY <1>1, <2>1, <2>2, <2>3, PTL DEF StepFairness, Spec
<1>3. Spec /\ StepFairness(s) => [](On("opening") => <>On("versioning") \/ <>Faulty(n))
  <2>1. StartInv /\ [Next]_startVars /\ On("opening")
          => On("opening")' \/ On("versioning")' \/ Faulty(n)'
    BY <1>0, OthersLeaveIt, LoneStep DEF Stage, At
  <2>2. StartInv /\ <<Next /\ Step(s)>>_startVars /\ On("opening")
          => On("versioning")' \/ Faulty(n)'
    BY <1>0, OthersLeaveIt, LoneStep DEF Stage, At
  <2>3. On("opening") => StepReady(s)
    BY DEF Stage, StepReady, At
  <2> QED BY <1>1, <2>1, <2>2, <2>3, PTL DEF StepFairness, Spec
<1>4. Spec /\ StepFairness(s) => [](On("versioning") => <>On("reading") \/ <>Faulty(n))
  <2>1. StartInv /\ [Next]_startVars /\ On("versioning")
          => On("versioning")' \/ On("reading")' \/ Faulty(n)'
    BY <1>0, OthersLeaveIt, LoneStep DEF Stage, At
  <2>2. StartInv /\ <<Next /\ Step(s)>>_startVars /\ On("versioning")
          => On("reading")' \/ Faulty(n)'
    BY <1>0, OthersLeaveIt, LoneStep DEF Stage, At
  <2>3. On("versioning") => StepReady(s)
    BY DEF Stage, StepReady, At
  <2> QED BY <1>1, <2>1, <2>2, <2>3, PTL DEF StepFairness, Spec
<1>5. Spec /\ StepFairness(s) =>
       [](On("reading") => \/ <>On("binding") \/ <>For("creating", 1) \/ <>For("creating", 2)
                          \/ <>Faulty(n))
  <2>1. StartInv /\ [Next]_startVars /\ On("reading")
          => \/ On("reading")' \/ On("binding")'
             \/ For("creating", 1)' \/ For("creating", 2)' \/ Faulty(n)'
    BY <1>0, OthersLeaveIt, LoneStep DEF Stage, At, Apply
  <2>2. StartInv /\ <<Next /\ Step(s)>>_startVars /\ On("reading")
          => On("binding")' \/ For("creating", 1)' \/ For("creating", 2)' \/ Faulty(n)'
    BY <1>0, OthersLeaveIt, LoneStep DEF Stage, At, Apply
  <2>3. On("reading") => StepReady(s)
    BY DEF Stage, StepReady, At, Apply
  <2> QED BY <1>1, <2>1, <2>2, <2>3, PTL DEF StepFairness, Spec
<1>6. Spec /\ StepFairness(s) => [](For("creating", 1) => <>For("recording", 1) \/ <>Faulty(n))
  <2>1. StartInv /\ [Next]_startVars /\ For("creating", 1)
          => For("creating", 1)' \/ For("recording", 1)' \/ Faulty(n)'
    BY <1>0, OthersLeaveIt, LoneStep DEF Stage, At, Apply
  <2>2. StartInv /\ <<Next /\ Step(s)>>_startVars /\ For("creating", 1)
          => For("recording", 1)' \/ Faulty(n)'
    BY <1>0, OthersLeaveIt, LoneStep DEF Stage, At, Apply
  <2>3. For("creating", 1) => StepReady(s)
    BY DEF Stage, StepReady, At, Apply
  <2> QED BY <1>1, <2>1, <2>2, <2>3, PTL DEF StepFairness, Spec
<1>7. Spec /\ StepFairness(s) => [](For("recording", 1) => <>For("committing", 1) \/ <>Faulty(n))
  <2>1. StartInv /\ [Next]_startVars /\ For("recording", 1)
          => For("recording", 1)' \/ For("committing", 1)' \/ Faulty(n)'
    BY <1>0, OthersLeaveIt, LoneStep DEF Stage, At, Apply
  <2>2. StartInv /\ <<Next /\ Step(s)>>_startVars /\ For("recording", 1)
          => For("committing", 1)' \/ Faulty(n)'
    BY <1>0, OthersLeaveIt, LoneStep DEF Stage, At, Apply
  <2>3. For("recording", 1) => StepReady(s)
    BY DEF Stage, StepReady, At, Apply
  <2> QED BY <1>1, <2>1, <2>2, <2>3, PTL DEF StepFairness, Spec
<1>8. Spec /\ StepFairness(s) => [](For("committing", 1) => <>For("creating", 2) \/ <>Faulty(n))
  <2>1. StartInv /\ [Next]_startVars /\ For("committing", 1)
          => For("committing", 1)' \/ For("creating", 2)' \/ Faulty(n)'
    BY <1>0, OthersLeaveIt, LoneStep DEF Stage, At, Apply
  <2>2. StartInv /\ <<Next /\ Step(s)>>_startVars /\ For("committing", 1)
          => For("creating", 2)' \/ Faulty(n)'
    BY <1>0, OthersLeaveIt, LoneStep DEF Stage, At, Apply
  <2>3. For("committing", 1) => StepReady(s)
    BY DEF Stage, StepReady, At, Apply
  <2> QED BY <1>1, <2>1, <2>2, <2>3, PTL DEF StepFairness, Spec
<1>9. Spec /\ StepFairness(s) => [](For("creating", 2) => <>For("recording", 2) \/ <>Faulty(n))
  <2>1. StartInv /\ [Next]_startVars /\ For("creating", 2)
          => For("creating", 2)' \/ For("recording", 2)' \/ Faulty(n)'
    BY <1>0, OthersLeaveIt, LoneStep DEF Stage, At, Apply
  <2>2. StartInv /\ <<Next /\ Step(s)>>_startVars /\ For("creating", 2)
          => For("recording", 2)' \/ Faulty(n)'
    BY <1>0, OthersLeaveIt, LoneStep DEF Stage, At, Apply
  <2>3. For("creating", 2) => StepReady(s)
    BY DEF Stage, StepReady, At, Apply
  <2> QED BY <1>1, <2>1, <2>2, <2>3, PTL DEF StepFairness, Spec
<1>10. Spec /\ StepFairness(s) => [](For("recording", 2) => <>For("committing", 2) \/ <>Faulty(n))
  <2>1. StartInv /\ [Next]_startVars /\ For("recording", 2)
          => For("recording", 2)' \/ For("committing", 2)' \/ Faulty(n)'
    BY <1>0, OthersLeaveIt, LoneStep DEF Stage, At, Apply
  <2>2. StartInv /\ <<Next /\ Step(s)>>_startVars /\ For("recording", 2)
          => For("committing", 2)' \/ Faulty(n)'
    BY <1>0, OthersLeaveIt, LoneStep DEF Stage, At, Apply
  <2>3. For("recording", 2) => StepReady(s)
    BY DEF Stage, StepReady, At, Apply
  <2> QED BY <1>1, <2>1, <2>2, <2>3, PTL DEF StepFairness, Spec
<1>11. Spec /\ StepFairness(s) => [](For("committing", 2) => <>On("binding") \/ <>Faulty(n))
  <2>1. StartInv /\ [Next]_startVars /\ For("committing", 2)
          => For("committing", 2)' \/ On("binding")' \/ Faulty(n)'
    BY <1>0, OthersLeaveIt, LoneStep DEF Stage, At, Apply
  <2>2. StartInv /\ <<Next /\ Step(s)>>_startVars /\ For("committing", 2)
          => On("binding")' \/ Faulty(n)'
    BY <1>0, OthersLeaveIt, LoneStep DEF Stage, At, Apply
  <2>3. For("committing", 2) => StepReady(s)
    BY DEF Stage, StepReady, At, Apply
  <2> QED BY <1>1, <2>1, <2>2, <2>3, PTL DEF StepFairness, Spec
<1>12. Spec /\ StepFairness(s) => [](On("binding") => <>Serving \/ <>Faulty(n))
  <2>1. StartInv /\ [Next]_startVars /\ On("binding")
          => On("binding")' \/ Serving' \/ Faulty(n)'
    BY <1>0, OthersLeaveIt, LoneStep DEF Stage, At
  <2>2. StartInv /\ <<Next /\ Step(s)>>_startVars /\ On("binding")
          => Serving' \/ Faulty(n)'
    BY <1>0, OthersLeaveIt, LoneStep DEF Stage, At
  <2>3. On("binding") => StepReady(s)
    BY DEF Stage, StepReady, At
  <2> QED BY <1>1, <2>1, <2>2, <2>3, PTL DEF StepFairness, Spec
<1>13. Init /\ Accepted(env[s]) /\ env[s].bindParses => On("configuring")
  BY DEF Init, Stage, Able, At
<1>14. Faulty(n) \/ Serving => faults < MaxFaults \/ \E i \in Server : At(i, "serving")
  BY DEF Faulty
<1>15. (/\ \E i \in Server : Accepted(env[i])
        /\ \A i \in Server : Accepted(env[i]) => env[i].bindParses)
       => Accepted(env[s]) /\ env[s].bindParses
  OBVIOUS
<1>16. Spec /\ StepFairness(s) =>
         ((/\ \E i \in Server : Accepted(env[i])
           /\ \A i \in Server : Accepted(env[i]) => env[i].bindParses)
          => <>(faults < MaxFaults \/ \E i \in Server : At(i, "serving")))
  BY <1>2, <1>3, <1>4, <1>5, <1>6, <1>7, <1>8, <1>9, <1>10, <1>11, <1>12, <1>13, <1>14, <1>15,
     PTL DEF Spec
<1> QED BY <1>16 DEF SomebodyServes
=============================================================================
