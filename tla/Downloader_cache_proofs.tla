---------------------- MODULE Downloader_cache_proofs -----------------------
(***************************************************************************)
(* Proofs about the download cache and the retention sweep.                *)
(***************************************************************************)
EXTENDS Downloader_proofs

USE JobIdAssumption, MaxActiveAssumption, ClockAssumption, DbFaultsAssumption

\* What the earlier invariants say at the start of every step.
LEMMA Given ==
  ASSUME SlotInv
  PROVE  /\ now \in Nat
         /\ jobs \in [JobId -> Job \cup {NoJob}]
         /\ creates \in [JobId -> Create]
         /\ tasks \in [JobId -> Task]
         /\ cache \in [Key -> Row \cup {NoRow}]
         /\ disk \in [JobId -> Content]
         /\ dbOwner \in JobId \cup {NoDir}
         /\ TypeOK
         /\ \A j \in JobId : JobInvAt(j)
         /\ \A n \in 1..Len(waiters) : waiters[n] \in JobId /\ tasks[waiters[n]].pc = "waiting"
         /\ waiters # <<>> => Head(waiters) \in JobId /\ tasks[Head(waiters)].pc = "waiting"
  BY JobInvLocal DEF SlotInv, JobInv, TypeOK, WaitersAreWaiting, TaskAt

\* A directory that its task has left is never entered again.
LEMMA SettledStable ==
  ASSUME SlotInv, [Next]_vars, NEW d \in JobId, Settled(d)
  PROVE  Settled(d)'
<1>0. /\ creates \in [JobId -> Create] /\ tasks \in [JobId -> Task]
      /\ waiters # <<>> => Head(waiters) \in JobId /\ tasks[Head(waiters)].pc = "waiting"
  BY Given
<1> USE <1>0 DEF Settled, At, TaskAt
<1>1. ASSUME NEW j \in JobId, NEW k \in Key, BeginCreate(j, k) PROVE Settled(d)'
  BY <1>1 DEF BeginCreate, Goto
<1>2. ASSUME NEW j \in JobId, CreateStep(j) PROVE Settled(d)'
  <2>1. creates[j].pc # "done" /\ \A i \in JobId \ {j} : creates'[i] = creates[i]
    BY <1>2 DEF CreateStep, SweepJobs, SnapshotCache, PurgeRow, RemoveDir, EndSweep, Lookup,
                InsertJob, SpawnTask, Goto
  <2>2. \A i \in JobId \ {j} : tasks'[i] = tasks[i]
    BY <1>2 DEF CreateStep, SweepJobs, SnapshotCache, PurgeRow, RemoveDir, EndSweep, Lookup,
                InsertJob, SpawnTask, Goto
  <2> QED BY <2>1, <2>2
<1>3. ASSUME NEW j \in JobId, TaskStep(j) PROVE Settled(d)'
  <2>1. creates' = creates
    BY <1>3 DEF TaskStep, MarkQueued, Acquire, MarkDownloading, CloneJob, CreateDir, FileWritten,
                RunReturns, RecordDownload, CompleteJob, FailJob, ReleasePermit
  <2>2. CASE CompleteJob(j)
    BY <2>1, <2>2 DEF CompleteJob, TaskGoto
  <2>3. CASE ReleasePermit(j)
    BY <2>1, <2>3 DEF ReleasePermit, TaskGoto
  <2>4. CASE ~CompleteJob(j) /\ ~ReleasePermit(j)
    <3>1. d # j /\ \A i \in JobId \ {j} : tasks'[i] = tasks[i]
      BY <1>3, <2>4 DEF TaskStep, MarkQueued, Acquire, MarkDownloading, CloneJob, CreateDir,
                        FileWritten, RunReturns, RecordDownload, FailJob, TaskGoto
    <3> QED BY <2>1, <3>1
  <2> QED BY <2>2, <2>3, <2>4
<1>4. CASE Tick \/ UNCHANGED vars
  BY <1>4 DEF Tick, vars
<1>5. CASE Restart
  BY <1>5 DEF Restart, Done, NoTask
<1> QED BY <1>1, <1>2, <1>3, <1>4, <1>5 DEF Next, Work

\* Its content changes only by being removed.
LEMMA HoldsStable ==
  ASSUME SlotInv, [Next]_vars, NEW d \in JobId, NEW k \in Key, HoldsOnly(d, k)
  PROVE  HoldsOnly(d, k)'
<1>0. disk \in [JobId -> Content] /\ Settled(d) /\ Settled(d)'
  BY Given, SettledStable DEF HoldsOnly
<1>1. disk'[d] = disk[d] \/ disk'[d] \in {Absent, Partial}
  <2>1. ASSUME NEW j \in JobId, RemoveDir(j) PROVE disk'[d] = disk[d] \/ disk'[d] \in {Absent, Partial}
    BY <1>0, <2>1 DEF RemoveDir
  <2>2. ASSUME NEW j \in JobId, CreateDir(j) \/ FileWritten(j) PROVE disk'[d] = disk[d]
    BY <1>0, <2>2 DEF CreateDir, FileWritten, Settled, TaskAt
  <2>3. CASE disk' = disk
    BY <2>3
  <2> QED BY <2>1, <2>2, <2>3
          DEF Next, Work, vars, BeginCreate, CreateStep, SweepJobs, SnapshotCache, PurgeRow,
              EndSweep, Lookup, InsertJob, SpawnTask, TaskStep, MarkQueued, Acquire,
              MarkDownloading, CloneJob, RunReturns, RecordDownload, CompleteJob, FailJob,
              ReleasePermit, Tick, Restart
<1> QED BY <1>0, <1>1 DEF HoldsOnly, Video, Absent, Partial

\* An empty table, no job and no directory satisfy CacheInv.
LEMMA CacheInit == Init => CacheInv
<1> SUFFICES ASSUME Init PROVE CacheInv
  OBVIOUS
<1>1. /\ \A k \in Key : cache[k] = NoRow
      /\ \A j \in JobId : /\ jobs[j].status = "absent" /\ jobs[j] = NoJob
                          /\ creates[j].pc = "idle" /\ tasks[j].pc = "none"
                          /\ disk[j] = Absent
      /\ dbOwner = NoDir
  BY DEF Init, NoJob, NoTask, Idle
<1>2. RowsSettled /\ RowsDisjoint /\ RowsBacked
  BY <1>1 DEF RowsSettled, RowsDisjoint, RowsBacked
<1>3. JobsSettled /\ OwnFileKept /\ ClocksPast
  BY <1>1 DEF JobsSettled, OwnFileKept, ClocksPast, At
<1>4. SnapshotFresh /\ ExpiredRowsUnlisted /\ DirFollowsTask
  BY <1>1 DEF SnapshotFresh, ExpiredRowsUnlisted, DirFollowsTask, At, TaskAt
<1> QED BY <1>2, <1>3, <1>4 DEF CacheInv

\* The parts of CacheInv that a step which leaves the rows, the jobs, the disk and the clock
\* alone can disturb only through the handler that took it.
LEMMA RowsJobsFrame ==
  ASSUME SlotInv, CacheInv, [Next]_vars, UNCHANGED <<now, jobs, cache, disk>>,
         \A d \in JobId : TaskAt(d, "recorded")' => TaskAt(d, "recorded"),
         \A j \in JobId : At(j, "insert")' /\ creates[j].hit' # NoDir =>
                            HoldsOnly(creates[j].hit, creates[j].key)'
  PROVE  RowsSettled' /\ JobsSettled' /\ RowsDisjoint' /\ RowsBacked' /\ OwnFileKept'
<1>0. cache \in [Key -> Row \cup {NoRow}] /\ jobs \in [JobId -> Job \cup {NoJob}]
  BY Given
<1>1. RowsSettled'
  <2> SUFFICES ASSUME NEW k \in Key, cache'[k] # NoRow
               PROVE  /\ HoldsOnly(cache[k].dir, k)'
                      /\ TaskAt(cache[k].dir, "recorded")' => cache'[k].created = now'
                      /\ Present(cache[k].dir)' =>
                           jobs[cache[k].dir].created' <= cache[k].created'
    BY DEF RowsSettled
  <2>1. cache[k].dir \in JobId /\ cache' = cache
    BY <1>0 DEF Row
  <2>2. HoldsOnly(cache[k].dir, k)'
    BY <2>1, HoldsStable DEF CacheInv, RowsSettled
  <2> QED BY <2>1, <2>2 DEF CacheInv, RowsSettled, Present
<1>2. JobsSettled'
  <2>1. ASSUME NEW j \in JobId, jobs'[j].status = "complete"
        PROVE  jobs'[j].file \in JobId /\ HoldsOnly(jobs[j].file, jobs[j].key)'
    <3>1. jobs' = jobs /\ jobs[j] \in Job
      BY <1>0, <2>1 DEF NoJob
    <3>2. jobs[j].file \in JobId /\ jobs[j].key \in Key
          /\ HoldsOnly(jobs[j].file, jobs[j].key)
      BY <2>1, <3>1 DEF CacheInv, JobsSettled, Job
    <3> QED BY <3>1, <3>2, HoldsStable
  <2> QED BY <2>1 DEF JobsSettled
<1> QED BY <1>1, <1>2 DEF CacheInv, RowsDisjoint, RowsBacked, OwnFileKept

\* A step of a handler that leaves everything but its own control point, and the lock, alone.
LEMMA HandlerFrame ==
  ASSUME SlotInv, CacheInv, [Next]_vars, UNCHANGED <<now, jobs, tasks, cache, disk>>,
         NEW j \in JobId,
         \A i \in JobId \ {j} : creates'[i] = creates[i],
         creates[j].pc \notin {"spawn", "done"}, creates'[j].pc \notin {"spawn", "done"},
         creates'[j].clock <= now,
         At(j, "insert")' /\ creates[j].hit' # NoDir => HoldsOnly(creates[j].hit, creates[j].key)',
         SnapshotFresh', ExpiredRowsUnlisted!(j)'
  PROVE  CacheInv'
<1>1. RowsSettled' /\ JobsSettled' /\ RowsDisjoint' /\ RowsBacked' /\ OwnFileKept'
  <2>1. ASSUME NEW i \in JobId, At(i, "insert")', creates[i].hit' # NoDir
        PROVE  HoldsOnly(creates[i].hit, creates[i].key)'
    <3>1. CASE i = j
      BY <2>1, <3>1
    <3>2. CASE i # j
      <4>1. creates'[i] = creates[i] /\ creates[i] \in Inserting
        BY <2>1, <3>2, Given, CreateShape DEF At
      <4>2. HoldsOnly(creates[i].hit, creates[i].key)
        BY <2>1, <4>1 DEF CacheInv, JobsSettled, At
      <4> QED BY <2>1, <4>1, <4>2, HoldsStable DEF Inserting
    <3> QED BY <3>1, <3>2
  <2> QED BY <2>1, RowsJobsFrame DEF TaskAt
<1>2. ClocksPast'
  BY Given DEF CacheInv, ClocksPast
<1>3. DirFollowsTask'
  BY DEF CacheInv, DirFollowsTask, At, TaskAt
<1>4. ASSUME NEW i \in JobId PROVE ExpiredRowsUnlisted!(i)'
  <2>1. CASE i # j
    BY <2>1, Given, CreateShape, SettledStable
    DEF CacheInv, ExpiredRowsUnlisted, At, TaskAt, Present, Settled, Removing
  <2> QED BY <2>1
<1>5. ExpiredRowsUnlisted'
  BY <1>4 DEF ExpiredRowsUnlisted
<1> QED BY <1>1, <1>2, <1>3, <1>5 DEF CacheInv

\* A request that arrives reads the clock and nothing else.
LEMMA CacheBegin ==
  ASSUME SlotInv, CacheInv, NEW j \in JobId, NEW k \in Key, BeginCreate(j, k)
  PROVE  CacheInv'
<1>1. /\ creates[j].pc = "idle" /\ creates'[j] = [pc |-> "sweepJobs", key |-> k, clock |-> now]
      /\ \A i \in JobId \ {j} : creates'[i] = creates[i]
      /\ UNCHANGED <<now, jobs, tasks, cache, disk, dbOwner>>
  BY Given DEF BeginCreate, At, Goto
<1>2. [Next]_vars
  BY DEF Next, Work
<1>3. SnapshotFresh'
  BY <1>1 DEF CacheInv, SnapshotFresh
<1> QED BY <1>1, <1>2, <1>3, Given, HandlerFrame DEF At, ExpiredRowsUnlisted

\* The rows a sweep reads are expired and their jobs are no longer listed.
LEMMA CacheSnapshot ==
  ASSUME SlotInv, CacheInv, NEW j \in JobId, SnapshotCache(j)
  PROVE  CacheInv'
<1>1. PICK todo \in {ExpiredRows(creates[j].clock), {}} :
        creates'[j] = [pc |-> "purging", key |-> creates[j].key, clock |-> creates[j].clock,
                       todo |-> todo]
  BY Given DEF SnapshotCache, At, Goto
<1>2. /\ creates[j].pc = "sweepCache" /\ dbOwner = NoDir /\ dbOwner' = j
      /\ \A i \in JobId \ {j} : creates'[i] = creates[i]
      /\ UNCHANGED <<now, jobs, tasks, cache, disk>>
  BY Given DEF SnapshotCache, At, Goto
<1>3. [Next]_vars
  BY DEF Next, Work, CreateStep
<1>4. SnapshotFresh'
  <2>1. \A r \in todo : /\ cache[r.key] # NoRow /\ cache[r.key].dir = r.dir
                        /\ Expired(cache[r.key].created, creates[j].clock)
    BY <1>1 DEF ExpiredRows
  <2> QED BY <1>1, <1>2, <2>1 DEF CacheInv, SnapshotFresh
<1>5. creates[j].clock <= now
  BY <1>2 DEF CacheInv, ClocksPast
<1>6. ExpiredRowsUnlisted!(j)'
  BY <1>1, <1>2 DEF CacheInv, ExpiredRowsUnlisted, At, Present
<1> QED BY <1>1, <1>2, <1>3, <1>4, <1>5, <1>6, HandlerFrame DEF At

\* A sweep that ends gives the database lock back.
LEMMA CacheEndSweep ==
  ASSUME SlotInv, CacheInv, NEW j \in JobId, EndSweep(j)
  PROVE  CacheInv'
<1>1. /\ creates'[j] = [pc |-> "lookup", key |-> creates[j].key, clock |-> creates[j].clock]
      /\ creates[j].pc = "purging" /\ dbOwner' = NoDir
      /\ \A i \in JobId \ {j} : creates'[i] = creates[i]
      /\ UNCHANGED <<now, jobs, tasks, cache, disk>>
  BY Given DEF EndSweep, At, Goto
<1>2. [Next]_vars
  BY DEF Next, Work, CreateStep
<1>3. SnapshotFresh' /\ creates[j].clock <= now
  BY <1>1 DEF CacheInv, SnapshotFresh, ClocksPast
<1> QED BY <1>1, <1>2, <1>3, HandlerFrame DEF At, ExpiredRowsUnlisted

\* The file a lookup finds is the video of its key.
LEMMA CacheLookup ==
  ASSUME SlotInv, CacheInv, NEW j \in JobId, Lookup(j)
  PROVE  CacheInv'
<1>1. PICK hit \in {CachedFile(creates[j].key), NoDir} :
        creates'[j] = [pc |-> "insert", key |-> creates[j].key, clock |-> now, hit |-> hit]
  BY Given DEF Lookup, At, Goto
<1>2. /\ creates[j].pc = "lookup" /\ creates[j].key \in Key
      /\ \A i \in JobId \ {j} : creates'[i] = creates[i]
      /\ UNCHANGED <<now, jobs, tasks, cache, disk, dbOwner>>
  BY Given, CreateShape DEF Lookup, At, Goto, Entering
<1>3. [Next]_vars
  BY DEF Next, Work, CreateStep
<1>4. SnapshotFresh'
  BY <1>1, <1>2 DEF CacheInv, SnapshotFresh
<1>5. ASSUME hit # NoDir PROVE HoldsOnly(creates[j].hit, creates[j].key)'
  <2>1. hit \in JobId /\ HoldsOnly(hit, creates[j].key)
    BY <1>1, <1>2, <1>5, Given DEF CachedFile, CacheInv, RowsSettled, Row
  <2>2. HoldsOnly(hit, creates[j].key)'
    <3> DEFINE k == creates[j].key
    <3> QED BY <1>1, <1>2, <1>3, <2>1, HoldsStable
  <2> QED BY <1>1, <2>2
<1> QED BY <1>1, <1>2, <1>3, <1>4, <1>5, Given, HandlerFrame DEF At, ExpiredRowsUnlisted

\* A listed job that a sweep's clock has outlived, and whose directory has a row, is finished.
LEMMA CacheSweepJobs ==
  ASSUME SlotInv, CacheInv, NEW j \in JobId, SweepJobs(j)
  PROVE  CacheInv'
<1> DEFINE c == creates[j].clock
<1>1. /\ creates[j].pc = "sweepJobs" /\ c <= now /\ c \in Nat
      /\ creates'[j].pc = "sweepCache" /\ creates'[j].clock = c
      /\ \A i \in JobId \ {j} : creates'[i] = creates[i]
      /\ \A i \in JobId : jobs'[i] = IF Retired(i, c) THEN NoJob ELSE jobs[i]
      /\ UNCHANGED <<now, tasks, cache, disk, dbOwner>>
  BY Given, CreateShape DEF SweepJobs, At, Goto, CacheInv, ClocksPast, Entering
<1>2. [Next]_vars
  BY DEF Next, Work, CreateStep
<1>3. \A i \in JobId : Present(i)' => Present(i) /\ jobs'[i] = jobs[i] /\ ~Retired(i, c)
  BY <1>1 DEF Present
<1>4. ASSUME NEW k \in Key, cache[k] # NoRow, Expired(cache[k].created, c)
      PROVE  ~Present(cache[k].dir)'
  <2> DEFINE d == cache[k].dir
  <2>1. d \in JobId /\ cache[k].created \in Nat
    BY <1>4, Given DEF Row
  <2>2. /\ Settled(d)
        /\ TaskAt(d, "recorded") => cache[k].created = now
        /\ Present(d) => jobs[d].created <= cache[k].created
    BY <1>4 DEF CacheInv, RowsSettled, HoldsOnly
  <2>3. tasks[d].pc # "recorded"
    BY <1>1, <1>4, <2>1, <2>2, Given DEF TaskAt, Expired
  <2>4. SUFFICES ASSUME Present(d), ~Retired(d, c) PROVE FALSE
    BY <1>1, <1>3, <2>1
  <2>5. jobs[d] \in Job
    BY <2>1, <2>4, Given DEF Present
  <2>6. jobs[d].created \in Nat /\ Expired(jobs[d].created, c)
    BY <1>1, <1>4, <2>1, <2>2, <2>4, <2>5 DEF Expired, Job
  <2>7. jobs[d].status \in {"queued", "downloading"}
    BY <2>4, <2>5, <2>6 DEF Retired, Job, JobStatus, Terminal
  <2>8. JobInvAt(d)
    BY <2>1, Given
  <2> QED BY <2>1, <2>2, <2>3, <2>7, <2>8 DEF JobInvAt, Settled, At, HoldsPermit
<1>5. RowsSettled'
  <2> SUFFICES ASSUME NEW k \in Key, cache[k] # NoRow
               PROVE  /\ HoldsOnly(cache[k].dir, k)'
                      /\ TaskAt(cache[k].dir, "recorded")' => cache'[k].created = now'
                      /\ Present(cache[k].dir)' =>
                           jobs[cache[k].dir].created' <= cache[k].created'
    BY <1>1 DEF RowsSettled
  <2> DEFINE d == cache[k].dir
  <2>1. d \in JobId /\ HoldsOnly(d, k)
    BY Given DEF Row, CacheInv, RowsSettled
  <2>2. HoldsOnly(d, k)'
    BY <1>1, <1>2, <2>1, HoldsStable
  <2>3. /\ TaskAt(d, "recorded") => cache[k].created = now
        /\ Present(d) => jobs[d].created <= cache[k].created
    BY DEF CacheInv, RowsSettled
  <2> QED BY <1>1, <1>3, <2>1, <2>2, <2>3 DEF TaskAt
<1>6. JobsSettled' /\ OwnFileKept'
  <2>1. ASSUME NEW i \in JobId, jobs'[i].status = "complete"
        PROVE  /\ jobs'[i] = jobs[i] /\ jobs[i].file \in JobId
               /\ HoldsOnly(jobs[i].file, jobs[i].key)'
    <3>1. jobs'[i] = jobs[i]
      BY <1>1, <2>1 DEF NoJob
    <3>2. jobs[i].file \in JobId /\ jobs[i].key \in Key /\ HoldsOnly(jobs[i].file, jobs[i].key)
      BY <2>1, <3>1, Given DEF CacheInv, JobsSettled, NoJob, Job
    <3> QED BY <1>2, <3>1, <3>2, HoldsStable
  <2>2. ASSUME NEW i \in JobId, At(i, "insert")', creates'[i].hit # NoDir
        PROVE  HoldsOnly(creates[i].hit, creates[i].key)'
    <3>1. i # j /\ creates'[i] = creates[i] /\ creates[i] \in Inserting
      BY <1>1, <2>2, Given, CreateShape DEF At
    <3>2. HoldsOnly(creates[i].hit, creates[i].key)
      BY <2>2, <3>1 DEF CacheInv, JobsSettled, At
    <3> QED BY <1>2, <2>2, <3>1, <3>2, HoldsStable DEF Inserting
  <2>3. JobsSettled'
    BY <2>1, <2>2 DEF JobsSettled
  <2>4. OwnFileKept'
    BY <1>1, <2>1 DEF CacheInv, OwnFileKept
  <2> QED BY <2>3, <2>4
<1>7. ExpiredRowsUnlisted'
  <2>1. ExpiredRowsUnlisted!(j)'
    BY <1>1, <1>4 DEF At
  <2>2. ASSUME NEW i \in JobId \ {j} PROVE ExpiredRowsUnlisted!(i)'
    <3>1. creates'[i] = creates[i]
      BY <1>1
    <3>2. CASE creates[i].pc \in {"sweepCache", "purging", "removing"}
      <4>1. \A k \in Key : cache[k] # NoRow /\ Expired(cache[k].created, creates[i].clock) =>
              ~Present(cache[k].dir) /\ cache[k].dir \in JobId
        BY <3>2, Given DEF CacheInv, ExpiredRowsUnlisted, Row
      <4>2. At(i, "removing") =>
              /\ creates[i].doomed \in JobId
              /\ ~Present(creates[i].doomed)
              /\ Settled(creates[i].doomed) /\ ~TaskAt(creates[i].doomed, "recorded")
              /\ \A k \in Key : cache[k].dir = creates[i].doomed =>
                   DbFaults /\ Expired(cache[k].created, creates[i].clock)
        BY Given, CreateShape DEF CacheInv, ExpiredRowsUnlisted, At, Removing
      <4> QED BY <1>1, <1>2, <1>3, <3>1, <4>1, <4>2, SettledStable DEF At, TaskAt
    <3> QED BY <3>1, <3>2 DEF At
  <2> QED BY <2>1, <2>2 DEF ExpiredRowsUnlisted
<1>8. ClocksPast' /\ SnapshotFresh'
  BY <1>1, <1>3 DEF CacheInv, ClocksPast, SnapshotFresh, Present
<1>9. DirFollowsTask'
  BY <1>1 DEF CacheInv, DirFollowsTask, At, TaskAt
<1> QED BY <1>1, <1>5, <1>6, <1>7, <1>8, <1>9 DEF CacheInv, RowsDisjoint, RowsBacked

\* What the snapshot of the sweep that holds the lock says of the row it deletes next.
LEMMA CachePurge ==
  ASSUME SlotInv, CacheInv, NEW j \in JobId, NEW r \in Entry, PurgeRow(j, r)
  PROVE  CacheInv'
<1> DEFINE c == creates[j].clock
           d == r.dir
           todo == creates[j].todo
<1>1. /\ creates[j].pc = "purging" /\ r \in todo /\ todo \subseteq Entry /\ c \in Nat /\ c <= now
      /\ creates'[j] = [pc |-> "removing", key |-> creates[j].key, clock |-> c,
                        todo |-> todo \ {r}, doomed |-> d]
      /\ \A i \in JobId \ {j} : creates'[i] = creates[i]
      /\ UNCHANGED <<now, jobs, tasks, disk, dbOwner>>
      /\ dbOwner = j /\ d \in JobId /\ r.key \in Key
      /\ r.key \in Key /\ cache[r.key] # NoRow /\ cache[r.key].dir = d
      /\ Expired(cache[r.key].created, c)
  BY Given, CreateShape DEF PurgeRow, At, Goto, CacheInv, ClocksPast, SnapshotFresh, Purging, Entry
<1>2. /\ \A k \in Key : cache'[k] # NoRow => cache[k] # NoRow /\ cache'[k] = cache[k]
      /\ \A k \in Key \ {r.key} : cache'[k] = cache[k]
      /\ ~DbFaults => cache'[r.key] = NoRow
      /\ cache' \in [Key -> Row \cup {NoRow}]
  BY <1>1, Given DEF PurgeRow
<1>3. [Next]_vars
  BY DEF Next, Work, CreateStep
<1>4. SnapshotFresh'
  <2>1. ASSUME NEW q \in todo \ {r}
        PROVE  q.key \in Key /\ q.key # r.key /\ cache[q.key] # NoRow /\ cache[q.key].dir = q.dir
               /\ Expired(cache[q.key].created, c)
    <3>1. q \in Entry /\ r \in Entry /\ q # r
      BY <1>1, <2>1
    <3>2. cache[q.key] # NoRow /\ cache[q.key].dir = q.dir /\ Expired(cache[q.key].created, c)
      BY <1>1, <2>1 DEF CacheInv, SnapshotFresh
    <3> QED BY <1>1, <3>1, <3>2 DEF Entry
  <2>2. \A i \in JobId \ {j} : creates[i].pc \notin {"purging", "removing"}
    BY <1>1 DEF CacheInv, SnapshotFresh
  <2> QED BY <1>1, <1>2, <2>1, <2>2 DEF SnapshotFresh
<1>5. RowsSettled'
  <2> SUFFICES ASSUME NEW k \in Key, cache'[k] # NoRow
               PROVE  /\ HoldsOnly(cache[k].dir, k)'
                      /\ TaskAt(cache[k].dir, "recorded")' => cache'[k].created = now'
                      /\ Present(cache[k].dir)' =>
                           jobs[cache[k].dir].created' <= cache[k].created'
    BY DEF RowsSettled
  <2>1. cache'[k] = cache[k] /\ cache[k] # NoRow /\ cache[k].dir \in JobId
    BY <1>2, Given DEF Row
  <2>2. HoldsOnly(cache[k].dir, k)
    BY <2>1 DEF CacheInv, RowsSettled
  <2>3. HoldsOnly(cache[k].dir, k)'
    BY <1>3, <2>1, <2>2, HoldsStable
  <2> QED BY <1>1, <2>1, <2>3 DEF CacheInv, RowsSettled, TaskAt, Present
<1>6. JobsSettled' /\ OwnFileKept'
  <2>1. ASSUME NEW i \in JobId, jobs'[i].status = "complete"
        PROVE  jobs'[i].file \in JobId /\ HoldsOnly(jobs[i].file, jobs[i].key)'
    <3>1. jobs[i].file \in JobId /\ jobs[i].key \in Key /\ HoldsOnly(jobs[i].file, jobs[i].key)
      BY <1>1, <2>1, Given DEF CacheInv, JobsSettled, NoJob, Job
    <3> QED BY <1>1, <1>3, <3>1, HoldsStable
  <2>2. ASSUME NEW i \in JobId, At(i, "insert")', creates'[i].hit # NoDir
        PROVE  HoldsOnly(creates[i].hit, creates[i].key)'
    <3>1. i # j /\ creates'[i] = creates[i] /\ creates[i] \in Inserting
      BY <1>1, <2>2, Given, CreateShape DEF At
    <3>2. HoldsOnly(creates[i].hit, creates[i].key)
      BY <2>2, <3>1 DEF CacheInv, JobsSettled, At
    <3> QED BY <1>3, <2>2, <3>1, <3>2, HoldsStable DEF Inserting
  <2>3. JobsSettled'
    BY <2>1, <2>2 DEF JobsSettled
  <2> QED BY <1>1, <2>3 DEF CacheInv, OwnFileKept
<1>7. ExpiredRowsUnlisted'
  <2>1. ASSUME NEW i \in JobId, creates'[i].pc \in {"sweepCache", "purging", "removing"},
               NEW k \in Key, cache'[k] # NoRow, Expired(cache[k].created, creates[i].clock)'
        PROVE  ~Present(cache[k].dir)'
    <3>1. /\ creates'[i].clock = creates[i].clock
          /\ creates[i].pc \in {"sweepCache", "purging", "removing"}
      BY <1>1, <2>1
    <3>2. cache'[k] = cache[k] /\ cache[k] # NoRow
      BY <1>2, <2>1
    <3> QED BY <1>1, <2>1, <3>1, <3>2 DEF CacheInv, ExpiredRowsUnlisted, Expired, Present
  <2>2. ASSUME NEW i \in JobId, At(i, "removing")' PROVE i = j
    BY <1>1, <2>2 DEF CacheInv, SnapshotFresh, At
  <2>3. ~Present(d) /\ Settled(d) /\ (TaskAt(d, "recorded") => cache[r.key].created = now)
    BY <1>1 DEF CacheInv, RowsSettled, HoldsOnly, ExpiredRowsUnlisted
  <2>4. ~TaskAt(d, "recorded")
    BY <1>1, <2>3, Given DEF Expired
  <2>5. Settled(d)'
    BY <1>1, <1>3, <2>3, SettledStable
  <2>6. ASSUME NEW k \in Key, cache'[k].dir = d
        PROVE  DbFaults /\ Expired(cache'[k].created, c)
    <3>1. cache'[k] # NoRow
      BY <1>1, <2>6 DEF NoRow
    <3>2. cache[k] # NoRow /\ cache'[k] = cache[k]
      BY <1>2, <3>1
    <3>3. k = r.key
      BY <1>1, <2>6, <3>2 DEF CacheInv, RowsDisjoint
    <3> QED BY <1>1, <1>2, <3>1, <3>2, <3>3
  <2>7. /\ ~Present(d)' /\ ~TaskAt(d, "recorded")'
    BY <1>1, <2>3, <2>4 DEF Present, TaskAt
  <2>8. creates'[j].doomed = d /\ creates'[j].clock = c
    BY <1>1
  <2> QED BY <2>1, <2>2, <2>5, <2>6, <2>7, <2>8 DEF ExpiredRowsUnlisted, Expired
<1>8. RowsDisjoint' /\ RowsBacked'
  <2>1. \A k, l \in Key : cache'[k] # NoRow /\ cache'[k].dir = cache'[l].dir => cache'[l] # NoRow
    BY <1>2 DEF Row, NoRow
  <2> QED BY <1>1, <1>2, <2>1 DEF CacheInv, RowsDisjoint, RowsBacked
<1>9. ClocksPast' /\ DirFollowsTask'
  <2>1. ClocksPast'
    BY <1>1, <1>2, Given DEF CacheInv, ClocksPast
  <2>2. DirFollowsTask'
    BY <1>1 DEF CacheInv, DirFollowsTask, At, TaskAt
  <2> QED BY <2>1, <2>2
<1> QED BY <1>4, <1>5, <1>6, <1>7, <1>8, <1>9 DEF CacheInv

\* What a row, a complete job and a cache hit lead to stays what it is, whatever the step.
LEMMA RowStable ==
  ASSUME SlotInv, CacheInv, [Next]_vars, now' = now, NEW k \in Key,
         cache[k] # NoRow, cache'[k] = cache[k],
         TaskAt(cache[k].dir, "recorded")' => TaskAt(cache[k].dir, "recorded"),
         Present(cache[k].dir)' => /\ Present(cache[k].dir)
                                   /\ jobs'[cache[k].dir].created = jobs[cache[k].dir].created
  PROVE  /\ HoldsOnly(cache[k].dir, k)'
         /\ TaskAt(cache[k].dir, "recorded")' => cache'[k].created = now'
         /\ Present(cache[k].dir)' => jobs[cache[k].dir].created' <= cache[k].created'
<1>1. cache[k].dir \in JobId /\ HoldsOnly(cache[k].dir, k)
  BY Given DEF Row, CacheInv, RowsSettled
<1>2. HoldsOnly(cache[k].dir, k)'
  BY <1>1, HoldsStable
<1> QED BY <1>1, <1>2 DEF CacheInv, RowsSettled

\* A complete job that a step leaves alone still leads to its video, or to nothing.
LEMMA CompleteStable ==
  ASSUME SlotInv, CacheInv, [Next]_vars, NEW i \in JobId,
         jobs[i].status = "complete", jobs'[i] = jobs[i]
  PROVE  jobs'[i].file \in JobId /\ HoldsOnly(jobs[i].file, jobs[i].key)'
<1>1. jobs[i].file \in JobId /\ jobs[i].key \in Key /\ HoldsOnly(jobs[i].file, jobs[i].key)
  BY Given DEF CacheInv, JobsSettled, NoJob, Job
<1> QED BY <1>1, HoldsStable

\* A cache hit that a step leaves alone still leads to its video, or to nothing.
LEMMA HitStable ==
  ASSUME SlotInv, CacheInv, [Next]_vars, NEW i \in JobId,
         At(i, "insert"), creates[i].hit # NoDir, creates'[i] = creates[i]
  PROVE  HoldsOnly(creates[i].hit, creates[i].key)'
<1>1. creates[i] \in Inserting /\ HoldsOnly(creates[i].hit, creates[i].key)
  BY Given, CreateShape DEF CacheInv, JobsSettled, At
<1> QED BY <1>1, HoldsStable DEF Inserting

\* A sweep that does not move keeps its rows unlisted as long as no job comes back.
LEMMA UnlistedStable ==
  ASSUME SlotInv, CacheInv, [Next]_vars, UNCHANGED cache, NEW i \in JobId,
         creates'[i] = creates[i],
         \A d \in JobId : Settled(d) /\ Present(d)' => Present(d),
         \A d \in JobId : TaskAt(d, "recorded")' => TaskAt(d, "recorded")
  PROVE  ExpiredRowsUnlisted!(i)'
<1>1. ASSUME creates[i].pc \in {"sweepCache", "purging", "removing"},
             NEW k \in Key, cache[k] # NoRow, Expired(cache[k].created, creates[i].clock)
      PROVE  ~Present(cache[k].dir)'
  <2>1. cache[k].dir \in JobId /\ Settled(cache[k].dir) /\ ~Present(cache[k].dir)
    BY <1>1, Given DEF CacheInv, RowsSettled, HoldsOnly, ExpiredRowsUnlisted, Row
  <2> QED BY <2>1 DEF Present
<1>2. ASSUME At(i, "removing")
      PROVE  /\ ~Present(creates[i].doomed)'
             /\ Settled(creates[i].doomed)' /\ ~TaskAt(creates[i].doomed, "recorded")'
             /\ \A k \in Key : cache[k].dir = creates[i].doomed =>
                  DbFaults /\ Expired(cache[k].created, creates[i].clock)
  <2> DEFINE d == creates[i].doomed
  <2>1. /\ d \in JobId /\ ~Present(d) /\ Settled(d) /\ ~TaskAt(d, "recorded")
        /\ \A k \in Key : cache[k].dir = d =>
             DbFaults /\ Expired(cache[k].created, creates[i].clock)
    BY <1>2, Given, CreateShape DEF CacheInv, ExpiredRowsUnlisted, Removing, At
  <2>2. Settled(d)'
    BY <2>1, SettledStable
  <2> QED BY <2>1, <2>2 DEF TaskAt, Present
<1> QED BY <1>1, <1>2 DEF At, Expired

\* The directory a sweep removes belongs to no listed job and to no task that is not done.
LEMMA CacheRemove ==
  ASSUME SlotInv, CacheInv, NEW j \in JobId, RemoveDir(j)
  PROVE  CacheInv'
<1> DEFINE d == creates[j].doomed
<1>1. /\ creates[j].pc = "removing" /\ d \in JobId /\ creates[j].todo \subseteq Entry
      /\ creates'[j] = [pc |-> "purging", key |-> creates[j].key, clock |-> creates[j].clock,
                        todo |-> creates[j].todo]
      /\ \A i \in JobId \ {j} : creates'[i] = creates[i] /\ creates[i].pc # "removing"
      /\ UNCHANGED <<now, jobs, tasks, cache, dbOwner>>
      /\ \A i \in JobId \ {d} : disk'[i] = disk[i]
      /\ Settled(d) /\ ~TaskAt(d, "recorded") /\ ~Present(d) /\ creates[j].clock <= now
      /\ \A k \in Key : cache[k].dir = d => DbFaults
  BY Given, CreateShape DEF RemoveDir, At, Goto, CacheInv, ClocksPast, SnapshotFresh,
                            ExpiredRowsUnlisted, Removing
<1>2. [Next]_vars
  BY DEF Next, Work, CreateStep
<1>3. SnapshotFresh' /\ ClocksPast'
  BY <1>1 DEF CacheInv, SnapshotFresh, ClocksPast
<1>4. RowsSettled'
  BY <1>1, <1>2, RowStable DEF RowsSettled, TaskAt, Present
<1>5. JobsSettled'
  <2>1. ASSUME NEW i \in JobId, jobs'[i].status = "complete"
        PROVE  jobs'[i].file \in JobId /\ HoldsOnly(jobs[i].file, jobs[i].key)'
    BY <1>1, <1>2, <2>1, CompleteStable
  <2>2. ASSUME NEW i \in JobId, At(i, "insert")', creates'[i].hit # NoDir
        PROVE  HoldsOnly(creates[i].hit, creates[i].key)'
    BY <1>1, <1>2, <2>2, HitStable DEF At
  <2> QED BY <2>1, <2>2 DEF JobsSettled
<1>6. ExpiredRowsUnlisted' /\ RowsDisjoint' /\ RowsBacked'
  <2>1. \A i \in JobId : TaskAt(i, "recorded")' => TaskAt(i, "recorded")
    BY <1>1 DEF TaskAt
  <2>2. \A i \in JobId : Present(i)' => Present(i)
    BY <1>1 DEF Present
  <2>3. \A i \in JobId \ {j} : ExpiredRowsUnlisted!(i)'
    BY <1>1, <1>2, <2>1, <2>2, UnlistedStable
  <2>4. ExpiredRowsUnlisted!(j)'
    BY <1>1 DEF CacheInv, ExpiredRowsUnlisted, At, Present, Expired
  <2>5. ExpiredRowsUnlisted'
    BY <2>3, <2>4 DEF ExpiredRowsUnlisted
  <2>6. RowsDisjoint' /\ RowsBacked'
    BY <1>1, Given DEF CacheInv, RowsDisjoint, RowsBacked, Row
  <2> QED BY <2>5, <2>6
<1>7. OwnFileKept'
  BY <1>1 DEF CacheInv, OwnFileKept, Present, NoJob
<1>8. DirFollowsTask'
  BY <1>1 DEF CacheInv, DirFollowsTask, At, TaskAt, Settled
<1> QED BY <1>3, <1>4, <1>5, <1>6, <1>7, <1>8 DEF CacheInv

\* The identifier of a job that is inserted names no directory yet.
LEMMA CacheInsert ==
  ASSUME SlotInv, CacheInv, NEW j \in JobId, InsertJob(j)
  PROVE  CacheInv'
<1>1. /\ creates[j].pc = "insert" /\ creates[j] \in Inserting
      /\ jobs[j] = NoJob /\ disk[j] = Absent /\ tasks[j] = NoTask
      /\ creates'[j].pc \in {"spawn", "done"}
      /\ \A i \in JobId \ {j} : creates'[i] = creates[i] /\ jobs'[i] = jobs[i]
      /\ UNCHANGED <<now, tasks, cache, disk, dbOwner>>
      /\ creates[j].hit # NoDir => HoldsOnly(creates[j].hit, creates[j].key)
  BY Given, CreateShape DEF InsertJob, At, Goto, JobInvAt, CacheInv, DirFollowsTask, JobsSettled,
                            Done
<1>2. PICK t \in creates[j].clock..now : jobs'[j] = NewJob(creates[j], t)
  BY <1>1, Given DEF InsertJob
<1>3. [Next]_vars
  BY DEF Next, Work, CreateStep
<1>4. t <= now
  BY <1>1, <1>2, Given DEF Inserting
<1>5. /\ jobs'[j].created = t /\ jobs'[j].key = creates[j].key /\ jobs'[j].file = creates[j].hit
      /\ jobs'[j].status = "complete" => creates[j].hit # NoDir
  BY <1>2 DEF NewJob
<1>6. SnapshotFresh' /\ ClocksPast'
  BY <1>1, <1>4, <1>5, Given DEF CacheInv, SnapshotFresh, ClocksPast
<1>7. \A d \in JobId : Settled(d) => d # j
  BY <1>1 DEF Settled, At
<1>8. RowsSettled'
  BY <1>1, <1>3, <1>7, Given, RowStable
  DEF RowsSettled, TaskAt, Present, CacheInv, HoldsOnly, Row
<1>9. JobsSettled' /\ OwnFileKept'
  <2>1. ASSUME NEW i \in JobId, jobs'[i].status = "complete"
        PROVE  jobs'[i].file \in JobId /\ HoldsOnly(jobs[i].file, jobs[i].key)'
    <3>1. CASE i = j
      <4>1. creates[j].hit \in JobId /\ creates[j].key \in Key
            /\ HoldsOnly(creates[j].hit, creates[j].key)
        BY <1>1, <1>5, <2>1, <3>1 DEF Inserting
      <4> QED BY <1>3, <1>5, <3>1, <4>1, HoldsStable
    <3>2. CASE i # j
      BY <1>1, <1>3, <2>1, <3>2, CompleteStable
    <3> QED BY <3>1, <3>2
  <2>2. ASSUME NEW i \in JobId, At(i, "insert")', creates'[i].hit # NoDir
        PROVE  HoldsOnly(creates[i].hit, creates[i].key)'
    BY <1>1, <1>3, <2>2, HitStable DEF At
  <2>3. jobs'[j].status = "complete" => jobs'[j].file # j
    BY <1>1, <1>5, <1>7 DEF HoldsOnly
  <2> QED BY <1>1, <2>1, <2>2, <2>3 DEF JobsSettled, CacheInv, OwnFileKept
<1>10. ExpiredRowsUnlisted'
  <2>1. \A i \in JobId : TaskAt(i, "recorded")' => TaskAt(i, "recorded")
    BY <1>1 DEF TaskAt
  <2>2. \A i \in JobId : Settled(i) /\ Present(i)' => Present(i)
    BY <1>1, <1>7 DEF Present
  <2>3. \A i \in JobId \ {j} : ExpiredRowsUnlisted!(i)'
    BY <1>1, <1>3, <2>1, <2>2, UnlistedStable
  <2>4. ExpiredRowsUnlisted!(j)'
    BY <1>1 DEF At
  <2> QED BY <2>3, <2>4 DEF ExpiredRowsUnlisted
<1>11. DirFollowsTask' /\ RowsDisjoint' /\ RowsBacked'
  BY <1>1 DEF CacheInv, DirFollowsTask, RowsDisjoint, RowsBacked, At, TaskAt, NoTask
<1> QED BY <1>6, <1>8, <1>9, <1>10, <1>11 DEF CacheInv

\* A task is spawned for a directory that does not exist yet.
LEMMA CacheSpawn ==
  ASSUME SlotInv, CacheInv, NEW j \in JobId, SpawnTask(j)
  PROVE  CacheInv'
<1>1. /\ creates[j].pc = "spawn" /\ disk[j] = Absent
      /\ tasks'[j].pc = "spawned" /\ creates'[j].pc = "done"
      /\ \A i \in JobId \ {j} : creates'[i] = creates[i] /\ tasks'[i] = tasks[i]
      /\ UNCHANGED <<now, jobs, cache, disk, dbOwner>>
  BY Given DEF SpawnTask, At, Goto, CacheInv, DirFollowsTask, Done
<1>2. [Next]_vars
  BY DEF Next, Work, CreateStep
<1>3. RowsSettled' /\ JobsSettled' /\ RowsDisjoint' /\ RowsBacked' /\ OwnFileKept'
  <2>1. \A d \in JobId : TaskAt(d, "recorded")' => TaskAt(d, "recorded")
    BY <1>1 DEF TaskAt
  <2>2. ASSUME NEW i \in JobId, At(i, "insert")', creates'[i].hit # NoDir
        PROVE  HoldsOnly(creates[i].hit, creates[i].key)'
    BY <1>1, <1>2, <2>2, HitStable DEF At
  <2> QED BY <1>1, <1>2, <2>1, <2>2, RowsJobsFrame
<1>4. ClocksPast' /\ SnapshotFresh' /\ DirFollowsTask'
  BY <1>1 DEF CacheInv, ClocksPast, SnapshotFresh, DirFollowsTask, At, TaskAt
<1>5. ExpiredRowsUnlisted'
  <2>1. \A i \in JobId : TaskAt(i, "recorded")' => TaskAt(i, "recorded")
    BY <1>1 DEF TaskAt
  <2>2. \A i \in JobId : Present(i)' => Present(i)
    BY <1>1 DEF Present
  <2>3. \A i \in JobId \ {j} : ExpiredRowsUnlisted!(i)'
    BY <1>1, <1>2, <2>1, <2>2, UnlistedStable
  <2>4. ExpiredRowsUnlisted!(j)'
    BY <1>1 DEF At
  <2> QED BY <2>3, <2>4 DEF ExpiredRowsUnlisted
<1> QED BY <1>3, <1>4, <1>5 DEF CacheInv

\* A step of a task that leaves the rows and the disk alone, and may edit its own job.
LEMMA TaskFrame ==
  ASSUME SlotInv, CacheInv, [Next]_vars, UNCHANGED <<now, creates, cache, disk, dbOwner>>,
         \A i \in JobId : TaskAt(i, "recorded")' => TaskAt(i, "recorded"),
         \A i \in JobId :
           \/ jobs'[i] = jobs[i]
           \/ /\ jobs[i] # NoJob /\ jobs'[i] # NoJob /\ jobs'[i].created = jobs[i].created
              /\ jobs'[i].status = "complete" =>
                   jobs'[i].file = i /\ HoldsOnly(i, jobs[i].key)' /\ disk'[i] = Video(jobs'[i].key),
         DirFollowsTask'
  PROVE  CacheInv'
<1>1. \A i \in JobId : Present(i)' => Present(i) /\ jobs'[i].created = jobs[i].created
  BY DEF Present
<1>2. RowsSettled'
  BY <1>1, Given, RowStable DEF RowsSettled, Row
<1>3. JobsSettled'
  <2>1. ASSUME NEW i \in JobId, jobs'[i].status = "complete"
        PROVE  jobs'[i].file \in JobId /\ HoldsOnly(jobs[i].file, jobs[i].key)'
    <3>1. CASE jobs'[i] = jobs[i]
      BY <2>1, <3>1, CompleteStable
    <3>2. CASE jobs'[i] # jobs[i]
      BY <2>1, <3>2
    <3> QED BY <3>1, <3>2
  <2>2. ASSUME NEW i \in JobId, At(i, "insert")', creates'[i].hit # NoDir
        PROVE  HoldsOnly(creates[i].hit, creates[i].key)'
    BY <2>2, HitStable DEF At
  <2> QED BY <2>1, <2>2 DEF JobsSettled
<1>4. OwnFileKept'
  BY DEF CacheInv, OwnFileKept
<1>5. ExpiredRowsUnlisted'
  <2>1. \A i \in JobId : ExpiredRowsUnlisted!(i)'
    BY <1>1, UnlistedStable
  <2> QED BY <2>1 DEF ExpiredRowsUnlisted
<1>6. ClocksPast'
  BY <1>1 DEF CacheInv, ClocksPast, Present
<1>7. SnapshotFresh' /\ RowsDisjoint' /\ RowsBacked'
  BY DEF CacheInv, SnapshotFresh, RowsDisjoint, RowsBacked
<1> QED BY <1>2, <1>3, <1>4, <1>5, <1>6, <1>7 DEF CacheInv

\* The steps that only move tasks and permits.
LEMMA CacheMove ==
  ASSUME SlotInv, CacheInv, NEW j \in JobId,
         Acquire(j) \/ CloneJob(j) \/ RunReturns(j) \/ ReleasePermit(j)
  PROVE  CacheInv'
<1>1. UNCHANGED <<now, jobs, creates, cache, disk, dbOwner>>
  BY DEF Acquire, CloneJob, RunReturns, ReleasePermit
<1>2. [Next]_vars
  BY DEF Next, Work, TaskStep
<1>3. \A i \in JobId : TaskAt(i, "recorded")' => TaskAt(i, "recorded")
  <2>1. CASE Acquire(j) \/ CloneJob(j) \/ ReleasePermit(j)
    BY <2>1, Given DEF Acquire, CloneJob, ReleasePermit, TaskAt, TaskGoto
  <2>2. CASE RunReturns(j)
    BY <2>2, Given, TaskShape DEF RunReturns, TaskAt, TaskGoto, Bound
  <2> QED BY <2>1, <2>2
<1>4. DirFollowsTask'
  <2>1. CASE Acquire(j)
    BY <1>1, <2>1, Given DEF Acquire, TaskAt, TaskGoto, At, CacheInv, DirFollowsTask
  <2>2. CASE CloneJob(j)
    BY <1>1, <2>2, Given DEF CloneJob, TaskAt, TaskGoto, At, CacheInv, DirFollowsTask
  <2>3. CASE RunReturns(j)
    <3>1. /\ tasks[j].pc = "running" /\ tasks[j] \in Bound
          /\ disk[j] \in {Partial, Video(tasks[j].key)}
          /\ \A i \in JobId \ {j} : tasks'[i] = tasks[i]
      BY <2>3, Given, TaskShape DEF RunReturns, TaskAt, TaskGoto, CacheInv, DirFollowsTask
    <3>2. \/ tasks'[j].pc = "fetched" /\ disk[j].state = "file"
          \/ tasks'[j].pc = "failing"
      BY <2>3, <3>1, Given DEF RunReturns, TaskAt, TaskGoto, Bound
    <3>3. tasks'[j].key = tasks[j].key
      BY <2>3, <3>1, Given DEF RunReturns, TaskAt, TaskGoto, Bound
    <3> QED BY <1>1, <3>1, <3>2, <3>3 DEF TaskAt, At, CacheInv, DirFollowsTask, Partial, Video
  <2>4. CASE ReleasePermit(j)
    BY <1>1, <2>4, Given DEF ReleasePermit, TaskAt, TaskGoto, At, CacheInv, DirFollowsTask
  <2> QED BY <2>1, <2>2, <2>3, <2>4
<1> QED BY <1>1, <1>2, <1>3, <1>4, TaskFrame

\* The steps that edit the job of a task.
LEMMA CacheEdit ==
  ASSUME SlotInv, CacheInv, NEW j \in JobId,
         MarkQueued(j) \/ MarkDownloading(j) \/ FailJob(j) \/ CompleteJob(j)
  PROVE  CacheInv'
<1>1. /\ UNCHANGED <<now, creates, cache, disk, dbOwner>>
      /\ \A i \in JobId \ {j} : jobs'[i] = jobs[i] /\ tasks'[i] = tasks[i]
      /\ tasks'[j].pc \in {"acquiring", "started", "leaving"}
      /\ tasks[j].pc \in {"spawned", "permitted", "failing", "recorded"}
      /\ tasks'[j].pc # "leaving" => tasks[j].pc \in {"spawned", "permitted"}
  BY Given DEF MarkQueued, MarkDownloading, FailJob, CompleteJob, TaskAt, TaskGoto, UpdateJob,
               Present
<1>2. [Next]_vars
  BY DEF Next, Work, TaskStep
<1>3. \A i \in JobId : TaskAt(i, "recorded")' => TaskAt(i, "recorded")
  BY <1>1 DEF TaskAt
<1>4. DirFollowsTask'
  BY <1>1, Given DEF TaskAt, At, CacheInv, DirFollowsTask, JobInvAt
<1>5. jobs[j] # NoJob /\ jobs[j] \in Job
  BY <1>1, Given DEF JobInvAt, StatusAt, NoJob, Terminal
<1>6. /\ jobs'[j] # NoJob /\ jobs'[j].created = jobs[j].created
      /\ jobs'[j].status = "complete" =>
           jobs'[j].file = j /\ HoldsOnly(j, jobs[j].key)' /\ disk'[j] = Video(jobs'[j].key)
  <2>1. CASE MarkQueued(j) \/ MarkDownloading(j) \/ FailJob(j)
    BY <1>5, <2>1, Given DEF MarkQueued, MarkDownloading, FailJob, UpdateJob, Present, Job, NoJob
  <2>2. CASE CompleteJob(j)
    <3>1. /\ jobs'[j] = [jobs[j] EXCEPT !.status = "complete", !.file = j]
          /\ tasks[j].pc = "recorded" /\ tasks'[j].pc = "leaving"
      BY <1>5, <2>2, Given DEF CompleteJob, UpdateJob, Present, TaskAt, TaskGoto
    <3>2. tasks[j].key = jobs[j].key /\ disk[j] = Video(tasks[j].key) /\ creates[j].pc = "done"
      BY <3>1, Given, TaskShape DEF JobInvAt, CacheInv, DirFollowsTask, NoTask
    <3>3. HoldsOnly(j, jobs[j].key)'
      BY <1>1, <1>5, <3>1, <3>2 DEF HoldsOnly, Settled, At, Job
    <3> QED BY <1>1, <1>5, <3>1, <3>2, <3>3 DEF Job, NoJob
  <2> QED BY <2>1, <2>2
<1> QED BY <1>1, <1>2, <1>3, <1>4, <1>5, <1>6, TaskFrame

\* Only the task of a directory adds to it, and nothing leads there before it is done.
LEMMA CacheDisk ==
  ASSUME SlotInv, CacheInv, NEW j \in JobId, CreateDir(j) \/ FileWritten(j)
  PROVE  CacheInv'
<1>1. /\ UNCHANGED <<now, jobs, creates, cache, dbOwner>>
      /\ \A i \in JobId \ {j} : disk'[i] = disk[i] /\ tasks'[i] = tasks[i]
      /\ tasks[j].pc \in {"preparing", "running"} /\ tasks[j] \in Bound
      /\ tasks'[j].pc \in {"running", "failing"} /\ tasks'[j].key = tasks[j].key
      /\ tasks'[j].pc = "running" => disk'[j] \in {Partial, Video(tasks[j].key)}
  <2>1. CASE CreateDir(j)
    <3>1. tasks[j].pc = "preparing" /\ tasks[j] \in Bound /\ disk[j] = Absent
      BY <2>1, Given, TaskShape DEF CreateDir, TaskAt, CacheInv, DirFollowsTask
    <3> QED BY <2>1, <3>1, Given DEF CreateDir, TaskAt, TaskGoto, Bound
  <2>2. CASE FileWritten(j)
    BY <2>2, Given, TaskShape DEF FileWritten, TaskAt
  <2> QED BY <2>1, <2>2
<1>2. [Next]_vars
  BY DEF Next, Work, TaskStep
<1>3. \A i \in JobId : Settled(i) => i # j
  BY <1>1 DEF Settled
<1>4. \A i \in JobId : TaskAt(i, "recorded")' => TaskAt(i, "recorded")
  BY <1>1 DEF TaskAt
<1>5. RowsSettled'
  BY <1>1, <1>2, <1>4, Given, RowStable DEF RowsSettled, Row, Present
<1>6. JobsSettled'
  <2>1. ASSUME NEW i \in JobId, jobs'[i].status = "complete"
        PROVE  jobs'[i].file \in JobId /\ HoldsOnly(jobs[i].file, jobs[i].key)'
    BY <1>1, <1>2, <2>1, CompleteStable
  <2>2. ASSUME NEW i \in JobId, At(i, "insert")', creates'[i].hit # NoDir
        PROVE  HoldsOnly(creates[i].hit, creates[i].key)'
    BY <1>1, <1>2, <2>2, HitStable DEF At
  <2> QED BY <2>1, <2>2 DEF JobsSettled
<1>7. OwnFileKept'
  BY <1>1, <1>3 DEF CacheInv, OwnFileKept, JobsSettled, HoldsOnly
<1>8. RowsBacked'
  BY <1>1, <1>3, Given DEF CacheInv, RowsBacked, RowsSettled, HoldsOnly, Row
<1>9. ExpiredRowsUnlisted'
  <2>1. \A i \in JobId : ExpiredRowsUnlisted!(i)'
    BY <1>1, <1>2, <1>4, UnlistedStable DEF Present
  <2> QED BY <2>1 DEF ExpiredRowsUnlisted
<1>10. ClocksPast' /\ SnapshotFresh' /\ RowsDisjoint'
  BY <1>1 DEF CacheInv, ClocksPast, SnapshotFresh, RowsDisjoint
<1>11. DirFollowsTask'
  BY <1>1, Given DEF CacheInv, DirFollowsTask, At, TaskAt, JobInvAt, NoTask
<1> QED BY <1>5, <1>6, <1>7, <1>8, <1>9, <1>10, <1>11 DEF CacheInv

\* The row of a download is written while no sweep holds the lock.
LEMMA CacheRecord ==
  ASSUME SlotInv, CacheInv, NEW j \in JobId, RecordDownload(j)
  PROVE  CacheInv'
<1> DEFINE k == tasks[j].key
<1>1. /\ tasks[j].pc = "fetched" /\ tasks[j] \in Bound /\ k \in Key /\ dbOwner = NoDir
      /\ UNCHANGED <<now, jobs, creates, disk, dbOwner>>
      /\ tasks'[j].pc = "recorded" /\ tasks'[j].key = k
      /\ \A i \in JobId \ {j} : tasks'[i] = tasks[i]
      /\ disk[j] = Video(k) /\ creates[j].pc = "done"
      /\ \A l \in Key \ {k} : cache'[l] = cache[l]
      /\ cache'[k] = cache[k] \/ cache'[k] = [dir |-> j, created |-> now]
  <2>1. tasks[j].pc = "fetched" /\ tasks[j] \in Bound
    BY Given, TaskShape DEF RecordDownload, TaskAt
  <2> QED BY <2>1, Given DEF RecordDownload, TaskAt, TaskGoto, Bound, CacheInv, DirFollowsTask,
                             JobInvAt, NoTask
<1>2. [Next]_vars
  BY DEF Next, Work, TaskStep
<1>3. \A i \in JobId : Settled(i) => i # j
  BY <1>1 DEF Settled
<1>4. \A i \in JobId \ {j} : TaskAt(i, "recorded")' => TaskAt(i, "recorded")
  BY <1>1 DEF TaskAt
<1>5. \A l \in Key : cache[l] # NoRow => cache[l].dir \in JobId \ {j}
  BY <1>3, Given DEF CacheInv, RowsSettled, HoldsOnly, Row
<1>6. RowsSettled'
  <2>1. HoldsOnly(j, k)'
    BY <1>1 DEF HoldsOnly, Settled, At
  <2>2. Present(j)' => jobs'[j].created <= now
    BY <1>1 DEF CacheInv, ClocksPast, Present
  <2> SUFFICES ASSUME NEW l \in Key, cache'[l] # NoRow
               PROVE  /\ HoldsOnly(cache[l].dir, l)'
                      /\ TaskAt(cache[l].dir, "recorded")' => cache'[l].created = now'
                      /\ Present(cache[l].dir)' =>
                           jobs[cache[l].dir].created' <= cache[l].created'
    BY DEF RowsSettled
  <2>3. CASE cache'[l] = cache[l]
    BY <1>1, <1>2, <1>4, <1>5, <2>3, RowStable DEF Present
  <2>4. CASE cache'[l] # cache[l]
    <3>1. l = k /\ cache'[l].dir = j /\ cache'[l].created = now
      BY <1>1, <2>4
    <3> QED BY <1>1, <2>1, <2>2, <3>1
  <2> QED BY <2>3, <2>4
<1>7. JobsSettled'
  <2>1. ASSUME NEW i \in JobId, jobs'[i].status = "complete"
        PROVE  jobs'[i].file \in JobId /\ HoldsOnly(jobs[i].file, jobs[i].key)'
    BY <1>1, <1>2, <2>1, CompleteStable
  <2>2. ASSUME NEW i \in JobId, At(i, "insert")', creates'[i].hit # NoDir
        PROVE  HoldsOnly(creates[i].hit, creates[i].key)'
    BY <1>1, <1>2, <2>2, HitStable DEF At
  <2> QED BY <2>1, <2>2 DEF JobsSettled
<1>8. SnapshotFresh' /\ \A i \in JobId : creates[i].pc \notin {"purging", "removing"}
  BY <1>1 DEF CacheInv, SnapshotFresh
<1>9. ExpiredRowsUnlisted'
  <2>1. ASSUME NEW i \in JobId, creates[i].pc = "sweepCache",
               NEW l \in Key, cache'[l] # NoRow, Expired(cache'[l].created, creates[i].clock)
        PROVE  ~Present(cache'[l].dir)
    <3>1. CASE cache'[l] = cache[l]
      BY <2>1, <3>1 DEF CacheInv, ExpiredRowsUnlisted
    <3>2. CASE cache'[l] # cache[l]
      <4>1. cache'[l].created = now /\ creates[i].clock <= now /\ creates[i].clock \in Nat
        BY <1>1, <2>1, <3>2, Given, CreateShape DEF CacheInv, ClocksPast, Entering
      <4> QED BY <2>1, <4>1, Given DEF Expired
    <3> QED BY <3>1, <3>2
  <2> QED BY <1>1, <1>8, <2>1 DEF ExpiredRowsUnlisted, At, Present, Expired
<1>10. RowsDisjoint'
  <2>1. ASSUME NEW l \in Key, NEW m \in Key, cache'[l] # NoRow, cache'[l].dir = cache'[m].dir
        PROVE  l = m
    <3>1. \A n \in Key : cache'[n] = cache[n] \/ (n = k /\ cache'[n].dir = j)
      BY <1>1
    <3>2. cache[m] = NoRow => cache[m].dir \notin JobId
      BY JobIdAssumption DEF NoRow
    <3> QED BY <1>5, <2>1, <3>1, <3>2 DEF CacheInv, RowsDisjoint
  <2> QED BY <2>1 DEF RowsDisjoint
<1>11. RowsBacked' /\ OwnFileKept'
  BY <1>1 DEF CacheInv, RowsBacked, OwnFileKept
<1>12. ClocksPast'
  BY <1>1, Given DEF CacheInv, ClocksPast
<1>13. DirFollowsTask'
  BY <1>1 DEF CacheInv, DirFollowsTask, At, TaskAt
<1> QED BY <1>6, <1>7, <1>8, <1>9, <1>10, <1>11, <1>12, <1>13 DEF CacheInv

\* Time passes between the row of a download and the next step of its task only once the
\* task is past that row.
LEMMA CacheTick ==
  ASSUME SlotInv, CacheInv, Tick
  PROVE  CacheInv'
<1>1. /\ now' = now + 1 /\ now \in Nat /\ \A j \in JobId : ~TaskAt(j, "recorded")
      /\ UNCHANGED <<jobs, creates, tasks, cache, disk, dbOwner>>
  BY Given DEF Tick
<1>2. ClocksPast'
  <2>1. /\ \A j \in JobId : jobs[j] # NoJob => jobs[j].created \in Nat
        /\ \A k \in Key : cache[k] # NoRow => cache[k].created \in Nat
        /\ \A j \in JobId : creates[j].pc \notin {"idle", "spawn", "done"} =>
             creates[j].clock \in Nat
    BY Given DEF Job, Row, Create, Entering, Purging, Removing, Inserting, Spawning, Idle, Done
  <2> QED BY <1>1, <2>1 DEF CacheInv, ClocksPast
<1>3. RowsSettled'
  BY <1>1, Given DEF CacheInv, RowsSettled, HoldsOnly, Settled, At, TaskAt, Present, Row
<1>4. SnapshotFresh' /\ RowsDisjoint' /\ RowsBacked' /\ OwnFileKept'
  BY <1>1 DEF CacheInv, SnapshotFresh, RowsDisjoint, RowsBacked, OwnFileKept
<1>5. DirFollowsTask' /\ JobsSettled' /\ ExpiredRowsUnlisted'
  BY <1>1 DEF CacheInv, DirFollowsTask, JobsSettled, ExpiredRowsUnlisted, HoldsOnly, Settled, At,
              TaskAt, Present, Expired
<1> QED BY <1>2, <1>3, <1>4, <1>5 DEF CacheInv

\* A crash loses the jobs and the sweeps; rows and directories survive it.
LEMMA CacheRestart ==
  ASSUME SlotInv, CacheInv, Restart
  PROVE  CacheInv'
<1>1. /\ UNCHANGED <<now, cache, disk>> /\ dbOwner' = NoDir
      /\ \A j \in JobId : /\ jobs'[j] = NoJob /\ jobs'[j].status = "absent"
                          /\ tasks'[j].pc = "none"
                          /\ creates'[j].pc = IF creates[j].pc = "idle" THEN "idle" ELSE "done"
  BY DEF Restart, NoJob, NoTask, Idle, Done, At
<1>2. [Next]_vars
  BY DEF Next
<1>3. RowsSettled'
  BY <1>1, <1>2, Given, RowStable DEF RowsSettled, Row, TaskAt, Present
<1>4. ClocksPast' /\ DirFollowsTask' /\ JobsSettled' /\ ExpiredRowsUnlisted' /\ OwnFileKept'
  BY <1>1 DEF CacheInv, ClocksPast, DirFollowsTask, JobsSettled, ExpiredRowsUnlisted, OwnFileKept,
              At, TaskAt
<1>5. SnapshotFresh' /\ RowsDisjoint' /\ RowsBacked'
  BY <1>1 DEF CacheInv, SnapshotFresh, RowsDisjoint, RowsBacked
<1> QED BY <1>3, <1>4, <1>5 DEF CacheInv

\* Every step preserves CacheInv.
LEMMA CacheNext ==
  ASSUME SlotInv, CacheInv, [Next]_vars
  PROVE  CacheInv'
<1>1. ASSUME NEW j \in JobId, CreateStep(j) PROVE CacheInv'
  BY <1>1, CacheSweepJobs, CacheSnapshot, CachePurge, CacheRemove, CacheEndSweep, CacheLookup,
     CacheInsert, CacheSpawn
  DEF CreateStep
<1>2. ASSUME NEW j \in JobId, TaskStep(j) PROVE CacheInv'
  BY <1>2, CacheMove, CacheEdit, CacheDisk, CacheRecord DEF TaskStep
<1>3. CASE UNCHANGED vars
  <2>1. UNCHANGED <<now, jobs, creates, tasks, cache, disk, dbOwner>>
    BY <1>3 DEF vars
  <2> QED BY <2>1 DEF CacheInv, ClocksPast, SnapshotFresh, DirFollowsTask, RowsSettled, JobsSettled,
                      ExpiredRowsUnlisted, RowsDisjoint, RowsBacked, OwnFileKept, HoldsOnly,
                      Settled, At, TaskAt, Present
<1> QED BY <1>1, <1>2, <1>3, CacheBegin, CacheTick, CacheRestart DEF Next, Work

\* The inductive invariant of the cache: where the rows, the complete jobs, the directories
\* and the snapshot of a sweep lead, at every point of every interleaving.
THEOREM CacheInvariant == Spec => []CacheInv
<1>1. Init => CacheInv
  BY CacheInit
<1>2. SlotInv /\ CacheInv /\ [Next]_vars => CacheInv'
  BY CacheNext
<1> QED BY <1>1, <1>2, SlotInvariant, PTL DEF Spec

\* With a database that works, every row of download_cache leads to its finished file: the
\* row is written after the file and deleted before it.
THEOREM RowsAlwaysBacked == Spec => []RowsBacked
<1>1. CacheInv => RowsBacked
  BY DEF CacheInv
<1> QED BY <1>1, CacheInvariant, PTL

\* A job that fetched its own file has it while it is listed.
THEOREM OwnFilesKept == Spec => []OwnFileKept
<1>1. CacheInv => OwnFileKept
  BY DEF CacheInv
<1> QED BY <1>1, CacheInvariant, PTL

\* No row and no complete job leads to the video of another key, whatever statement fails.
THEOREM NoForeignVideos == Spec => []NoForeignVideo
<1>1. CacheInv => NoForeignVideo
  BY DEF CacheInv, NoForeignVideo, RowsSettled, JobsSettled, HoldsOnly
<1> QED BY <1>1, CacheInvariant, PTL

\* A sweep removes no directory that a task works in or that a fresh row leads to.
THEOREM SweepsSpareLiveDirs == Spec => SweepSparesLiveDirs
<1>1. ASSUME SlotInv, CacheInv, [Next]_vars, NEW d \in JobId, Removed(d)
      PROVE  /\ tasks[d].pc \in {"none", "leaving", "exited"}
             /\ \A k \in Key : cache[k].dir = d => Expired(cache[k].created, now)
  <2>1. PICK j \in JobId : RemoveDir(j) /\ creates[j].doomed = d
    <3>1. ASSUME NEW j \in JobId, CreateDir(j) \/ FileWritten(j) PROVE FALSE
      <4>1. disk'[d] # disk[d] /\ disk[d] # Absent /\ disk'[d].state # "file"
        BY <1>1 DEF Removed
      <4>2. CASE CreateDir(j)
        BY <1>1, <4>1, <4>2, Given DEF CreateDir
      <4>3. CASE FileWritten(j)
        BY <1>1, <4>1, <4>3, Given DEF FileWritten, Video
      <4> QED BY <3>1, <4>2, <4>3
    <3>2. disk' # disk
      BY <1>1 DEF Removed
    <3>3. \E j \in JobId : RemoveDir(j)
      BY <1>1, <3>1, <3>2
      DEF Next, Work, vars, BeginCreate, CreateStep, SweepJobs, SnapshotCache, PurgeRow,
          EndSweep, Lookup, InsertJob, SpawnTask, TaskStep, MarkQueued, Acquire, MarkDownloading,
          CloneJob, RunReturns, RecordDownload, CompleteJob, FailJob, ReleasePermit, Tick, Restart
    <3> QED BY <1>1, <3>3, Given DEF RemoveDir, Removed
  <2>2. creates[j].pc = "removing" /\ creates[j].clock \in Nat /\ creates[j].clock <= now
    BY <1>1, <2>1, Given, CreateShape DEF RemoveDir, At, Removing, CacheInv, ClocksPast
  <2>3. /\ Settled(d) /\ ~TaskAt(d, "recorded")
        /\ \A k \in Key : cache[k].dir = d => Expired(cache[k].created, creates[j].clock)
    BY <1>1, <2>1, <2>2 DEF CacheInv, ExpiredRowsUnlisted, At
  <2>4. \A k \in Key : cache[k].created \in Nat
    BY <1>1, Given DEF Row, NoRow
  <2> QED BY <1>1, <2>2, <2>3, <2>4, Given DEF Settled, TaskAt, Expired
<1>2. SlotInv /\ CacheInv /\ [Next]_vars => [RemovesOnlyExpired]_vars
  BY <1>1 DEF RemovesOnlyExpired
<1> QED BY <1>2, SlotInvariant, CacheInvariant, PTL DEF Spec, SweepSparesLiveDirs

\* A row leaves the cache only past its retention.
THEOREM OnlyExpiredRowsLeave == Spec => OnlyExpiredRowsGo
<1>1. ASSUME SlotInv, CacheInv, [Next]_vars, NEW k \in Key, cache[k] # NoRow, cache'[k] = NoRow
      PROVE  Expired(cache[k].created, now)
  <2>1. ASSUME NEW j \in JobId, RecordDownload(j) PROVE FALSE
    <3>1. \/ cache' = cache
          \/ cache' = [cache EXCEPT ![tasks[j].key] = [dir |-> j, created |-> now]]
      BY <2>1 DEF RecordDownload
    <3>2. [dir |-> j, created |-> now] # NoRow
      BY JobIdAssumption DEF NoRow
    <3> QED BY <1>1, <3>1, <3>2, Given
  <2>2. cache' # cache
    BY <1>1
  <2>3. PICK j \in JobId, r \in Entry : PurgeRow(j, r)
    BY <1>1, <2>1, <2>2
    DEF Next, Work, vars, BeginCreate, CreateStep, SweepJobs, SnapshotCache, RemoveDir,
        EndSweep, Lookup, InsertJob, SpawnTask, TaskStep, MarkQueued, Acquire, MarkDownloading,
        CloneJob, CreateDir, FileWritten, RunReturns, CompleteJob, FailJob, ReleasePermit, Tick,
        Restart
  <2>4. /\ creates[j].pc = "purging" /\ creates[j].clock \in Nat /\ creates[j].clock <= now
        /\ r \in creates[j].todo /\ k = r.key
    BY <1>1, <2>3, Given, CreateShape DEF PurgeRow, At, Purging, CacheInv, ClocksPast
  <2>5. Expired(cache[k].created, creates[j].clock)
    BY <1>1, <2>4 DEF CacheInv, SnapshotFresh
  <2> QED BY <1>1, <2>4, <2>5, Given DEF Expired, Row
<1>2. SlotInv /\ CacheInv /\ [Next]_vars =>
        [\A k \in Key : cache[k] # NoRow /\ cache'[k] = NoRow => Expired(cache[k].created, now)]_vars
  BY <1>1
<1> QED BY <1>2, SlotInvariant, CacheInvariant, PTL DEF Spec, OnlyExpiredRowsGo

(***************************************************************************)
(* Progress.  The fairness of a task is spelled out with its guard, which  *)
(* is what ENABLED of its next step comes to.                              *)
(***************************************************************************)

\* There is no circular wait: who waits for a permit waits for a task that has one, which goes
\* on or waits for its run or for the database mutex; who waits for that mutex waits for a
\* sweep, and a sweep that has it waits for nobody.
THEOREM NoCircularWait == Spec => []NobodyWaitsInVain
<1>1. ASSUME SlotInv, CacheInv PROVE NobodyWaitsInVain
  <2>1. CASE dbOwner # NoDir
    <3>1. creates[dbOwner].pc \in {"purging", "removing"} /\ dbOwner \in JobId
      BY <1>1, <2>1, Given DEF CacheInv, SnapshotFresh
    <3> QED BY <3>1 DEF NobodyWaitsInVain, CreateReady
  <2>2. CASE dbOwner = NoDir
    <3>1. ASSUME NEW j \in JobId, TaskAt(j, "waiting")
          PROVE  \E i \in JobId : TaskReady(i) \/ TaskAt(i, "running")
      <4>1. waiters # <<>>
        BY <1>1, <3>1 DEF SlotInv, WaitersAreWaiting
      <4>2. Cardinality(Holders) = MaxActive
        BY <1>1, <4>1, HoldersFinite DEF SlotInv, SlotsAccounted
      <4>3. Holders # {}
        BY <4>2, FS_EmptySet
      <4>4. PICK i \in JobId : tasks[i].pc \in HoldsPermit
        BY <4>3 DEF Holders
      <4> QED BY <2>2, <4>4 DEF TaskReady, TaskAt, HoldsPermit
    <3> QED BY <2>2, <3>1 DEF NobodyWaitsInVain, CreateReady, TaskReady, TaskAt
  <2> QED BY <2>1, <2>2
<1> QED BY <1>1, SlotInvariant, CacheInvariant, PTL


\* Nothing is asked of a run: a task is fair only in the steps that are not up to yt-dlp.
TaskFairness(j) == []<>(~TaskReady(j)) \/ []<><<OwnStep(j)>>_vars

\* It waits for a sweep; it is at its end; it holds a permit.
DbBlocked(j) == TaskAt(j, "fetched") /\ dbOwner # NoDir
Ending(j) == tasks[j].pc \in {"recorded", "failing"}
Holding(j) == tasks[j].pc \in HoldsPermit

\* A task that holds a permit moves by its own steps, or is lost in a restart.
LEMMA HolderMoves ==
  ASSUME SlotInv, [Next]_vars, NEW j \in JobId, Holding(j)
  PROVE  TaskStep(j) \/ tasks'[j] = tasks[j] \/ tasks'[j] = NoTask
<1>1. CASE Restart
  BY <1>1 DEF Restart
<1>2. CASE Tick \/ UNCHANGED vars
  BY <1>2 DEF Tick, vars
<1>3. ASSUME NEW i \in JobId, TaskStep(i), i # j PROVE tasks'[j] = tasks[j]
  <2>1. CASE ReleasePermit(i)
    <3>1. waiters # <<>> => Head(waiters) # j
      BY Given DEF SlotInv, WaitersAreWaiting, TypeOK, TaskAt, Holding, HoldsPermit
    <3> QED BY <1>3, <2>1, <3>1, Given DEF ReleasePermit, TaskGoto
  <2>2. CASE ~ReleasePermit(i)
    BY <1>3, <2>2, Given
       DEF TaskStep, MarkQueued, Acquire, MarkDownloading, CloneJob, CreateDir, FileWritten,
           RunReturns, RecordDownload, CompleteJob, FailJob, TaskGoto
  <2> QED BY <2>1, <2>2
<1>4. ASSUME NEW i \in JobId, CreateStep(i) PROVE tasks'[j] = tasks[j]
  <2>1. CASE SpawnTask(i)
    <3>1. tasks[i] = NoTask
      BY <2>1, Given DEF SpawnTask, JobInvAt, At
    <3>2. i # j
      BY <3>1 DEF NoTask, Holding, HoldsPermit
    <3> QED BY <2>1, <3>2, Given DEF SpawnTask
  <2>2. CASE ~SpawnTask(i)
    BY <1>4, <2>2
       DEF CreateStep, SweepJobs, SnapshotCache, PurgeRow, RemoveDir, EndSweep, Lookup, InsertJob
  <2> QED BY <2>1, <2>2
<1>5. ASSUME NEW i \in JobId, NEW k \in Key, BeginCreate(i, k) PROVE tasks'[j] = tasks[j]
  BY <1>5 DEF BeginCreate
<1> QED BY <1>1, <1>2, <1>3, <1>4, <1>5 DEF Next, Work

\* Where the next step of a task that holds a permit leads.
LEMMA HolderAdvances ==
  ASSUME SlotInv, NEW j \in JobId, TaskStep(j)
  PROVE  /\ TaskAt(j, "permitted") => TaskAt(j, "started")'
         /\ TaskAt(j, "started") => TaskAt(j, "preparing")' \/ TaskAt(j, "leaving")'
         /\ TaskAt(j, "preparing") => TaskAt(j, "running")' \/ Ending(j)'
         /\ TaskAt(j, "running") => TaskAt(j, "running")' \/ TaskAt(j, "fetched")' \/ Ending(j)'
         /\ TaskAt(j, "fetched") => Ending(j)'
         /\ Ending(j) => TaskAt(j, "leaving")'
         /\ TaskAt(j, "leaving") => ~Holding(j)'
<1>0. tasks \in [JobId -> Task]
  BY Given
<1> USE DEF TaskAt, TaskGoto, Ending, Holding
<1>1. CASE MarkQueued(j) \/ Acquire(j)
  BY <1>1 DEF MarkQueued, Acquire
<1>2. CASE MarkDownloading(j) \/ CloneJob(j)
  BY <1>0, <1>2 DEF MarkDownloading, CloneJob
<1>3. CASE CreateDir(j)
  <2>1. tasks[j] \in Bound
    BY <1>3, TaskShape, Given DEF CreateDir
  <2> QED BY <1>0, <1>3, <2>1 DEF CreateDir, Bound
<1>4. CASE FileWritten(j)
  BY <1>4 DEF FileWritten
<1>5. CASE RunReturns(j) \/ RecordDownload(j)
  <2>1. tasks[j] \in Bound
    BY <1>5, TaskShape, Given DEF RunReturns, RecordDownload
  <2> QED BY <1>0, <1>5, <2>1 DEF RunReturns, RecordDownload, Bound
<1>6. CASE CompleteJob(j) \/ FailJob(j)
  BY <1>0, <1>6 DEF CompleteJob, FailJob
<1>7. CASE ReleasePermit(j)
  <2>1. waiters # <<>> => Head(waiters) # j /\ Head(waiters) \in JobId
    BY <1>7, Given DEF ReleasePermit, SlotInv, WaitersAreWaiting, TypeOK
  <2>2. tasks'[j].pc = "exited"
    BY <1>0, <1>7, <2>1 DEF ReleasePermit
  <2> QED BY <1>7, <2>2 DEF ReleasePermit, HoldsPermit
<1> QED BY <1>1, <1>2, <1>3, <1>4, <1>5, <1>6, <1>7 DEF TaskStep

\* A task that holds a permit stays where it is, goes on, or is lost.
LEMMA HolderStages ==
  ASSUME SlotInv, [Next]_vars, NEW j \in JobId
  PROVE  /\ TaskAt(j, "permitted") =>
              TaskAt(j, "permitted")' \/ TaskAt(j, "started")' \/ ~Holding(j)'
         /\ TaskAt(j, "started") =>
              TaskAt(j, "started")' \/ TaskAt(j, "preparing")'
                \/ TaskAt(j, "leaving")' \/ ~Holding(j)'
         /\ TaskAt(j, "preparing") =>
              TaskAt(j, "preparing")' \/ TaskAt(j, "running")' \/ Ending(j)' \/ ~Holding(j)'
         /\ TaskAt(j, "running") =>
              TaskAt(j, "running")' \/ TaskAt(j, "fetched")' \/ Ending(j)' \/ ~Holding(j)'
         /\ TaskAt(j, "fetched") =>
              TaskAt(j, "fetched")' \/ Ending(j)' \/ ~Holding(j)'
         /\ Ending(j) =>
              Ending(j)' \/ TaskAt(j, "leaving")' \/ ~Holding(j)'
         /\ TaskAt(j, "leaving") =>
              TaskAt(j, "leaving")' \/ ~Holding(j)'
<1> USE DEF TaskAt, Ending, Holding, HoldsPermit, NoTask
<1>1. CASE TaskStep(j)
  BY <1>1, HolderAdvances
<1>2. CASE tasks'[j] = tasks[j]
  BY <1>2
<1>3. CASE tasks'[j] = NoTask
  BY <1>3
<1>4. CASE ~Holding(j)
  BY <1>4
<1> QED BY <1>1, <1>2, <1>3, <1>4, HolderMoves

\* A permit comes back, whatever other tasks, handlers, the clock and restarts do, unless its
\* run never returns or its task finds the database mutex taken again and again: a task waits
\* for these two and for nothing else.  What can hold a run is an open stderr
\* (OnlyStderrHolds of YtdlpRun_proofs).
THEOREM PermitsComeBack ==
  ASSUME NEW j \in JobId
  PROVE  Spec /\ TaskFairness(j) =>
           [](Holding(j) => <>(~Holding(j)) \/ <>[]TaskAt(j, "running") \/ []<>DbBlocked(j))
<1>1. Spec => []SlotInv
  BY SlotInvariant
<1>2. Holding(j) => \/ TaskAt(j, "permitted") \/ TaskAt(j, "started") \/ TaskAt(j, "preparing")
                   \/ TaskAt(j, "running") \/ TaskAt(j, "fetched") \/ Ending(j)
                   \/ TaskAt(j, "leaving")
  BY DEF Holding, HoldsPermit, TaskAt, Ending
<1>3. Spec /\ TaskFairness(j) =>
       [](TaskAt(j, "permitted") => <>TaskAt(j, "started") \/ <>(~Holding(j)))
  <2>1. SlotInv /\ [Next]_vars /\ TaskAt(j, "permitted")
          => TaskAt(j, "permitted")' \/ TaskAt(j, "started")' \/ ~Holding(j)'
    BY HolderStages
  <2>2. SlotInv /\ <<OwnStep(j)>>_vars /\ TaskAt(j, "permitted") => TaskAt(j, "started")'
    BY HolderAdvances DEF OwnStep
  <2>3. TaskAt(j, "permitted") => TaskReady(j)
    BY DEF TaskReady, TaskAt
  <2> QED BY <1>1, <2>1, <2>2, <2>3, PTL DEF TaskFairness, Spec
<1>4. Spec /\ TaskFairness(j) =>
       [](TaskAt(j, "started") =>
            <>TaskAt(j, "preparing") \/ <>TaskAt(j, "leaving") \/ <>(~Holding(j)))
  <2>1. SlotInv /\ [Next]_vars /\ TaskAt(j, "started")
          => TaskAt(j, "started")' \/ TaskAt(j, "preparing")'
               \/ TaskAt(j, "leaving")' \/ ~Holding(j)'
    BY HolderStages
  <2>2. SlotInv /\ <<OwnStep(j)>>_vars /\ TaskAt(j, "started")
          => TaskAt(j, "preparing")' \/ TaskAt(j, "leaving")'
    BY HolderAdvances DEF OwnStep
  <2>3. TaskAt(j, "started") => TaskReady(j)
    BY DEF TaskReady, TaskAt
  <2> QED BY <1>1, <2>1, <2>2, <2>3, PTL DEF TaskFairness, Spec
<1>5. Spec /\ TaskFairness(j) =>
       [](TaskAt(j, "preparing") => <>TaskAt(j, "running") \/ <>Ending(j) \/ <>(~Holding(j)))
  <2>1. SlotInv /\ [Next]_vars /\ TaskAt(j, "preparing")
          => TaskAt(j, "preparing")' \/ TaskAt(j, "running")' \/ Ending(j)' \/ ~Holding(j)'
    BY HolderStages
  <2>2. SlotInv /\ <<OwnStep(j)>>_vars /\ TaskAt(j, "preparing")
          => TaskAt(j, "running")' \/ Ending(j)'
    BY HolderAdvances DEF OwnStep, TaskAt
  <2>3. TaskAt(j, "preparing") => TaskReady(j)
    BY DEF TaskReady, TaskAt
  <2> QED BY <1>1, <2>1, <2>2, <2>3, PTL DEF TaskFairness, Spec
<1>6. Spec =>
       [](TaskAt(j, "running") =>
            []TaskAt(j, "running") \/ <>TaskAt(j, "fetched") \/ <>Ending(j) \/ <>(~Holding(j)))
  <2>1. SlotInv /\ [Next]_vars /\ TaskAt(j, "running")
          => TaskAt(j, "running")' \/ TaskAt(j, "fetched")' \/ Ending(j)' \/ ~Holding(j)'
    BY HolderStages
  <2> QED BY <1>1, <2>1, PTL DEF Spec
<1>7. Spec /\ TaskFairness(j) =>
       [](TaskAt(j, "fetched") => <>Ending(j) \/ <>(~Holding(j)) \/ []<>DbBlocked(j))
  <2>1. SlotInv /\ [Next]_vars /\ TaskAt(j, "fetched")
          => TaskAt(j, "fetched")' \/ Ending(j)' \/ ~Holding(j)'
    BY HolderStages
  <2>2. SlotInv /\ <<OwnStep(j)>>_vars /\ TaskAt(j, "fetched") => Ending(j)'
    BY HolderAdvances DEF OwnStep
  <2>3. TaskAt(j, "fetched") => TaskReady(j) \/ DbBlocked(j)
    BY DEF TaskReady, DbBlocked, TaskAt
  <2> QED BY <1>1, <2>1, <2>2, <2>3, PTL DEF TaskFairness, Spec
<1>8. Spec /\ TaskFairness(j) => [](Ending(j) => <>TaskAt(j, "leaving") \/ <>(~Holding(j)))
  <2>1. SlotInv /\ [Next]_vars /\ Ending(j)
          => Ending(j)' \/ TaskAt(j, "leaving")' \/ ~Holding(j)'
    BY HolderStages
  <2>2. SlotInv /\ <<OwnStep(j)>>_vars /\ Ending(j) => TaskAt(j, "leaving")'
    BY HolderAdvances DEF OwnStep
  <2>3. Ending(j) => TaskReady(j)
    BY DEF TaskReady, TaskAt, Ending
  <2> QED BY <1>1, <2>1, <2>2, <2>3, PTL DEF TaskFairness, Spec
<1>9. Spec /\ TaskFairness(j) => [](TaskAt(j, "leaving") => <>(~Holding(j)))
  <2>1. SlotInv /\ [Next]_vars /\ TaskAt(j, "leaving")
          => TaskAt(j, "leaving")' \/ ~Holding(j)'
    BY HolderStages
  <2>2. SlotInv /\ <<OwnStep(j)>>_vars /\ TaskAt(j, "leaving") => ~Holding(j)'
    BY HolderAdvances DEF OwnStep
  <2>3. TaskAt(j, "leaving") => TaskReady(j)
    BY DEF TaskReady, TaskAt
  <2> QED BY <1>1, <2>1, <2>2, <2>3, PTL DEF TaskFairness, Spec
<1> QED BY <1>2, <1>3, <1>4, <1>5, <1>6, <1>7, <1>8, <1>9, PTL
=============================================================================
