----------------------------- MODULE Downloader -----------------------------
(***************************************************************************)
(* The download capability of YTDLP Web: the POST /downloads handler       *)
(* (interfaces/http/downloads.rs), the background task of a job, the       *)
(* semaphore that bounds concurrent yt-dlp runs and the retention sweep    *)
(* (features/downloader/jobs.rs), the SQLite download cache                *)
(* (features/downloader/repository.rs) and the download directory on disk. *)
(*                                                                         *)
(* Every handler and every task is a process: a step ends where another    *)
(* thread can run in between, which is wherever the code drops a mutex,    *)
(* awaits, or makes a system call of its own.  Job identifiers are fresh   *)
(* (the first 12 hex digits of a v4 UUID), so a handler is indexed by the  *)
(* identifier its job will get, and the directory of a job is named by it. *)
(***************************************************************************)
EXTENDS Naturals, Sequences, FiniteSets

CONSTANTS
  JobId,      \* identifiers Job::new can draw; each names a job, a task and a directory
  Key,        \* cache keys, one per distinct video
  MaxActive,  \* YTDLP_WEB_MAX_ACTIVE
  TTL,        \* YTDLP_WEB_JOB_TTL_HOURS, in ticks of the clock
  MaxTime,    \* bound of the model: the clock stops here
  DbFaults,   \* TRUE when a SQLite statement may fail
  NoDir       \* no directory

ASSUME JobIdAssumption == IsFiniteSet(JobId) /\ NoDir \notin JobId
ASSUME MaxActiveAssumption == MaxActive \in Nat \ {0}
ASSUME ClockAssumption == TTL \in Nat \ {0} /\ MaxTime \in Nat
ASSUME DbFaultsAssumption == DbFaults \in BOOLEAN

VARIABLES
  now,      \* Utc::now()
  jobs,     \* AppState.jobs
  creates,  \* the download_create invocation that draws each identifier
  tasks,    \* the run_download_job task of each job
  permits,  \* free permits of AppState.download_slots
  waiters,  \* tasks queued in AppState.download_slots, oldest first
  cache,    \* table download_cache: one row per cache key
  disk,     \* the directory download_dir/<job id> of each job
  dbOwner   \* the sweeping handler that holds the AppState.db mutex, or NoDir

vars == <<now, jobs, creates, tasks, permits, waiters, cache, disk, dbOwner>>
----
\* A job of the map, and the record that stands for its absence.
Terminal == {"complete", "error"}
JobStatus == {"queued", "downloading"} \cup Terminal
Job == [status : JobStatus, key : Key, created : Nat, file : JobId \cup {NoDir}]
NoJob == [status |-> "absent"]

Present(j) == jobs[j] # NoJob

\* A row of download_cache: the directory of the cached file and its created_at.
Row == [dir : JobId, created : Nat]
NoRow == [dir |-> NoDir, created |-> 0]

\* A job directory: missing, without a finished file, or holding the video of a key.
Absent == [state |-> "none"]
Partial == [state |-> "dir"]
Video(k) == [state |-> "file", key |-> k]
Content == {Absent, Partial} \cup {Video(k) : k \in Key}

\* Control points of download_create: sweepJobs, sweepCache, purging and removing are
\* inside cleanup_downloads; clock is the last Utc::now() the handler read, todo the
\* key and directory of the expired rows it read, doomed the directory of the row it just
\* deleted, hit the directory of the cached file it found.
Idle == [pc |-> "idle"]
Done == [pc |-> "done"]
Entry == [key : Key, dir : JobId]
Entering == [pc : {"sweepJobs", "sweepCache", "lookup"}, key : Key, clock : Nat]
Purging == [pc : {"purging"}, key : Key, clock : Nat, todo : SUBSET Entry]
Removing == [pc : {"removing"}, key : Key, clock : Nat, todo : SUBSET Entry, doomed : JobId]
Inserting == [pc : {"insert"}, key : Key, clock : Nat, hit : JobId \cup {NoDir}]
Spawning == [pc : {"spawn"}]
Create == Entering \cup Purging \cup Removing \cup Inserting \cup Spawning \cup {Idle, Done}

\* Control points of run_download_job; key belongs to the clone of the job taken at line 31.
NoTask == [pc |-> "none"]
Unbound ==
  [pc : {"spawned", "acquiring", "waiting", "permitted", "started", "leaving", "exited"}]
Bound == [pc : {"preparing", "running", "fetched", "recorded", "failing"}, key : Key]
Task == Unbound \cup Bound \cup {NoTask}

HoldsPermit ==
  {"permitted", "started", "preparing", "running", "fetched", "recorded", "failing", "leaving"}
Holders == {j \in JobId : tasks[j].pc \in HoldsPermit}

\* A row or a job created at t is past its retention for a sweep whose clock read c.
Expired(t, c) == t + TTL < c
ExpiredRows(c) ==
  {[key |-> k, dir |-> cache[k].dir] :
     k \in {l \in Key : cache[l] # NoRow /\ Expired(cache[l].created, c)}}

Init ==
  /\ now = 0
  /\ jobs = [j \in JobId |-> NoJob]
  /\ creates = [j \in JobId |-> Idle]
  /\ tasks = [j \in JobId |-> NoTask]
  /\ permits = MaxActive
  /\ waiters = <<>>
  /\ cache = [k \in Key |-> NoRow]
  /\ disk = [j \in JobId |-> Absent]
  /\ dbOwner = NoDir
----
(***************************************************************************)
(* POST /downloads.                                                        *)
(***************************************************************************)
At(j, pc) == creates[j].pc = pc
Goto(j, c) == creates' = [creates EXCEPT ![j] = c]

\* A guarded request with an accepted URL enters cleanup_downloads, which reads the clock.
BeginCreate(j, k) ==
  /\ At(j, "idle")
  /\ Goto(j, [pc |-> "sweepJobs", key |-> k, clock |-> now])
  /\ UNCHANGED <<now, jobs, tasks, permits, waiters, cache, disk, dbOwner>>

\* Mutant: the filter on the status is dropped.
RetiredByAge(i, c) == Present(i) /\ Expired(jobs[i].created, c)

\* Mutant: jobs outlive the rows of their files.
RetiredLate(i, c) == jobs[i].status \in Terminal /\ Expired(jobs[i].created + 1, c)

\* A job the sweep drops: finished, and past its retention.
Retired(i, c) == jobs[i].status \in Terminal /\ Expired(jobs[i].created, c)

\* Under the jobs lock, drop every retired job.
SweepJobs(j) ==
  /\ At(j, "sweepJobs")
  /\ jobs' = [i \in JobId |-> IF Retired(i, creates[j].clock) THEN NoJob ELSE jobs[i]]
  /\ Goto(j, [creates[j] EXCEPT !.pc = "sweepCache"])
  /\ UNCHANGED <<now, tasks, permits, waiters, cache, disk, dbOwner>>

\* Mutant: the lock is dropped once the rows are read.
SnapshotUnlocked(j) ==
  /\ At(j, "sweepCache")
  /\ dbOwner = NoDir
  /\ Goto(j, [pc |-> "purging", key |-> creates[j].key, clock |-> creates[j].clock,
              todo |-> ExpiredRows(creates[j].clock)])
  /\ UNCHANGED <<now, jobs, tasks, permits, waiters, cache, disk, dbOwner>>

\* Take the database lock and read the rows; a failed query reads as no rows.
SnapshotCache(j) ==
  /\ At(j, "sweepCache")
  /\ dbOwner = NoDir
  /\ dbOwner' = j
  /\ \E todo \in {ExpiredRows(creates[j].clock)} \cup (IF DbFaults THEN {{}} ELSE {}) :
       Goto(j, [pc |-> "purging", key |-> creates[j].key, clock |-> creates[j].clock,
                todo |-> todo])
  /\ UNCHANGED <<now, jobs, tasks, permits, waiters, cache, disk>>

\* Mutant: the directory goes while the row stays.
PurgeDirOnly(j, r) ==
  LET c == creates[j] IN
  /\ At(j, "purging")
  /\ r \in c.todo
  /\ Goto(j, [pc |-> "removing", key |-> c.key, clock |-> c.clock,
              todo |-> c.todo \ {r}, doomed |-> r.dir])
  /\ UNCHANGED <<now, jobs, tasks, permits, waiters, cache, disk, dbOwner>>

\* Delete one expired row by its key; the result of the statement is ignored.
PurgeRow(j, r) ==
  LET c == creates[j] IN
  /\ At(j, "purging")
  /\ r \in c.todo
  /\ \/ cache' = [cache EXCEPT ![r.key] = NoRow]
     \/ DbFaults /\ cache' = cache
  /\ Goto(j, [pc |-> "removing", key |-> c.key, clock |-> c.clock,
              todo |-> c.todo \ {r}, doomed |-> r.dir])
  /\ UNCHANGED <<now, jobs, tasks, permits, waiters, disk, dbOwner>>

\* Mutant: a sweep also clears away the directories that no row leads to.
RemoveDirAndStrays(j) ==
  LET c == creates[j] IN
  /\ At(j, "removing")
  /\ disk' = [d \in JobId |-> IF \E k \in Key : cache[k].dir = d THEN disk[d] ELSE Absent]
  /\ Goto(j, [pc |-> "purging", key |-> c.key, clock |-> c.clock, todo |-> c.todo])
  /\ UNCHANGED <<now, jobs, tasks, permits, waiters, cache, dbOwner>>

\* remove_dir_all on the parent of the row's file; its result is ignored too, and a failed
\* removal may have left the directory without the file.
RemoveDir(j) ==
  LET c == creates[j] IN
  /\ At(j, "removing")
  /\ \E left \in {Absent, Partial, disk[c.doomed]} :
       /\ disk[c.doomed] = Absent => left = Absent
       /\ disk' = [disk EXCEPT ![c.doomed] = left]
  /\ Goto(j, [pc |-> "purging", key |-> c.key, clock |-> c.clock, todo |-> c.todo])
  /\ UNCHANGED <<now, jobs, tasks, permits, waiters, cache, dbOwner>>

\* Mutant: the guard of the database lives on into the lookup, which locks it again.
EndSweepLocked(j) ==
  /\ At(j, "purging")
  /\ creates[j].todo = {}
  /\ Goto(j, [pc |-> "lookup", key |-> creates[j].key, clock |-> creates[j].clock])
  /\ UNCHANGED <<now, jobs, tasks, permits, waiters, cache, disk, dbOwner>>

\* The last expired row is gone: cleanup_downloads drops the database lock and returns.
EndSweep(j) ==
  /\ At(j, "purging")
  /\ creates[j].todo = {}
  /\ dbOwner' = NoDir
  /\ Goto(j, [pc |-> "lookup", key |-> creates[j].key, clock |-> creates[j].clock])
  /\ UNCHANGED <<now, jobs, tasks, permits, waiters, cache, disk>>

\* Mutant: the query has lost its WHERE clause.
CachedFileOfAnyKey(k) ==
  LET usable == {l \in Key : cache[l] # NoRow /\ disk[cache[l].dir].state = "file"}
  IN  IF usable = {} THEN NoDir ELSE cache[CHOOSE l \in usable : TRUE].dir

\* The directory of a usable row of key k: the row exists and its file still does.
CachedFile(k) ==
  IF cache[k] # NoRow /\ disk[cache[k].dir].state = "file" THEN cache[k].dir ELSE NoDir

\* cached_file_for_key under the database lock; a failed query is a miss.
Lookup(j) ==
  /\ At(j, "lookup")
  /\ dbOwner = NoDir
  /\ \E hit \in {CachedFile(creates[j].key)} \cup (IF DbFaults THEN {NoDir} ELSE {}) :
       Goto(j, [pc |-> "insert", key |-> creates[j].key, clock |-> now, hit |-> hit])
  /\ UNCHANGED <<now, jobs, tasks, permits, waiters, cache, disk, dbOwner>>

\* Job::with_cached or Job::new, whose created_at was read at some time since the lookup.
NewJob(c, t) ==
  [status |-> IF c.hit = NoDir THEN "queued" ELSE "complete",
   key |-> c.key, created |-> t, file |-> c.hit]

\* Mutant: a complete job gets a task like any other.
InsertJobAndSpawn(j) ==
  LET c == creates[j] IN
  /\ At(j, "insert")
  /\ \E t \in c.clock..now : jobs' = [jobs EXCEPT ![j] = NewJob(c, t)]
  /\ Goto(j, [pc |-> "spawn"])
  /\ UNCHANGED <<now, tasks, permits, waiters, cache, disk, dbOwner>>

\* Insert the job; a complete one needs no task and the handler redirects.
InsertJob(j) ==
  LET c == creates[j] IN
  /\ At(j, "insert")
  /\ \E t \in c.clock..now : jobs' = [jobs EXCEPT ![j] = NewJob(c, t)]
  /\ Goto(j, IF c.hit = NoDir THEN [pc |-> "spawn"] ELSE Done)
  /\ UNCHANGED <<now, tasks, permits, waiters, cache, disk, dbOwner>>

\* start_download_job: tokio::spawn, then the redirect.
SpawnTask(j) ==
  /\ At(j, "spawn")
  /\ tasks' = [tasks EXCEPT ![j] = [pc |-> "spawned"]]
  /\ Goto(j, Done)
  /\ UNCHANGED <<now, jobs, permits, waiters, cache, disk, dbOwner>>

CreateStep(j) ==
  \/ SweepJobs(j)
  \/ SnapshotCache(j)
  \/ \E r \in Entry : PurgeRow(j, r)
  \/ RemoveDir(j)
  \/ EndSweep(j)
  \/ Lookup(j)
  \/ InsertJob(j)
  \/ SpawnTask(j)
----
(***************************************************************************)
(* The task of a job.                                                      *)
(***************************************************************************)
TaskAt(j, pc) == tasks[j].pc = pc
TaskGoto(j, t) == tasks' = [tasks EXCEPT ![j] = t]

\* update_job: edit the job under the lock, or do nothing when it is gone.
UpdateJob(j, new) ==
  jobs' = IF Present(j) THEN [jobs EXCEPT ![j] = new] ELSE jobs

\* Lines 14-20: the task marks its job queued.
MarkQueued(j) ==
  /\ TaskAt(j, "spawned")
  /\ UpdateJob(j, [jobs[j] EXCEPT !.status = "queued"])
  /\ TaskGoto(j, [pc |-> "acquiring"])
  /\ UNCHANGED <<now, creates, permits, waiters, cache, disk, dbOwner>>

\* Mutant: a permit is taken whether one is free or not.
AcquireUnchecked(j) ==
  /\ TaskAt(j, "acquiring")
  /\ permits' = permits - 1
  /\ TaskGoto(j, [pc |-> "permitted"])
  /\ UNCHANGED <<now, jobs, creates, waiters, cache, disk, dbOwner>>

\* Semaphore::acquire: take a free permit, or join the end of the queue.
Acquire(j) ==
  /\ TaskAt(j, "acquiring")
  /\ \/ /\ permits > 0
        /\ permits' = permits - 1
        /\ TaskGoto(j, [pc |-> "permitted"])
        /\ UNCHANGED waiters
     \/ /\ permits = 0
        /\ waiters' = Append(waiters, j)
        /\ TaskGoto(j, [pc |-> "waiting"])
        /\ UNCHANGED permits
  /\ UNCHANGED <<now, jobs, creates, cache, disk, dbOwner>>

\* Lines 25-29: with its permit, the task marks its job downloading.
MarkDownloading(j) ==
  /\ TaskAt(j, "permitted")
  /\ UpdateJob(j, [jobs[j] EXCEPT !.status = "downloading"])
  /\ TaskGoto(j, [pc |-> "started"])
  /\ UNCHANGED <<now, creates, permits, waiters, cache, disk, dbOwner>>

\* Lines 31-34: clone the job, or leave when it is no longer listed.
CloneJob(j) ==
  /\ TaskAt(j, "started")
  /\ TaskGoto(j, IF Present(j) THEN [pc |-> "preparing", key |-> jobs[j].key]
                 ELSE [pc |-> "leaving"])
  /\ UNCHANGED <<now, jobs, creates, permits, waiters, cache, disk, dbOwner>>

\* Lines 35-43: create the directory of the job, which may fail.
CreateDir(j) ==
  /\ TaskAt(j, "preparing")
  /\ \/ /\ disk' = [disk EXCEPT ![j] = IF @ = Absent THEN Partial ELSE @]
        /\ TaskGoto(j, [tasks[j] EXCEPT !.pc = "running"])
     \/ /\ TaskGoto(j, [tasks[j] EXCEPT !.pc = "failing"])
        /\ UNCHANGED disk
  /\ UNCHANGED <<now, jobs, creates, permits, waiters, cache, dbOwner>>

\* yt-dlp finishes the file of the job while it is still running.
FileWritten(j) ==
  /\ TaskAt(j, "running")
  /\ disk[j] = Partial
  /\ disk' = [disk EXCEPT ![j] = Video(tasks[j].key)]
  /\ UNCHANGED <<now, jobs, creates, tasks, permits, waiters, cache, dbOwner>>

\* ytdlp::download returns: Ok needs a finished file, Err (an exit code, the timeout, a
\* failed spawn, no file) can follow at any point of the run.
RunReturns(j) ==
  /\ TaskAt(j, "running")
  /\ \/ /\ disk[j].state = "file"
        /\ TaskGoto(j, [tasks[j] EXCEPT !.pc = "fetched"])
     \/ TaskGoto(j, [tasks[j] EXCEPT !.pc = "failing"])
  /\ UNCHANGED <<now, jobs, creates, permits, waiters, cache, disk, dbOwner>>

\* Lines 73-82: INSERT OR REPLACE the row of the key; a failed statement is ignored.
RecordDownload(j) ==
  /\ TaskAt(j, "fetched")
  /\ dbOwner = NoDir
  /\ \/ cache' = [cache EXCEPT ![tasks[j].key] = [dir |-> j, created |-> now]]
     \/ DbFaults /\ cache' = cache
  /\ TaskGoto(j, [tasks[j] EXCEPT !.pc = "recorded"])
  /\ UNCHANGED <<now, jobs, creates, permits, waiters, disk, dbOwner>>

\* Lines 83-89: the job is complete and points at its file.
CompleteJob(j) ==
  /\ TaskAt(j, "recorded")
  /\ UpdateJob(j, [jobs[j] EXCEPT !.status = "complete", !.file = j])
  /\ TaskGoto(j, [pc |-> "leaving"])
  /\ UNCHANGED <<now, creates, permits, waiters, cache, disk, dbOwner>>

\* Mutant: a failing task forgets its permit.
FailJobKeepingPermit(j) ==
  /\ TaskAt(j, "failing")
  /\ UpdateJob(j, [jobs[j] EXCEPT !.status = "error"])
  /\ TaskGoto(j, [pc |-> "exited"])
  /\ UNCHANGED <<now, creates, permits, waiters, cache, disk, dbOwner>>

\* fail_job: the job ends in error.
FailJob(j) ==
  /\ TaskAt(j, "failing")
  /\ UpdateJob(j, [jobs[j] EXCEPT !.status = "error"])
  /\ TaskGoto(j, [pc |-> "leaving"])
  /\ UNCHANGED <<now, creates, permits, waiters, cache, disk, dbOwner>>

\* Mutant: the permit is handed over and freed as well.
ReleaseTwice(j) ==
  /\ TaskAt(j, "leaving")
  /\ permits' = permits + 1
  /\ tasks' = [i \in JobId |-> IF i = j THEN [pc |-> "exited"]
                              ELSE IF waiters # <<>> /\ i = Head(waiters)
                                   THEN [pc |-> "permitted"] ELSE tasks[i]]
  /\ waiters' = IF waiters = <<>> THEN waiters ELSE Tail(waiters)
  /\ UNCHANGED <<now, jobs, creates, cache, disk, dbOwner>>

\* The task returns and drops its permit: the oldest waiter gets it, else it is free.
ReleasePermit(j) ==
  /\ TaskAt(j, "leaving")
  /\ \/ /\ waiters = <<>>
        /\ permits' = permits + 1
        /\ TaskGoto(j, [pc |-> "exited"])
        /\ UNCHANGED waiters
     \/ /\ waiters # <<>>
        /\ tasks' = [tasks EXCEPT ![j] = [pc |-> "exited"],
                                  ![Head(waiters)] = [pc |-> "permitted"]]
        /\ waiters' = Tail(waiters)
        /\ UNCHANGED permits
  /\ UNCHANGED <<now, jobs, creates, cache, disk, dbOwner>>

TaskStep(j) ==
  \/ MarkQueued(j)
  \/ Acquire(j)
  \/ MarkDownloading(j)
  \/ CloneJob(j)
  \/ CreateDir(j)
  \/ FileWritten(j)
  \/ RunReturns(j)
  \/ RecordDownload(j)
  \/ CompleteJob(j)
  \/ FailJob(j)
  \/ ReleasePermit(j)

\* A step of the task that is not up to yt-dlp: any but what its run does and its return.
OwnStep(j) == ~TaskAt(j, "running") /\ TaskStep(j)
----
(***************************************************************************)
(* The environment.                                                        *)
(***************************************************************************)

\* A tick is an hour or so: no task spends one between the row of its download and the
\* status of its job, two statements without an await between them.
Tick ==
  /\ now < MaxTime
  /\ \A j \in JobId : ~TaskAt(j, "recorded")
  /\ now' = now + 1
  /\ UNCHANGED <<jobs, creates, tasks, permits, waiters, cache, disk, dbOwner>>

\* The process dies and starts again: serve builds a fresh AppState over the same database
\* and directory, and the identifiers that were drawn are never drawn again.
Restart ==
  /\ jobs' = [j \in JobId |-> NoJob]
  /\ creates' = [j \in JobId |-> IF At(j, "idle") THEN Idle ELSE Done]
  /\ tasks' = [j \in JobId |-> NoTask]
  /\ permits' = MaxActive
  /\ waiters' = <<>>
  /\ dbOwner' = NoDir
  /\ UNCHANGED <<now, cache, disk>>

Work ==
  \/ \E j \in JobId, k \in Key : BeginCreate(j, k)
  \/ \E j \in JobId : CreateStep(j)
  \/ \E j \in JobId : TaskStep(j)
  \/ Tick

Next == Work \/ Restart

Spec == Init /\ [][Next]_vars

\* A handler has no await after its guards, and a task is always polled again.  Nothing
\* obliges a run to return: its timeout does not cover the end of its stderr (YtdlpRun).
\* Nothing obliges a user, the clock or a crash either.
Fairness == \A j \in JobId : WF_vars(CreateStep(j)) /\ WF_vars(OwnStep(j))

FairSpec == Spec /\ Fairness
----
(***************************************************************************)
(* Properties.                                                             *)
(***************************************************************************)

\* Every variable has its type.
TypeOK ==
  /\ now \in Nat
  /\ jobs \in [JobId -> Job \cup {NoJob}]
  /\ creates \in [JobId -> Create]
  /\ tasks \in [JobId -> Task]
  /\ permits \in Nat
  /\ waiters \in Seq(JobId)
  /\ cache \in [Key -> Row \cup {NoRow}]
  /\ disk \in [JobId -> Content]
  /\ dbOwner \in JobId \cup {NoDir}

\* No permit is lost or made up on any way out of run_download_job: free permits and
\* tasks that hold one always add up to MaxActive, and nobody queues for a free one.
SlotsAccounted ==
  /\ permits + Cardinality(Holders) = MaxActive
  /\ waiters # <<>> => permits = 0

\* The semaphore limits concurrent subprocesses (docs/architecture.md).
AtMostMaxActive == Cardinality({j \in JobId : TaskAt(j, "running")}) <= MaxActive

\* The queue of the semaphore holds each waiting task, once.
WaitersAreWaiting ==
  /\ \A j \in JobId : TaskAt(j, "waiting") => \E n \in 1..Len(waiters) : waiters[n] = j
  /\ \A n \in 1..Len(waiters) : TaskAt(waiters[n], "waiting")
  /\ \A m, n \in 1..Len(waiters) : waiters[m] = waiters[n] => m = n

\* The status of a job at each control point of its task.
StatusAt(pc) ==
  IF pc \in {"spawned", "acquiring", "waiting", "permitted"} THEN {"queued"}
  ELSE IF pc = "leaving" THEN Terminal \cup {"absent"}
  ELSE {"downloading"}

\* A job stays listed, with the status its task gave it and the key its task works for, as
\* long as the task runs: no sweep takes a job away from a live task however old the job
\* is, so that no update_job of a task meets an absent job.
LiveTaskHasJob ==
  \A j \in JobId :
    /\ tasks[j].pc \notin {"none", "exited"} => jobs[j].status \in StatusAt(tasks[j].pc)
    /\ tasks[j] \in Bound => jobs[j].key = tasks[j].key

\* No job is stranded: one that is not finished has a handler about to spawn its task or
\* a task that has yet to end it, so that the status page never polls forever.
ActiveJobHasTask ==
  \A j \in JobId :
    /\ jobs[j].status = "queued" =>
         \/ At(j, "spawn")
         \/ tasks[j].pc \in {"spawned", "acquiring", "waiting", "permitted"}
    /\ jobs[j].status = "downloading" => tasks[j].pc \in HoldsPermit \ {"permitted", "leaving"}

\* Jobs and tasks agree: no task works for nothing and no listed job waits for nobody.
JobsFollowTasks == LiveTaskHasJob /\ ActiveJobHasTask

\* The handler lists the job before it spawns the task, and does both once.
HandlerBeforeTask ==
  \A j \in JobId :
    /\ creates[j].pc # "done" => tasks[j] = NoTask
    /\ creates[j].pc \notin {"spawn", "done"} => jobs[j] = NoJob
    /\ At(j, "spawn") => jobs[j].status = "queued"

\* What is inductive about jobs, tasks and slots.
JobInv == TypeOK /\ HandlerBeforeTask /\ LiveTaskHasJob /\ ActiveJobHasTask
SlotInv == JobInv /\ SlotsAccounted /\ WaitersAreWaiting

\* Whatever statement fails and whoever sweeps, neither a row of the cache nor a complete
\* job ever leads to the video of another key.
NoForeignVideo ==
  /\ \A k \in Key : cache[k] # NoRow => disk[cache[k].dir] \in {Absent, Partial, Video(k)}
  /\ \A j \in JobId : jobs[j].status = "complete" =>
       disk[jobs[j].file] \in {Absent, Partial, Video(jobs[j].key)}

\* When SQLite statements succeed every row leads to its finished file, at every point of
\* a sweep and after a crash at any point: the row goes before the directory.
RowsBacked == ~DbFaults => \A k \in Key : cache[k] # NoRow => disk[cache[k].dir] = Video(k)

\* A job that fetched its own file has it for as long as the job is listed: its row is no
\* older than the job, and a sweep retires jobs before rows.
OwnFileKept ==
  \A j \in JobId : jobs[j].status = "complete" /\ jobs[j].file = j =>
    disk[j] = Video(jobs[j].key)

\* A step that takes a directory away, or its file, takes none that a task still works in
\* and none that a row within its retention leads to.
Removed(j) == disk[j] # Absent /\ disk'[j] # disk[j] /\ disk'[j].state # "file"
RemovesOnlyExpired ==
  \A j \in JobId : Removed(j) =>
    /\ tasks[j].pc \in {"none", "leaving", "exited"}
    /\ \A k \in Key : cache[k].dir = j => Expired(cache[k].created, now)

\* A sweep removes no directory in use, whoever creates and fills directories meanwhile: the
\* disk is behind no lock.
SweepSparesLiveDirs == [][RemovesOnlyExpired]_vars

\* A row leaves the cache only past its retention, even when another task replaced it
\* after the sweep that deletes by key had read the clock.
OnlyExpiredRowsGo ==
  [][\A k \in Key : cache[k] # NoRow /\ cache'[k] = NoRow =>
       Expired(cache[k].created, now)]_vars

\* Every submitted job gets its turn at a slot and ends, or is lost in a restart, beside runs
\* that never return: such a run holds its own job and slot, and the jobs behind it only where
\* no slot is left.  No way out of a run keeps the permit that others wait for.  A job has
\* one life: if it is again and again not unfinished, it does not stay unfinished.
Unfinished(j) == jobs[j].status \in {"queued", "downloading"}
EverySlotRuns == Cardinality({i \in JobId : TaskAt(i, "running")}) = MaxActive
JobsSettle ==
  \A j \in JobId : []<>(~Unfinished(j)) \/ <>[]TaskAt(j, "running") \/ <>[]EverySlotRuns

\* Every accepted POST is answered: no handler waits forever for the database mutex of
\* another handler's sweep.
CreatesAnswered == \A j \in JobId : []<>(At(j, "idle") \/ At(j, "done"))

\* A handler that is at work waits for nothing but the database mutex; a task for a permit, for
\* that mutex, or for its run to return.
CreateReady(j) ==
  /\ creates[j].pc \notin {"idle", "done"}
  /\ creates[j].pc \in {"sweepCache", "lookup"} => dbOwner = NoDir
TaskReady(j) ==
  /\ tasks[j].pc \notin {"none", "waiting", "running", "exited"}
  /\ TaskAt(j, "fetched") => dbOwner = NoDir

\* Handlers and tasks never all wait for each other: while one of them is at work, one of them
\* can go on, or yt-dlp runs.
NobodyWaitsInVain ==
  (\E j \in JobId : creates[j].pc \notin {"idle", "done"}
                     \/ tasks[j].pc \notin {"none", "exited"})
    => \E j \in JobId : CreateReady(j) \/ TaskReady(j) \/ TaskAt(j, "running")

\* The retention policy bounds the cached files (docs/architecture.md): the file that a
\* complete job offers is in the cache table, or in the hands of a sweep, so that it will
\* be removed some day.
CachedFilesBounded ==
  \A j \in JobId : jobs[j].status = "complete" /\ disk[jobs[j].file].state = "file" =>
    \/ \E k \in Key : cache[k].dir = jobs[j].file
    \/ \E i \in JobId : At(i, "removing") /\ creates[i].doomed = jobs[j].file

\* What is inductive about the cache.  Nothing was created, or read from the clock, later
\* than now.
ClocksPast ==
  /\ \A j \in JobId : /\ jobs[j] # NoJob => jobs[j].created <= now
                      /\ creates[j].pc \notin {"idle", "spawn", "done"} => creates[j].clock <= now
  /\ \A k \in Key : cache[k] # NoRow => cache[k].created <= now

\* The database lock is held from the snapshot of a sweep to its end, so the snapshot
\* stays a part of the table; the row of the doomed directory is gone (or, when deleting
\* it failed, expired).
SnapshotFresh ==
  \A j \in JobId :
    /\ creates[j].pc \in {"purging", "removing"} <=> dbOwner = j
    /\ dbOwner = j => \A r \in creates[j].todo :
         /\ cache[r.key] # NoRow
         /\ cache[r.key].dir = r.dir
         /\ Expired(cache[r.key].created, creates[j].clock)

\* A directory whose task is past its download, in this or an earlier process.
Settled(d) == At(d, "done") /\ tasks[d].pc \in {"none", "recorded", "leaving", "exited"}
HoldsOnly(d, k) == Settled(d) /\ disk[d] \in {Absent, Partial, Video(k)}

\* What a directory holds at each control point of its task.
DirFollowsTask ==
  \A j \in JobId :
    /\ ~At(j, "done") => disk[j] = Absent
    /\ tasks[j].pc \in {"spawned", "acquiring", "waiting", "permitted", "started", "preparing"} =>
         disk[j] = Absent
    /\ TaskAt(j, "running") => disk[j] \in {Partial, Video(tasks[j].key)}
    /\ tasks[j].pc \in {"fetched", "recorded"} => disk[j] = Video(tasks[j].key)

\* Where rows, complete jobs and cache hits lead.
RowsSettled ==
  \A k \in Key : cache[k] # NoRow =>
    /\ HoldsOnly(cache[k].dir, k)
    /\ TaskAt(cache[k].dir, "recorded") => cache[k].created = now
    /\ Present(cache[k].dir) => jobs[cache[k].dir].created <= cache[k].created
JobsSettled ==
  \A j \in JobId :
    /\ jobs[j].status = "complete" => /\ jobs[j].file \in JobId
                                      /\ HoldsOnly(jobs[j].file, jobs[j].key)
    /\ At(j, "insert") /\ creates[j].hit # NoDir => HoldsOnly(creates[j].hit, creates[j].key)

\* Once a sweep is past the jobs, no row it may expire belongs to a listed job.
ExpiredRowsUnlisted ==
  \A j \in JobId :
    /\ creates[j].pc \in {"sweepCache", "purging", "removing"} =>
         \A k \in Key : cache[k] # NoRow /\ Expired(cache[k].created, creates[j].clock) =>
           ~Present(cache[k].dir)
    /\ At(j, "removing") =>
         /\ ~Present(creates[j].doomed)
         /\ Settled(creates[j].doomed) /\ ~TaskAt(creates[j].doomed, "recorded")
         /\ \A k \in Key : cache[k].dir = creates[j].doomed =>
              DbFaults /\ Expired(cache[k].created, creates[j].clock)

RowsDisjoint ==
  \A k, l \in Key : cache[k] # NoRow /\ cache[k].dir = cache[l].dir => k = l

CacheInv ==
  /\ ClocksPast /\ SnapshotFresh /\ DirFollowsTask /\ RowsSettled /\ JobsSettled
  /\ ExpiredRowsUnlisted /\ RowsDisjoint /\ RowsBacked /\ OwnFileKept
----
(***************************************************************************)
(* What a client of /downloads sees of a job, and the abstract life cycle. *)
(***************************************************************************)
Seen(j) ==
  IF Present(j) THEN jobs[j].status
  ELSE IF creates[j].pc \in {"spawn", "done"} THEN "gone"
  ELSE "new"

Lifecycle == INSTANCE JobLifecycle WITH status <- [j \in JobId |-> Seen(j)]
LifecycleSpec == Lifecycle!Spec
=============================================================================
