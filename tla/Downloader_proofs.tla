------------------------- MODULE Downloader_proofs --------------------------
(***************************************************************************)
(* Proofs about the download capability, for every set of identifiers and  *)
(* keys and every value of the other constants.                            *)
(***************************************************************************)
EXTENDS Downloader, TLAPS, FiniteSetTheorems

USE JobIdAssumption, MaxActiveAssumption, ClockAssumption, DbFaultsAssumption

(***************************************************************************)
(* Types.                                                                  *)
(***************************************************************************)

\* What the control point of a handler or a task says of the rest of its record.
LEMMA CreateShape ==
  ASSUME TypeOK, NEW j \in JobId
  PROVE  /\ creates[j].pc \in {"sweepJobs", "sweepCache", "lookup"} => creates[j] \in Entering
         /\ creates[j].pc = "purging" => creates[j] \in Purging
         /\ creates[j].pc = "removing" => creates[j] \in Removing
         /\ creates[j].pc = "insert" => creates[j] \in Inserting
  BY DEF TypeOK, Create, Entering, Purging, Removing, Inserting, Spawning, Idle, Done

\* A task carries the key of its job exactly while it works for it.
LEMMA TaskShape ==
  ASSUME TypeOK, NEW j \in JobId
  PROVE  /\ tasks[j].pc \in {"preparing", "running", "fetched", "recorded", "failing"}
              => tasks[j] \in Bound
         /\ tasks[j].pc \notin {"preparing", "running", "fetched", "recorded", "failing"}
              => tasks[j] \in Unbound \cup {NoTask}
  BY DEF TypeOK, Task, Bound, Unbound, NoTask

\* The initial state has the types.
LEMMA TypeInit == Init => TypeOK
  BY DEF Init, TypeOK, NoJob, Idle, NoTask, NoRow, Content, Absent, Create, Task

\* Every step of a handler preserves the types.
LEMMA TypeCreate ==
  ASSUME TypeOK, NEW j \in JobId, CreateStep(j)
  PROVE  TypeOK'
<1> USE DEF TypeOK, At, Goto
<1>1. CASE SweepJobs(j)
  <2>1. jobs' \in [JobId -> Job \cup {NoJob}]
    BY <1>1 DEF SweepJobs
  <2>2. [creates[j] EXCEPT !.pc = "sweepCache"] \in Create
    BY <1>1, CreateShape DEF SweepJobs, Create, Entering
  <2> QED BY <1>1, <2>1, <2>2 DEF SweepJobs
<1>2. CASE SnapshotCache(j)
  <2>1. ExpiredRows(creates[j].clock) \in SUBSET Entry
    BY DEF ExpiredRows, Entry, Row
  <2>2. creates' \in [JobId -> Create]
    BY <1>2, <2>1, CreateShape DEF SnapshotCache, Create, Entering, Purging
  <2> QED BY <1>2, <2>2 DEF SnapshotCache
<1>3. ASSUME NEW r \in Entry, PurgeRow(j, r) PROVE TypeOK'
  <2>1. creates[j] \in Purging
    BY <1>3, CreateShape DEF PurgeRow
  <2>2. creates' \in [JobId -> Create]
    BY <1>3, <2>1 DEF PurgeRow, Create, Purging, Removing, Entry
  <2>3. cache' \in [Key -> Row \cup {NoRow}]
    BY <1>3 DEF PurgeRow
  <2> QED BY <1>3, <2>2, <2>3 DEF PurgeRow
<1>4. CASE RemoveDir(j)
  <2>1. creates[j] \in Removing
    BY <1>4, CreateShape DEF RemoveDir
  <2>2. creates' \in [JobId -> Create]
    BY <1>4, <2>1 DEF RemoveDir, Create, Purging, Removing
  <2>3. disk' \in [JobId -> Content]
    BY <1>4, <2>1 DEF RemoveDir, Removing, Content
  <2> QED BY <1>4, <2>2, <2>3 DEF RemoveDir
<1>5. CASE EndSweep(j)
  <2>1. creates' \in [JobId -> Create]
    BY <1>5, CreateShape DEF EndSweep, Create, Purging, Entering
  <2> QED BY <1>5, <2>1 DEF EndSweep
<1>6. CASE Lookup(j)
  <2>1. \A k \in Key : CachedFile(k) \in JobId \cup {NoDir}
    BY DEF CachedFile, Row
  <2>2. creates' \in [JobId -> Create]
    BY <1>6, <2>1, CreateShape DEF Lookup, Create, Entering, Inserting
  <2> QED BY <1>6, <2>2 DEF Lookup
<1>7. CASE InsertJob(j)
  <2>1. creates[j] \in Inserting
    BY <1>7, CreateShape DEF InsertJob
  <2>2. \A t \in Nat : NewJob(creates[j], t) \in Job
    BY <2>1 DEF NewJob, Inserting, Job, JobStatus, Terminal
  <2>3. creates[j].clock..now \subseteq Nat
    BY <2>1 DEF Inserting
  <2>4. jobs' \in [JobId -> Job \cup {NoJob}]
    BY <1>7, <2>2, <2>3 DEF InsertJob
  <2>5. creates' \in [JobId -> Create]
    BY <1>7 DEF InsertJob, Create, Spawning
  <2> QED BY <1>7, <2>4, <2>5 DEF InsertJob
<1>8. CASE SpawnTask(j)
  BY <1>8 DEF SpawnTask, Create, Task, Unbound
<1> QED BY <1>1, <1>2, <1>3, <1>4, <1>5, <1>6, <1>7, <1>8 DEF CreateStep

\* update_job keeps a job a job.
LEMMA TypeUpdate ==
  ASSUME TypeOK, NEW j \in JobId, NEW s \in JobStatus, NEW f \in JobId \cup {NoDir}
  PROVE  /\ UpdateJob(j, [jobs[j] EXCEPT !.status = s]) =>
              jobs' \in [JobId -> Job \cup {NoJob}]
         /\ UpdateJob(j, [jobs[j] EXCEPT !.status = s, !.file = f]) =>
              jobs' \in [JobId -> Job \cup {NoJob}]
<1>1. jobs[j] \in Job => [jobs[j] EXCEPT !.status = s] \in Job
  BY DEF Job
<1>2. jobs[j] \in Job => [jobs[j] EXCEPT !.status = s, !.file = f] \in Job
  BY DEF Job
<1> QED BY <1>1, <1>2 DEF UpdateJob, Present, TypeOK

\* Every step of a task preserves the types.
LEMMA TypeTask ==
  ASSUME TypeOK, NEW j \in JobId, TaskStep(j)
  PROVE  TypeOK'
<1> USE DEF TypeOK, TaskAt, TaskGoto
<1>0. {"queued", "downloading", "complete", "error"} = JobStatus
  BY DEF JobStatus, Terminal
<1>1. CASE MarkQueued(j)
  BY <1>0, <1>1, TypeUpdate DEF MarkQueued, Task, Unbound
<1>2. CASE Acquire(j)
  BY <1>2 DEF Acquire, Task, Unbound
<1>3. CASE MarkDownloading(j)
  BY <1>0, <1>3, TypeUpdate DEF MarkDownloading, Task, Unbound
<1>4. CASE CloneJob(j)
  BY <1>4 DEF CloneJob, Task, Unbound, Bound, Present, Job
<1>5. CASE CreateDir(j)
  <2>1. tasks[j] \in Bound
    BY <1>5, TaskShape DEF CreateDir
  <2>2. tasks' \in [JobId -> Task]
    BY <1>5, <2>1 DEF CreateDir, Task, Bound
  <2>3. disk' \in [JobId -> Content]
    BY <1>5 DEF CreateDir, Content
  <2> QED BY <1>5, <2>2, <2>3 DEF CreateDir
<1>6. CASE FileWritten(j)
  <2>1. tasks[j] \in Bound
    BY <1>6, TaskShape DEF FileWritten
  <2> QED BY <1>6, <2>1 DEF FileWritten, Bound, Content
<1>7. CASE RunReturns(j)
  <2>1. tasks[j] \in Bound
    BY <1>7, TaskShape DEF RunReturns
  <2> QED BY <1>7, <2>1 DEF RunReturns, Task, Bound
<1>8. CASE RecordDownload(j)
  <2>1. tasks[j] \in Bound
    BY <1>8, TaskShape DEF RecordDownload
  <2>2. tasks' \in [JobId -> Task]
    BY <1>8, <2>1 DEF RecordDownload, Task, Bound
  <2>3. cache' \in [Key -> Row \cup {NoRow}]
    BY <1>8, <2>1 DEF RecordDownload, Bound, Row
  <2> QED BY <1>8, <2>2, <2>3 DEF RecordDownload
<1>9. CASE CompleteJob(j)
  BY <1>0, <1>9, TypeUpdate DEF CompleteJob, Task, Unbound
<1>10. CASE FailJob(j)
  BY <1>0, <1>10, TypeUpdate DEF FailJob, Task, Unbound
<1>11. CASE ReleasePermit(j)
  <2>1. waiters # <<>> => Head(waiters) \in JobId /\ Tail(waiters) \in Seq(JobId)
    OBVIOUS
  <2>2. tasks' \in [JobId -> Task]
    BY <1>11, <2>1 DEF ReleasePermit, Task, Unbound
  <2> QED BY <1>11, <2>1, <2>2 DEF ReleasePermit
<1> QED BY <1>1, <1>2, <1>3, <1>4, <1>5, <1>6, <1>7, <1>8, <1>9, <1>10, <1>11 DEF TaskStep

\* Every step preserves the types.
LEMMA TypeNext == TypeOK /\ [Next]_vars => TypeOK'
<1> SUFFICES ASSUME TypeOK, [Next]_vars PROVE TypeOK'
  OBVIOUS
<1>1. ASSUME NEW j \in JobId, NEW k \in Key, BeginCreate(j, k) PROVE TypeOK'
  BY <1>1 DEF BeginCreate, TypeOK, At, Goto, Create, Entering
<1>2. CASE Tick
  BY <1>2 DEF Tick, TypeOK
<1>3. CASE Restart
  BY <1>3 DEF Restart, TypeOK, Create, Task
<1>4. CASE UNCHANGED vars
  BY <1>4 DEF vars, TypeOK
<1> QED BY <1>1, <1>2, <1>3, <1>4, TypeCreate, TypeTask DEF Next, Work

\* Every variable of the download capability keeps its type.
THEOREM TypeCorrect == Spec => []TypeOK
  BY TypeInit, TypeNext, PTL DEF Spec

(***************************************************************************)
(* Jobs and their tasks.                                                   *)
(***************************************************************************)

\* Initially there is neither a job nor a task.
LEMMA JobInit == Init => JobInv
  BY TypeInit DEF Init, JobInv, HandlerBeforeTask, LiveTaskHasJob, ActiveJobHasTask, NoJob,
     NoTask, Idle, Bound, At

\* JobInv speaks of one job at a time.
JobInvAt(j) == HandlerBeforeTask!(j) /\ LiveTaskHasJob!(j) /\ ActiveJobHasTask!(j)

\* JobInv holds when it holds of every job.
LEMMA JobInvLocal ==
  /\ JobInv <=> TypeOK /\ \A j \in JobId : JobInvAt(j)
  /\ JobInv' <=> TypeOK' /\ \A j \in JobId : JobInvAt(j)'
  BY DEF JobInv, JobInvAt, HandlerBeforeTask, LiveTaskHasJob, ActiveJobHasTask

\* A step need only be checked on the job it touches.
LEMMA JobFrame ==
  ASSUME JobInv, TypeOK', NEW j \in JobId, JobInvAt(j)',
         \A i \in JobId \ {j} : /\ jobs'[i] = jobs[i]
                                /\ creates'[i] = creates[i]
                                /\ tasks'[i] = tasks[i]
  PROVE  JobInv'
<1>1. \A i \in JobId \ {j} : JobInvAt(i)'
  BY JobInvLocal DEF JobInvAt, At
<1> QED BY <1>1, JobInvLocal

\* Every step of a handler preserves JobInv.
LEMMA JobCreate ==
  ASSUME JobInv, NEW j \in JobId, CreateStep(j)
  PROVE  JobInv'
<1>0. TypeOK /\ TypeOK' /\ \A i \in JobId : JobInvAt(i)
  BY TypeCreate, JobInvLocal DEF JobInv
<1>t. creates \in [JobId -> Create] /\ tasks \in [JobId -> Task]
      /\ jobs \in [JobId -> Job \cup {NoJob}]
  BY <1>0 DEF TypeOK
<1> USE DEF At, Goto
<1>1. CASE SweepJobs(j)
  <2>1. creates' = [creates EXCEPT ![j] = [creates[j] EXCEPT !.pc = "sweepCache"]]
        /\ creates[j].pc = "sweepJobs" /\ tasks' = tasks
    BY <1>1 DEF SweepJobs
  <2>2. creates'[j].pc = "sweepCache"
    BY <2>1, <1>0, <1>t, CreateShape DEF Entering
  <2>3. ASSUME NEW i \in JobId PROVE JobInvAt(i)'
    <3>1. \/ jobs'[i] = jobs[i]
          \/ jobs[i].status \in Terminal /\ jobs'[i] = NoJob
      BY <1>1 DEF SweepJobs, Retired
    <3>2. CASE jobs'[i] = jobs[i]
      BY <3>2, <2>1, <2>2, <1>0, <1>t DEF JobInvAt
    <3>3. CASE jobs[i].status \in Terminal /\ jobs'[i] = NoJob
      <4>1. tasks[i].pc \in {"none", "leaving", "exited"}
        BY <3>3, <1>0, <1>t DEF JobInvAt, StatusAt, Terminal, Task, Bound, Unbound, NoTask
      <4>2. tasks[i] \notin Bound
        BY <4>1 DEF Bound
      <4>3. creates'[i].pc # "spawn"
        BY <2>1, <2>2, <1>0, <1>t, <3>3 DEF JobInvAt, Terminal
      <4> QED BY <3>3, <2>1, <2>2, <4>1, <4>2, <4>3, <1>0, <1>t
              DEF JobInvAt, StatusAt, NoJob, Terminal
    <3> QED BY <3>1, <3>2, <3>3
  <2> QED BY <2>3, <1>0, JobInvLocal
<1>2. ASSUME UNCHANGED <<jobs, tasks>>, creates'[j].pc \notin {"spawn", "done"},
             creates[j].pc \notin {"spawn", "done"},
             \A i \in JobId \ {j} : creates'[i] = creates[i]
      PROVE  JobInv'
  <2>1. JobInvAt(j)'
    BY <1>0, <1>2 DEF JobInvAt
  <2> QED BY <1>0, <1>2, <2>1, JobFrame
<1>3. CASE SnapshotCache(j)
  BY <1>2, <1>3, <1>t DEF SnapshotCache
<1>4. ASSUME NEW r \in Entry, PurgeRow(j, r) PROVE JobInv'
  BY <1>2, <1>4, <1>t DEF PurgeRow
<1>5. CASE RemoveDir(j)
  BY <1>2, <1>5, <1>t DEF RemoveDir
<1>6. CASE EndSweep(j)
  BY <1>2, <1>6, <1>t DEF EndSweep
<1>7. CASE Lookup(j)
  BY <1>2, <1>7, <1>t DEF Lookup
<1>8. CASE InsertJob(j)
  <2>1. PICK t \in creates[j].clock..now : jobs' = [jobs EXCEPT ![j] = NewJob(creates[j], t)]
    BY <1>8 DEF InsertJob
  <2>2. \/ jobs'[j].status = "queued" /\ creates'[j].pc = "spawn"
        \/ jobs'[j].status = "complete" /\ creates'[j].pc = "done"
    BY <1>8, <1>t, <2>1 DEF InsertJob, NewJob, Done
  <2>3. tasks[j] = NoTask /\ tasks' = tasks
    BY <1>8, <1>0 DEF InsertJob, JobInvAt
  <2>4. \A i \in JobId \ {j} : jobs'[i] = jobs[i] /\ creates'[i] = creates[i]
    BY <1>8, <2>1, <1>t DEF InsertJob
  <2>5. JobInvAt(j)'
    BY <2>2, <2>3 DEF JobInvAt, NoTask, Bound
  <2> QED BY <1>0, <2>3, <2>4, <2>5, JobFrame
<1>9. CASE SpawnTask(j)
  <2>1. creates'[j] = Done /\ tasks'[j] = [pc |-> "spawned"] /\ jobs' = jobs
        /\ jobs[j].status = "queued"
    BY <1>9, <1>0, <1>t DEF SpawnTask, JobInvAt
  <2>2. \A i \in JobId \ {j} : tasks'[i] = tasks[i] /\ creates'[i] = creates[i]
    BY <1>9, <1>t DEF SpawnTask
  <2>3. JobInvAt(j)'
    BY <2>1 DEF JobInvAt, StatusAt, Done, Bound
  <2> QED BY <1>0, <2>1, <2>2, <2>3, JobFrame
<1> QED BY <1>1, <1>3, <1>4, <1>5, <1>6, <1>7, <1>8, <1>9 DEF CreateStep

\* What JobInv says of the job of a running task.
LEMMA LiveJob ==
  ASSUME JobInv, NEW j \in JobId, tasks[j].pc # "none"
  PROVE  /\ tasks[j] # NoTask
         /\ creates[j].pc = "done"
         /\ tasks[j].pc # "exited" => jobs[j].status \in StatusAt(tasks[j].pc)
         /\ jobs[j] \in Job \cup {NoJob}
  BY JobInvLocal DEF JobInvAt, NoTask, TypeOK

\* A task whose job is listed updates that very job.
LEMMA UpdateListed ==
  ASSUME TypeOK, NEW j \in JobId, NEW new, UpdateJob(j, new)
  PROVE  /\ jobs[j].status \in JobStatus => jobs'[j] = new
         /\ jobs[j].status \notin JobStatus => jobs'[j] = jobs[j]
         /\ \A i \in JobId \ {j} : jobs'[i] = jobs[i]
  BY DEF UpdateJob, Present, TypeOK, NoJob, Job, JobStatus, Terminal

\* Every step of a task preserves JobInv.
LEMMA JobTask ==
  ASSUME JobInv, WaitersAreWaiting, NEW j \in JobId, TaskStep(j)
  PROVE  JobInv'
<1>0. TypeOK /\ TypeOK' /\ JobInvAt(j)
  BY TypeTask, JobInvLocal DEF JobInv
<1>t. creates \in [JobId -> Create] /\ tasks \in [JobId -> Task]
      /\ jobs \in [JobId -> Job \cup {NoJob}]
  BY <1>0 DEF TypeOK
<1>s. {"queued", "downloading", "complete", "error"} = JobStatus
  BY DEF JobStatus, Terminal
<1>a. ASSUME creates' = creates, tasks[j].pc # "none", JobInvAt(j)',
             \A i \in JobId \ {j} : jobs'[i] = jobs[i] /\ tasks'[i] = tasks[i]
      PROVE  JobInv'
  BY <1>0, <1>a, JobFrame
<1> USE DEF TaskAt, TaskGoto, At
<1>1. CASE MarkQueued(j)
  <2>1. jobs[j].status = "queued" /\ creates[j].pc = "done" /\ jobs[j] \in Job
    BY <1>1, LiveJob DEF MarkQueued, StatusAt, NoJob
  <2>2. jobs'[j].status = "queued" /\ \A i \in JobId \ {j} : jobs'[i] = jobs[i]
    BY <1>0, <1>1, <1>s, <2>1, UpdateListed DEF MarkQueued, Job
  <2>3. JobInvAt(j)'
    BY <1>1, <1>t, <2>1, <2>2 DEF MarkQueued, JobInvAt, StatusAt, Bound, NoTask
  <2> QED BY <1>a, <1>1, <1>t, <2>2, <2>3 DEF MarkQueued
<1>2. CASE Acquire(j)
  <2>1. jobs[j].status = "queued" /\ creates[j].pc = "done"
    BY <1>2, LiveJob DEF Acquire, StatusAt
  <2>2. tasks'[j] \in {[pc |-> "permitted"], [pc |-> "waiting"]}
        /\ \A i \in JobId \ {j} : tasks'[i] = tasks[i]
    BY <1>2, <1>t DEF Acquire
  <2>3. JobInvAt(j)'
    BY <1>2, <2>1, <2>2 DEF Acquire, JobInvAt, StatusAt, Bound, NoTask
  <2> QED BY <1>a, <1>2, <2>2, <2>3 DEF Acquire
<1>3. CASE MarkDownloading(j)
  <2>1. jobs[j].status = "queued" /\ creates[j].pc = "done" /\ jobs[j] \in Job
    BY <1>3, LiveJob DEF MarkDownloading, StatusAt, NoJob
  <2>2. jobs'[j].status = "downloading" /\ \A i \in JobId \ {j} : jobs'[i] = jobs[i]
    BY <1>0, <1>3, <1>s, <2>1, UpdateListed DEF MarkDownloading, Job
  <2>3. JobInvAt(j)'
    BY <1>3, <1>t, <2>1, <2>2
    DEF MarkDownloading, JobInvAt, StatusAt, Bound, NoTask, HoldsPermit
  <2> QED BY <1>a, <1>3, <1>t, <2>2, <2>3 DEF MarkDownloading
<1>4. CASE CloneJob(j)
  <2>1. jobs[j].status = "downloading" /\ creates[j].pc = "done"
    BY <1>4, LiveJob DEF CloneJob, StatusAt
  <2>2. tasks'[j] = [pc |-> "preparing", key |-> jobs[j].key]
    BY <1>4, <1>t, <2>1 DEF CloneJob, Present, NoJob
  <2>3. JobInvAt(j)'
    BY <1>4, <2>1, <2>2 DEF CloneJob, JobInvAt, StatusAt, NoTask, HoldsPermit
  <2> QED BY <1>a, <1>4, <1>t, <2>3 DEF CloneJob
<1>b. ASSUME UNCHANGED <<jobs, creates>>, tasks[j] \in Bound, tasks'[j] \in Bound,
             tasks'[j].key = tasks[j].key, \A i \in JobId \ {j} : tasks'[i] = tasks[i]
      PROVE  JobInv'
  <2>1. tasks[j].pc # "none"
    BY <1>b DEF Bound
  <2>2. jobs[j].status = "downloading" /\ creates[j].pc = "done"
    BY <1>b, <2>1, LiveJob DEF Bound, StatusAt
  <2>3. JobInvAt(j)'
    BY <1>0, <1>b, <2>2 DEF JobInvAt, StatusAt, Bound, NoTask, HoldsPermit
  <2> QED BY <1>a, <1>b, <2>1, <2>3
<1>5. CASE CreateDir(j)
  BY <1>0, <1>b, <1>5, <1>t, TaskShape DEF CreateDir, Bound
<1>6. CASE FileWritten(j)
  BY <1>0, <1>b, <1>6, <1>t, TaskShape DEF FileWritten, Bound
<1>7. CASE RunReturns(j)
  BY <1>0, <1>b, <1>7, <1>t, TaskShape DEF RunReturns, Bound
<1>8. CASE RecordDownload(j)
  BY <1>0, <1>b, <1>8, <1>t, TaskShape DEF RecordDownload, Bound
<1>9. CASE CompleteJob(j)
  <2>1. jobs[j].status = "downloading" /\ creates[j].pc = "done" /\ jobs[j] \in Job
    BY <1>9, LiveJob DEF CompleteJob, StatusAt, NoJob
  <2>2. jobs'[j].status = "complete" /\ \A i \in JobId \ {j} : jobs'[i] = jobs[i]
    <3>1. [jobs[j] EXCEPT !.status = "complete", !.file = j].status = "complete"
      BY <2>1 DEF Job
    <3> QED BY <1>0, <1>9, <1>s, <2>1, <3>1, UpdateListed DEF CompleteJob
  <2>3. JobInvAt(j)'
    BY <1>9, <1>t, <2>1, <2>2 DEF CompleteJob, JobInvAt, StatusAt, Bound, NoTask, Terminal
  <2> QED BY <1>a, <1>9, <1>t, <2>2, <2>3 DEF CompleteJob
<1>10. CASE FailJob(j)
  <2>1. jobs[j].status = "downloading" /\ creates[j].pc = "done" /\ jobs[j] \in Job
    BY <1>10, LiveJob DEF FailJob, StatusAt, NoJob
  <2>2. jobs'[j].status = "error" /\ \A i \in JobId \ {j} : jobs'[i] = jobs[i]
    BY <1>0, <1>10, <1>s, <2>1, UpdateListed DEF FailJob, Job
  <2>3. JobInvAt(j)'
    BY <1>10, <1>t, <2>1, <2>2 DEF FailJob, JobInvAt, StatusAt, Bound, NoTask, Terminal
  <2> QED BY <1>a, <1>10, <1>t, <2>2, <2>3 DEF FailJob
<1>11. CASE ReleasePermit(j)
  <2>1. creates[j].pc = "done" /\ UNCHANGED <<jobs, creates>>
    BY <1>11, LiveJob DEF ReleasePermit
  <2>2. tasks'[j] = [pc |-> "exited"] => JobInvAt(j)'
    BY <1>0, <1>11, <2>1 DEF ReleasePermit, JobInvAt, StatusAt, Bound, NoTask, HoldsPermit
  <2>3. CASE waiters = <<>>
    <3>1. tasks' = [tasks EXCEPT ![j] = [pc |-> "exited"]]
      BY <1>11, <2>3 DEF ReleasePermit
    <3> QED BY <1>a, <1>11, <1>t, <2>1, <2>2, <3>1 DEF ReleasePermit
  <2>4. CASE waiters # <<>>
    <3>1. PICK h \in JobId : h = Head(waiters) /\ tasks[h].pc = "waiting" /\ h # j
      BY <1>0, <1>11, <2>4 DEF ReleasePermit, WaitersAreWaiting, TypeOK
    <3>2. tasks' = [tasks EXCEPT ![j] = [pc |-> "exited"], ![h] = [pc |-> "permitted"]]
      BY <1>11, <2>4, <3>1 DEF ReleasePermit
    <3>3. tasks'[j] = [pc |-> "exited"] /\ tasks'[h] = [pc |-> "permitted"]
          /\ \A i \in JobId \ {j, h} : tasks'[i] = tasks[i]
      BY <1>t, <3>1, <3>2
    <3>4. jobs[h].status = "queued" /\ creates[h].pc = "done"
      BY <3>1, LiveJob DEF StatusAt
    <3>5. JobInvAt(h)'
      BY <2>1, <3>1, <3>3, <3>4 DEF JobInvAt, StatusAt, Bound, NoTask
    <3>6. \A i \in JobId \ {j, h} : JobInvAt(i)'
      BY <2>1, <3>3, JobInvLocal DEF JobInvAt
    <3> QED BY <1>0, <2>2, <3>3, <3>5, <3>6, JobInvLocal
  <2> QED BY <2>3, <2>4
<1> QED BY <1>1, <1>2, <1>3, <1>4, <1>5, <1>6, <1>7, <1>8, <1>9, <1>10, <1>11 DEF TaskStep

(***************************************************************************)
(* Slots.                                                                  *)
(***************************************************************************)

\* The tasks that hold a permit can be counted.
LEMMA HoldersFinite == IsFiniteSet(Holders) /\ Cardinality(Holders) \in Nat
  BY FS_Subset, FS_CardinalityType DEF Holders

\* Initially every permit is free and nobody waits.
LEMMA SlotInit == Init => SlotInv
<1> SUFFICES ASSUME Init PROVE SlotInv
  OBVIOUS
<1>1. Holders = {}
  BY DEF Init, Holders, NoTask, HoldsPermit
<1> QED BY <1>1, JobInit, FS_EmptySet
        DEF Init, SlotInv, SlotsAccounted, WaitersAreWaiting, TaskAt, NoTask

\* A step that leaves the semaphore alone and keeps every task inside or outside the set
\* of permit holders, and of waiters, keeps the accounts.
LEMMA SlotFrame ==
  ASSUME SlotInv, JobInv', UNCHANGED <<permits, waiters>>,
         \A i \in JobId : tasks'[i].pc \in HoldsPermit <=> tasks[i].pc \in HoldsPermit,
         \A i \in JobId : tasks'[i].pc = "waiting" <=> tasks[i].pc = "waiting"
  PROVE  SlotInv'
<1>1. Holders' = Holders
  BY DEF Holders
<1>2. waiters \in Seq(JobId)
  BY DEF SlotInv, JobInv, TypeOK
<1> QED BY <1>1, <1>2 DEF SlotInv, SlotsAccounted, WaitersAreWaiting, TaskAt

\* A step of a handler leaves the permits alone: the task it spawns holds none.
LEMMA SlotCreate ==
  ASSUME SlotInv, NEW j \in JobId, CreateStep(j)
  PROVE  SlotInv'
<1>0. JobInv /\ JobInv'
  BY JobCreate DEF SlotInv
<1>1. CASE SpawnTask(j)
  <2>1. tasks[j].pc = "none" /\ tasks' = [tasks EXCEPT ![j] = [pc |-> "spawned"]]
    BY <1>0, <1>1, JobInvLocal DEF SpawnTask, JobInvAt, At, Goto, NoTask
  <2>2. \A i \in JobId : \/ tasks'[i].pc = tasks[i].pc
                         \/ tasks[i].pc = "none" /\ tasks'[i].pc = "spawned"
    BY <1>0, <2>1 DEF JobInv, TypeOK
  <2> QED BY <1>0, <1>1, <2>2, SlotFrame DEF SpawnTask, HoldsPermit
<1>2. CASE ~SpawnTask(j)
  <2>1. UNCHANGED <<tasks, permits, waiters>>
    BY <1>2 DEF CreateStep, SweepJobs, SnapshotCache, PurgeRow, RemoveDir, EndSweep, Lookup,
                InsertJob
  <2> QED BY <1>0, <2>1, SlotFrame
<1> QED BY <1>1, <1>2

\* A task takes a free permit or joins the queue behind the others.
LEMMA SlotAcquire ==
  ASSUME SlotInv, NEW j \in JobId, Acquire(j)
  PROVE  SlotInv'
<1>0. JobInv /\ JobInv' /\ waiters \in Seq(JobId) /\ permits \in Nat
      /\ tasks \in [JobId -> Task]
  BY JobTask DEF SlotInv, TaskStep, JobInv, TypeOK
<1>h. j \notin Holders /\ tasks[j].pc = "acquiring"
  BY DEF Acquire, TaskAt, Holders, HoldsPermit
<1>1. CASE permits > 0 /\ permits' = permits - 1 /\ waiters' = waiters
           /\ tasks' = [tasks EXCEPT ![j] = [pc |-> "permitted"]]
  <2>1. Holders' = Holders \cup {j}
    BY <1>0, <1>1 DEF Holders, HoldsPermit
  <2>2. Cardinality(Holders') = Cardinality(Holders) + 1
    BY <1>h, <2>1, HoldersFinite, FS_AddElement
  <2>3. SlotsAccounted'
    BY <1>0, <1>1, <2>2, HoldersFinite DEF SlotInv, SlotsAccounted
  <2>4. waiters = <<>>
    BY <1>0, <1>1 DEF SlotInv, SlotsAccounted
  <2>5. WaitersAreWaiting'
    BY <1>0, <1>1, <2>4 DEF SlotInv, WaitersAreWaiting, TaskAt
  <2> QED BY <1>0, <2>3, <2>5 DEF SlotInv
<1>2. CASE permits = 0 /\ permits' = permits /\ waiters' = Append(waiters, j)
           /\ tasks' = [tasks EXCEPT ![j] = [pc |-> "waiting"]]
  <2>1. Holders' = Holders
    BY <1>0, <1>2, <1>h DEF Holders, HoldsPermit
  <2>2. SlotsAccounted'
    BY <1>2, <2>1 DEF SlotInv, SlotsAccounted
  <2>3. /\ Len(waiters') = Len(waiters) + 1
        /\ waiters'[Len(waiters) + 1] = j
        /\ \A n \in 1..Len(waiters) : waiters'[n] = waiters[n] /\ waiters[n] \in JobId \ {j}
    BY <1>0, <1>2, <1>h DEF SlotInv, WaitersAreWaiting, TaskAt
  <2>4. WaitersAreWaiting'
    BY <1>0, <1>2, <2>3 DEF SlotInv, WaitersAreWaiting, TaskAt
  <2> QED BY <1>0, <2>2, <2>4 DEF SlotInv
<1> QED BY <1>1, <1>2 DEF Acquire, TaskGoto

\* A permit goes to the oldest waiter, or back to the free ones.
LEMMA SlotRelease ==
  ASSUME SlotInv, NEW j \in JobId, ReleasePermit(j)
  PROVE  SlotInv'
<1>0. JobInv /\ JobInv' /\ waiters \in Seq(JobId) /\ permits \in Nat
      /\ tasks \in [JobId -> Task]
  BY JobTask DEF SlotInv, TaskStep, JobInv, TypeOK
<1>h. j \in Holders /\ tasks[j].pc = "leaving"
  BY DEF ReleasePermit, TaskAt, Holders, HoldsPermit
<1>r. IsFiniteSet(Holders \ {j}) /\ Cardinality(Holders \ {j}) = Cardinality(Holders) - 1
  BY <1>h, HoldersFinite, FS_RemoveElement
<1>1. CASE waiters = <<>> /\ permits' = permits + 1 /\ waiters' = waiters
           /\ tasks' = [tasks EXCEPT ![j] = [pc |-> "exited"]]
  <2>1. Holders' = Holders \ {j}
    BY <1>0, <1>1 DEF Holders, HoldsPermit
  <2>2. SlotsAccounted'
    BY <1>0, <1>1, <1>r, <2>1, HoldersFinite DEF SlotInv, SlotsAccounted
  <2>3. WaitersAreWaiting'
    BY <1>0, <1>1 DEF SlotInv, WaitersAreWaiting, TaskAt
  <2> QED BY <1>0, <2>2, <2>3 DEF SlotInv
<1>2. CASE waiters # <<>> /\ permits' = permits /\ waiters' = Tail(waiters)
           /\ tasks' = [tasks EXCEPT ![j] = [pc |-> "exited"],
                                     ![Head(waiters)] = [pc |-> "permitted"]]
  <2>1. PICK h \in JobId : h = Head(waiters) /\ h = waiters[1] /\ tasks[h].pc = "waiting"
    BY <1>0, <1>2 DEF SlotInv, WaitersAreWaiting, TaskAt
  <2>2. h # j /\ tasks' = [tasks EXCEPT ![j] = [pc |-> "exited"], ![h] = [pc |-> "permitted"]]
    BY <1>2, <1>h, <2>1
  <2>3. Holders' = (Holders \ {j}) \cup {h} /\ h \notin Holders
    BY <1>0, <2>1, <2>2 DEF Holders, HoldsPermit
  <2>4. Cardinality(Holders') = Cardinality(Holders)
    <3>1. Cardinality((Holders \ {j}) \cup {h}) = Cardinality(Holders \ {j}) + 1
      BY <1>r, <2>3, FS_AddElement
    <3> QED BY <1>r, <2>3, <3>1, HoldersFinite
  <2>5. SlotsAccounted'
    BY <1>2, <2>4 DEF SlotInv, SlotsAccounted
  <2>6. /\ Len(waiters') = Len(waiters) - 1
        /\ \A n \in 1..Len(waiters') : waiters'[n] = waiters[n + 1]
    BY <1>0, <1>2
  <2>7. \A i \in JobId : tasks'[i].pc = "waiting" <=> tasks[i].pc = "waiting" /\ i # h
    BY <1>0, <1>h, <2>1, <2>2
  <2>8. \A n \in 1..Len(waiters') : waiters'[n] \in JobId /\ waiters'[n] # h
                                    /\ tasks[waiters'[n]].pc = "waiting"
    BY <1>0, <2>1, <2>6 DEF SlotInv, WaitersAreWaiting, TaskAt
  <2>9. WaitersAreWaiting'
    <3>1. ASSUME NEW i \in JobId, tasks'[i].pc = "waiting"
          PROVE  \E n \in 1..Len(waiters') : waiters'[n] = i
      <4>1. PICK m \in 1..Len(waiters) : waiters[m] = i /\ i # h
        BY <2>7, <3>1 DEF SlotInv, WaitersAreWaiting, TaskAt
      <4>2. m - 1 \in 1..Len(waiters') /\ waiters'[m - 1] = i
        BY <1>0, <2>1, <2>6, <4>1
      <4> QED BY <4>2
    <3>2. \A n \in 1..Len(waiters') : tasks'[waiters'[n]].pc = "waiting"
      BY <2>7, <2>8
    <3>3. ASSUME NEW m \in 1..Len(waiters'), NEW n \in 1..Len(waiters'),
                 waiters'[m] = waiters'[n]
          PROVE  m = n
      <4>1. m + 1 \in 1..Len(waiters) /\ n + 1 \in 1..Len(waiters)
            /\ waiters[m + 1] = waiters[n + 1]
        BY <1>0, <2>6, <3>3
      <4>2. m + 1 = n + 1
        BY <4>1 DEF SlotInv, WaitersAreWaiting
      <4> QED BY <1>0, <2>6, <4>2
    <3> QED BY <3>1, <3>2, <3>3 DEF WaitersAreWaiting, TaskAt
  <2> QED BY <1>0, <2>5, <2>9 DEF SlotInv
<1> QED BY <1>1, <1>2 DEF ReleasePermit, TaskGoto

\* Every step of a task preserves SlotInv.
LEMMA SlotTask ==
  ASSUME SlotInv, NEW j \in JobId, TaskStep(j)
  PROVE  SlotInv'
<1>0. JobInv /\ JobInv' /\ tasks \in [JobId -> Task]
  BY JobTask DEF SlotInv, JobInv, TypeOK
<1>1. CASE Acquire(j) \/ ReleasePermit(j)
  BY <1>1, SlotAcquire, SlotRelease
<1>2. CASE MarkQueued(j)
  BY <1>0, <1>2, SlotFrame DEF MarkQueued, TaskAt, TaskGoto, HoldsPermit
<1>3. CASE MarkDownloading(j)
  BY <1>0, <1>3, SlotFrame DEF MarkDownloading, TaskAt, TaskGoto, HoldsPermit
<1>4. CASE CloneJob(j)
  BY <1>0, <1>4, SlotFrame DEF CloneJob, TaskAt, TaskGoto, HoldsPermit
<1>5. CASE CompleteJob(j)
  BY <1>0, <1>5, SlotFrame DEF CompleteJob, TaskAt, TaskGoto, HoldsPermit
<1>6. CASE FailJob(j)
  BY <1>0, <1>6, SlotFrame DEF FailJob, TaskAt, TaskGoto, HoldsPermit
<1>7. CASE CreateDir(j) \/ FileWritten(j) \/ RunReturns(j) \/ RecordDownload(j)
  <2>1. tasks[j] \in Bound
    BY <1>0, <1>7, TaskShape DEF CreateDir, FileWritten, RunReturns, RecordDownload, TaskAt, JobInv
  <2>2. UNCHANGED <<permits, waiters>> /\ tasks'[j] \in Bound
        /\ \A i \in JobId \ {j} : tasks'[i] = tasks[i]
    BY <1>0, <1>7, <2>1
    DEF CreateDir, FileWritten, RunReturns, RecordDownload, TaskAt, TaskGoto, Bound
  <2> QED BY <1>0, <2>1, <2>2, SlotFrame DEF Bound, HoldsPermit
<1> QED BY <1>1, <1>2, <1>3, <1>4, <1>5, <1>6, <1>7 DEF TaskStep

\* Every step of the capability preserves SlotInv, and with it JobInv and the types.
LEMMA SlotNext == SlotInv /\ [Next]_vars => SlotInv'
<1> SUFFICES ASSUME SlotInv, [Next]_vars PROVE SlotInv'
  OBVIOUS
<1>0. JobInv /\ TypeOK /\ TypeOK' /\ \A j \in JobId : JobInvAt(j)
  BY TypeNext, JobInvLocal DEF SlotInv, JobInv
<1>1. ASSUME NEW j \in JobId, NEW k \in Key, BeginCreate(j, k) PROVE SlotInv'
  <2>1. creates'[j].pc = "sweepJobs" /\ creates[j].pc = "idle"
        /\ UNCHANGED <<jobs, tasks, permits, waiters>>
        /\ \A i \in JobId \ {j} : creates'[i] = creates[i]
    BY <1>0, <1>1 DEF BeginCreate, At, Goto, TypeOK
  <2>2. JobInvAt(j)'
    BY <1>0, <2>1 DEF JobInvAt, At
  <2>3. JobInv'
    BY <1>0, <2>1, <2>2, JobFrame
  <2> QED BY <2>1, <2>3, SlotFrame
<1>2. CASE Tick \/ UNCHANGED vars
  <2>1. UNCHANGED <<jobs, creates, tasks, permits, waiters>>
    BY <1>2 DEF Tick, vars
  <2>2. \A j \in JobId : JobInvAt(j)'
    BY <1>0, <2>1 DEF JobInvAt, At
  <2>3. JobInv'
    BY <1>0, <2>2, JobInvLocal
  <2> QED BY <2>1, <2>3, SlotFrame
<1>3. CASE Restart
  <2>1. \A j \in JobId : /\ jobs'[j] = NoJob /\ tasks'[j] = NoTask
                         /\ creates'[j].pc \in {"idle", "done"}
    BY <1>3 DEF Restart, Idle, Done
  <2>2. \A j \in JobId : JobInvAt(j)'
    BY <2>1 DEF JobInvAt, At, NoJob, NoTask, Bound
  <2>3. Holders' = {} /\ waiters' = <<>> /\ permits' = MaxActive
    BY <1>3, <2>1 DEF Restart, Holders, NoTask, HoldsPermit
  <2>4. SlotsAccounted' /\ WaitersAreWaiting'
    BY <2>1, <2>3, FS_EmptySet DEF SlotsAccounted, WaitersAreWaiting, TaskAt, NoTask
  <2> QED BY <1>0, <2>2, <2>4, JobInvLocal DEF SlotInv
<1> QED BY <1>1, <1>2, <1>3, SlotCreate, SlotTask DEF Next, Work

\* The inductive invariant of jobs, tasks and slots, at every point of every interleaving of
\* requests, tasks and sweeps.
THEOREM SlotInvariant == Spec => []SlotInv
  BY SlotInit, SlotNext, PTL DEF Spec

\* Permits are neither lost nor made up, and nobody queues for a free one.
THEOREM SlotsCorrect == Spec => []SlotsAccounted
<1>1. SlotInv => SlotsAccounted
  BY DEF SlotInv
<1> QED BY <1>1, SlotInvariant, PTL

\* At most MaxActive yt-dlp processes run at any time.
THEOREM ActiveBounded == Spec => []AtMostMaxActive
<1>1. SlotInv => AtMostMaxActive
  <2> SUFFICES ASSUME SlotInv PROVE AtMostMaxActive
    OBVIOUS
  <2> DEFINE R == {j \in JobId : TaskAt(j, "running")}
  <2>1. R \subseteq Holders
    BY DEF Holders, HoldsPermit, TaskAt
  <2>2. Cardinality(R) <= Cardinality(Holders)
    BY <2>1, HoldersFinite, FS_Subset
  <2>3. Cardinality(R) \in Nat
    BY <2>1, HoldersFinite, FS_Subset, FS_CardinalityType
  <2> QED BY <2>2, <2>3, HoldersFinite DEF SlotInv, JobInv, TypeOK, SlotsAccounted, AtMostMaxActive
<1> QED BY <1>1, SlotInvariant, PTL

\* A live task always has its job, and an unfinished job always has its task.
THEOREM TasksAndJobsAgree == Spec => []JobsFollowTasks
<1>1. SlotInv => JobsFollowTasks
  BY DEF SlotInv, JobInv, JobsFollowTasks
<1> QED BY <1>1, SlotInvariant, PTL

(***************************************************************************)
(* The download capability implements the life cycle of JobLifecycle.      *)
(***************************************************************************)
status == [j \in JobId |-> Seen(j)]

\* Initially every job is new.
LEMMA LifecycleInit == Init => Lifecycle!Init
  BY DEF Init, Lifecycle!Init, Seen, Present, Idle, NoJob

\* A step that changes the status of one job changes the abstract status of that job alone.
LEMMA SeenFrame ==
  ASSUME NEW j \in JobId, Seen(j)' # Seen(j),
         \A i \in JobId \ {j} : Seen(i)' = Seen(i)
  PROVE  status' = [status EXCEPT ![j] = Seen(j)']
  BY DEF status, Seen, Present

\* The jobs in the state downloading all hold a permit.
LEMMA DownloadingHold ==
  ASSUME SlotInv
  PROVE  {j \in JobId : Seen(j) = "downloading"} \subseteq Holders
<1>1. \A j \in JobId : Seen(j) = "downloading" => jobs[j].status = "downloading"
  BY DEF Seen
<1> QED BY <1>1, JobInvLocal DEF SlotInv, JobInvAt, Holders, HoldsPermit

\* Every step of a handler is a step of the life cycle, or none.
LEMMA LifecycleCreate ==
  ASSUME SlotInv, NEW j \in JobId, CreateStep(j)
  PROVE  Lifecycle!Next \/ status' = status
<1>0. JobInv /\ TypeOK /\ \A i \in JobId : JobInvAt(i)
  BY JobInvLocal DEF SlotInv, JobInv
<1>t. creates \in [JobId -> Create] /\ jobs \in [JobId -> Job \cup {NoJob}]
  BY <1>0 DEF TypeOK
<1> USE DEF At, Goto
<1>1. CASE SweepJobs(j)
  <2> DEFINE S == {i \in JobId : Retired(i, creates[j].clock)}
  <2>1. creates[j].pc = "sweepJobs" /\ creates'[j].pc = "sweepCache"
        /\ \A i \in JobId \ {j} : creates'[i] = creates[i]
    BY <1>0, <1>1, <1>t, CreateShape DEF SweepJobs, Entering
  <2>2. \A i \in JobId : jobs'[i] = IF i \in S THEN NoJob ELSE jobs[i]
    BY <1>1 DEF SweepJobs
  <2>3. \A i \in S : jobs[i].status \in Terminal
    BY DEF Retired
  <2>4. \A i \in S : Present(i) /\ creates[i].pc \in {"done", "spawn"} /\ i # j
    BY <1>0, <2>1, <2>3 DEF JobInvAt, Present, NoJob, Terminal
  <2>5. \A i \in S : status[i] \in Terminal /\ Seen(i)' = "gone"
    BY <2>1, <2>2, <2>3, <2>4 DEF status, Seen, Present, NoJob
  <2>6. \A i \in JobId \ S : Seen(i)' = Seen(i)
    BY <2>1, <2>2 DEF Seen, Present
  <2>7. Lifecycle!Forget(S)
    BY <2>5, <2>6 DEF Lifecycle!Forget, Lifecycle!Terminal, Terminal, status
  <2> QED BY <2>7 DEF Lifecycle!Next
<1>2. CASE InsertJob(j)
  <2>1. PICK t \in creates[j].clock..now : jobs' = [jobs EXCEPT ![j] = NewJob(creates[j], t)]
    BY <1>2 DEF InsertJob
  <2>2. Seen(j) = "new"
    BY <1>0, <1>2 DEF InsertJob, JobInvAt, Seen, Present
  <2>3. Seen(j)' \in {"queued", "complete"}
    BY <1>t, <2>1 DEF Seen, Present, NewJob, NoJob
  <2>4. \A i \in JobId \ {j} : Seen(i)' = Seen(i)
    BY <1>2, <1>t, <2>1 DEF InsertJob, Seen, Present
  <2>5. status' = [status EXCEPT ![j] = Seen(j)']
    BY <2>2, <2>3, <2>4, SeenFrame
  <2>6. Lifecycle!Queue(j) \/ Lifecycle!Reuse(j)
    BY <2>2, <2>3, <2>5 DEF Lifecycle!Queue, Lifecycle!Reuse, Lifecycle!Move, status
  <2> QED BY <2>6 DEF Lifecycle!Next
<1>3. CASE SpawnTask(j)
  <2>1. Present(j) /\ jobs' = jobs
    BY <1>0, <1>3 DEF SpawnTask, JobInvAt, Present, NoJob
  <2>2. \A i \in JobId : Seen(i)' = Seen(i)
    BY <1>3, <1>t, <2>1 DEF SpawnTask, Seen, Present
  <2> QED BY <2>2 DEF status
<1>4. CASE ~SweepJobs(j) /\ ~InsertJob(j) /\ ~SpawnTask(j)
  <2>1. jobs' = jobs /\ creates[j].pc \notin {"spawn", "done"}
        /\ creates'[j].pc \notin {"spawn", "done"}
        /\ \A i \in JobId \ {j} : creates'[i] = creates[i]
    BY <1>4, <1>t DEF CreateStep, SnapshotCache, PurgeRow, RemoveDir, EndSweep, Lookup
  <2>2. \A i \in JobId : Seen(i)' = Seen(i)
    BY <2>1 DEF Seen, Present
  <2> QED BY <2>2 DEF status
<1> QED BY <1>1, <1>2, <1>3, <1>4

\* Every step of a task is a step of the life cycle, or none.
LEMMA LifecycleTask ==
  ASSUME SlotInv, NEW j \in JobId, TaskStep(j)
  PROVE  Lifecycle!Next \/ status' = status
<1>0. JobInv /\ TypeOK /\ WaitersAreWaiting /\ jobs \in [JobId -> Job \cup {NoJob}]
  BY DEF SlotInv, JobInv, TypeOK
<1>1. creates' = creates
  BY DEF TaskStep, MarkQueued, Acquire, MarkDownloading, CloneJob, CreateDir, FileWritten,
         RunReturns, RecordDownload, CompleteJob, FailJob, ReleasePermit
<1>2. CASE jobs' = jobs
  BY <1>1, <1>2 DEF status, Seen, Present
<1>s. {"queued", "downloading", "complete", "error"} = JobStatus
  BY DEF JobStatus, Terminal
<1> USE DEF TaskAt, TaskGoto
<1>3. CASE MarkQueued(j)
  <2>1. jobs[j].status = "queued" /\ jobs[j] \in Job
    BY <1>0, <1>3, LiveJob DEF MarkQueued, StatusAt, NoJob
  <2>2. jobs'[j] = [jobs[j] EXCEPT !.status = "queued"]
        /\ \A i \in JobId \ {j} : jobs'[i] = jobs[i]
    BY <1>0, <1>3, <1>s, <2>1, UpdateListed DEF MarkQueued
  <2>3. jobs'[j].status = jobs[j].status /\ Present(j) /\ jobs'[j] # NoJob
    BY <2>1, <2>2 DEF Job, Present, NoJob
  <2> QED BY <1>1, <2>2, <2>3 DEF status, Seen, Present
<1>4. ASSUME NEW s \in JobStatus, jobs[j].status # s, jobs[j] \in Job,
             jobs'[j].status = s, \A i \in JobId \ {j} : jobs'[i] = jobs[i]
      PROVE  status[j] = jobs[j].status /\ status' = [status EXCEPT ![j] = s]
  <2>1. Seen(j) = jobs[j].status /\ Seen(j)' = s
    BY <1>1, <1>4, <1>s DEF Seen, Present, Job, NoJob
  <2>2. \A i \in JobId \ {j} : Seen(i)' = Seen(i)
    BY <1>1, <1>4 DEF Seen, Present
  <2> QED BY <1>4, <2>1, <2>2, SeenFrame DEF status
<1>5. CASE MarkDownloading(j)
  <2>1. jobs[j].status = "queued" /\ jobs[j] \in Job
    BY <1>0, <1>5, LiveJob DEF MarkDownloading, StatusAt, NoJob
  <2>2. jobs'[j].status = "downloading" /\ \A i \in JobId \ {j} : jobs'[i] = jobs[i]
    BY <1>0, <1>5, <1>s, <2>1, UpdateListed DEF MarkDownloading, Job
  <2>3. status[j] = "queued" /\ status' = [status EXCEPT ![j] = "downloading"]
    BY <1>4, <1>s, <2>1, <2>2
  <2> DEFINE D == {i \in JobId : Seen(i) = "downloading"}
  <2>4. D \subseteq Holders /\ j \in Holders \ D
    BY <1>5, <2>1, DownloadingHold DEF MarkDownloading, Holders, HoldsPermit, Seen, Present, NoJob
  <2>5. Cardinality(D) <= Cardinality(Holders) /\ Cardinality(D) # Cardinality(Holders)
    BY <2>4, HoldersFinite, FS_Subset
  <2>6. Cardinality(D) \in Nat
    BY <2>4, HoldersFinite, FS_Subset, FS_CardinalityType
  <2>7. Cardinality(D) < MaxActive
    BY <2>5, <2>6, HoldersFinite DEF SlotInv, SlotsAccounted, JobInv, TypeOK
  <2>8. Lifecycle!Downloading = D
    BY DEF Lifecycle!Downloading
  <2>c. Lifecycle!Cardinality(D) = Cardinality(D)
    BY DEF Lifecycle!Cardinality, Cardinality
  <2>9. Lifecycle!Start(j)
    BY <2>3, <2>7, <2>8, <2>c DEF Lifecycle!Start, Lifecycle!Move, status
  <2> QED BY <2>9 DEF Lifecycle!Next
<1>6. ASSUME NEW s \in Terminal, jobs[j].status = "downloading", jobs[j] \in Job,
             jobs'[j].status = s, \A i \in JobId \ {j} : jobs'[i] = jobs[i]
      PROVE  Lifecycle!Next
  <2>1. status[j] = "downloading" /\ status' = [status EXCEPT ![j] = s]
    BY <1>4, <1>6, <1>s DEF Terminal
  <2>2. Lifecycle!End(j)
    BY <2>1 DEF Lifecycle!End, Lifecycle!Move, Lifecycle!Terminal, Terminal, status
  <2> QED BY <2>2 DEF Lifecycle!Next
<1>7. CASE CompleteJob(j)
  <2>1. jobs[j].status = "downloading" /\ jobs[j] \in Job
    BY <1>0, <1>7, LiveJob DEF CompleteJob, StatusAt, NoJob
  <2>2. [jobs[j] EXCEPT !.status = "complete", !.file = j].status = "complete"
    BY <2>1 DEF Job
  <2>3. jobs'[j].status = "complete" /\ \A i \in JobId \ {j} : jobs'[i] = jobs[i]
    BY <1>0, <1>7, <1>s, <2>1, <2>2, UpdateListed DEF CompleteJob
  <2> QED BY <1>6, <2>1, <2>3 DEF Terminal
<1>8. CASE FailJob(j)
  <2>1. jobs[j].status = "downloading" /\ jobs[j] \in Job
    BY <1>0, <1>8, LiveJob DEF FailJob, StatusAt, NoJob
  <2>2. jobs'[j].status = "error" /\ \A i \in JobId \ {j} : jobs'[i] = jobs[i]
    BY <1>0, <1>8, <1>s, <2>1, UpdateListed DEF FailJob, Job
  <2> QED BY <1>6, <2>1, <2>2 DEF Terminal
<1> QED BY <1>2, <1>3, <1>5, <1>7, <1>8
        DEF TaskStep, Acquire, CloneJob, CreateDir, FileWritten, RunReturns, RecordDownload,
            ReleasePermit

\* Every step of the capability is a step of the life cycle or leaves it alone.
LEMMA LifecycleStep == SlotInv /\ [Next]_vars => Lifecycle!Next \/ status' = status
<1> SUFFICES ASSUME SlotInv, [Next]_vars PROVE Lifecycle!Next \/ status' = status
  OBVIOUS
<1>0. TypeOK /\ \A i \in JobId : JobInvAt(i)
  BY JobInvLocal DEF SlotInv, JobInv
<1>1. ASSUME NEW j \in JobId, NEW k \in Key, BeginCreate(j, k) PROVE status' = status
  <2>1. \A i \in JobId : Seen(i)' = Seen(i)
    BY <1>0, <1>1 DEF BeginCreate, At, Goto, Seen, Present, TypeOK
  <2> QED BY <2>1 DEF status
<1>2. CASE Tick \/ UNCHANGED vars
  BY <1>2 DEF Tick, vars, status, Seen, Present
<1>3. CASE Restart
  <2> DEFINE S == {j \in JobId : At(j, "idle")}
  <2>1. \A j \in JobId : status'[j] = IF j \in S THEN "new" ELSE "gone"
    BY <1>3 DEF Restart, status, Seen, Present, Idle, Done, NoJob
  <2>2. \A j \in S : status[j] = "new"
    BY <1>0 DEF JobInvAt, At, status, Seen, Present
  <2>3. Lifecycle!Restart(S)
    BY <2>1, <2>2 DEF Lifecycle!Restart, status
  <2> QED BY <2>3 DEF Lifecycle!Next
<1> QED BY <1>1, <1>2, <1>3, LifecycleCreate, LifecycleTask DEF Next, Work

\* The statuses a client polls follow the abstract life cycle: queued, downloading while at
\* most MaxActive jobs do, one final outcome, forgotten, never listed again.
THEOREM ImplementsLifecycle == Spec => LifecycleSpec
<1>1. Init => Lifecycle!Init
  BY LifecycleInit
<1>2. SlotInv /\ [Next]_vars => [Lifecycle!Next]_status
  BY LifecycleStep
<1> QED BY <1>1, <1>2, SlotInvariant, PTL DEF Spec, LifecycleSpec, Lifecycle!Spec, status
=============================================================================
