-------------------------- MODULE FileServing_proofs --------------------------
(***************************************************************************)
(* Proofs about the requests for files.  Leaving out the requests, a       *)
(* behaviour of FileServing is one of Downloader, so that everything       *)
(* proved there holds here.                                                *)
(***************************************************************************)
EXTENDS FileServing, Downloader_cache_proofs

USE JobIdAssumption, MaxActiveAssumption, ClockAssumption, DbFaultsAssumption

\* A job that was listed once and is not any more.
Forgotten(j) == ~Present(j) /\ At(j, "done")

\* A request in flight leads to the video it was sent for, or to nothing any more; it was
\* sent for a job that is still complete with the same file, or forgotten.
InFlight(r) ==
  reads[r].pc \in {"resolving", "checking", "opening"} =>
    /\ HoldsOnly(reads[r].file, reads[r].key)
    /\ \/ Forgotten(reads[r].job)
       \/ /\ jobs[reads[r].job].status = "complete"
          /\ jobs[reads[r].job].file = reads[r].file
          /\ jobs[reads[r].job].key = reads[r].key
Justified(j) == Forgotten(j) \/ (jobs[j].status = "complete" /\ Reused(j))
Answered(r) ==
  /\ reads[r].pc \in {"missing", "forbidden"} =>
       reads[r].job \in JobId /\ Justified(reads[r].job)
  /\ reads[r].pc = "ok" => reads[r].body = Video(reads[r].key)
ReadsInv == ReadsTypeOK /\ \A r \in Reader : InFlight(r) /\ Answered(r)

\* Every step of FileServing is a step of Downloader, or none.
LEMMA ServeStep ==
  ASSUME [ServeNext]_serveVars
  PROVE  [Next]_vars
BY DEF ServeNext, serveVars, Next, Get, ReadStep, Resolve, Check, Open, RestartReads

\* Leaving out the requests, a behaviour of FileServing is one of Downloader.
THEOREM ServingIsDownloading == ServeSpec => Spec
<1>1. ServeInit => Init
  BY DEF ServeInit
<1> QED BY <1>1, ServeStep, PTL DEF ServeSpec, Spec

\* A finished job stays as it is until it is forgotten, for good.
LEMMA CompleteFate ==
  ASSUME SlotInv, [Next]_vars, NEW j \in JobId
  PROVE  /\ jobs[j].status = "complete" => jobs'[j] = jobs[j] \/ Forgotten(j)'
         /\ Forgotten(j) => Forgotten(j)'
<1> DEFINE Q == jobs[j].status = "complete" \/ Forgotten(j)
<1>0. /\ TypeOK /\ creates \in [JobId -> Create] /\ tasks \in [JobId -> Task] /\ JobInvAt(j)
      /\ jobs \in [JobId -> Job \cup {NoJob}]
  BY Given
<1>1. jobs[j].status = "complete" => At(j, "done") /\ Present(j)
  BY <1>0, CreateShape DEF JobInvAt, At, Present, NoJob, HandlerBeforeTask
<1> SUFFICES ASSUME Q, At(j, "done") PROVE At(j, "done")' /\ (jobs'[j] = jobs[j] \/ ~Present(j)')
  BY <1>1 DEF Forgotten, Present
<1>2. ASSUME NEW i \in JobId, NEW k \in Key, BeginCreate(i, k)
      PROVE  At(j, "done")' /\ jobs'[j] = jobs[j]
  BY <1>0, <1>2 DEF BeginCreate, At, Goto
<1>3. ASSUME NEW i \in JobId, CreateStep(i)
      PROVE  At(j, "done")' /\ (jobs'[j] = jobs[j] \/ ~Present(j)')
  <2>1. creates[i].pc # "done" /\ \A d \in JobId \ {i} : creates'[d] = creates[d]
    BY <1>0, <1>3 DEF CreateStep, SweepJobs, SnapshotCache, PurgeRow, RemoveDir, EndSweep, Lookup,
                      InsertJob, SpawnTask, Goto, At
  <2>2. i # j /\ At(j, "done")'
    BY <2>1 DEF At
  <2>3. CASE SweepJobs(i)
    BY <1>0, <2>2, <2>3 DEF SweepJobs, Present
  <2>4. CASE InsertJob(i)
    BY <1>0, <2>2, <2>4 DEF InsertJob
  <2>5. CASE ~SweepJobs(i) /\ ~InsertJob(i)
    BY <1>3, <2>2, <2>5 DEF CreateStep, SnapshotCache, PurgeRow, RemoveDir, EndSweep, Lookup,
                            SpawnTask
  <2> QED BY <2>2, <2>3, <2>4, <2>5
<1>4. ASSUME NEW i \in JobId, TaskStep(i)
      PROVE  At(j, "done")' /\ (jobs'[j] = jobs[j] \/ ~Present(j)')
  <2>1. creates' = creates
    BY <1>4 DEF TaskStep, MarkQueued, Acquire, MarkDownloading, CloneJob, CreateDir, FileWritten,
                RunReturns, RecordDownload, CompleteJob, FailJob, ReleasePermit
  <2>2. CASE MarkQueued(i) \/ MarkDownloading(i) \/ CompleteJob(i) \/ FailJob(i)
    <3>1. i = j => tasks[j].pc \in {"spawned", "permitted", "recorded", "failing"}
      BY <2>2 DEF MarkQueued, MarkDownloading, CompleteJob, FailJob, TaskAt
    <3>2. i # j
      BY <1>0, <3>1 DEF JobInvAt, StatusAt, Terminal, Forgotten, Present, NoJob
    <3>3. jobs'[j] = jobs[j]
      BY <1>0, <2>2, <3>2 DEF MarkQueued, MarkDownloading, CompleteJob, FailJob, UpdateJob
    <3> QED BY <2>1, <3>3 DEF At
  <2>3. CASE ~(MarkQueued(i) \/ MarkDownloading(i) \/ CompleteJob(i) \/ FailJob(i))
    BY <1>4, <2>1, <2>3 DEF TaskStep, Acquire, CloneJob, CreateDir, FileWritten, RunReturns,
                            RecordDownload, ReleasePermit, At
  <2> QED BY <2>2, <2>3
<1>5. CASE Tick \/ UNCHANGED vars
  BY <1>5 DEF Tick, vars, At
<1>6. CASE Restart
  BY <1>6 DEF Restart, At, Done, Present
<1> QED BY <1>2, <1>3, <1>4, <1>5, <1>6 DEF Next, Work

\* A step that leaves a request alone keeps what is known of it.
LEMMA ReadFrame ==
  ASSUME SlotInv, CacheInv, ReadsInv, [Next]_vars, NEW r \in Reader, reads'[r] = reads[r]
  PROVE  InFlight(r)' /\ Answered(r)'
<1>1. reads[r] \in Read
  BY DEF ReadsInv, ReadsTypeOK
<1>2. ASSUME reads[r].pc \in {"resolving", "checking", "opening"}
      PROVE  InFlight(r)'
  <2>1. reads[r].job \in JobId /\ reads[r].file \in JobId /\ reads[r].key \in Key
    BY <1>1, <1>2 DEF Read, Asking, Serving, Refused, Served, Refusal
  <2>2. HoldsOnly(reads[r].file, reads[r].key) /\ HoldsOnly(reads[r].file, reads[r].key)'
    BY <1>2, <2>1, HoldsStable DEF ReadsInv, InFlight
  <2> QED BY <1>2, <2>1, <2>2, CompleteFate DEF ReadsInv, InFlight
<1>3. ASSUME reads[r].pc \in {"missing", "forbidden"}
      PROVE  Answered(r)'
  <2>1. reads[r].job \in JobId /\ Justified(reads[r].job)
    BY <1>3 DEF ReadsInv, Answered
  <2>2. ASSUME NEW j \in JobId, Justified(j)
        PROVE  Justified(j)'
    BY <2>2, CompleteFate DEF Justified, Reused, Present
  <2> QED BY <1>3, <2>1, <2>2 DEF Answered
<1> QED BY <1>2, <1>3 DEF ReadsInv, InFlight, Answered

\* A request sent for a complete job is in flight as InFlight says.
LEMMA ReadGet ==
  ASSUME SlotInv, CacheInv, ReadsInv, NEW r \in Reader, NEW j \in JobId, Get(r, j)
  PROVE  reads'[r] \in Read /\ InFlight(r)' /\ Answered(r)'
<1>1. UNCHANGED vars /\ UNCHANGED <<jobs, creates, tasks, disk>>
  BY DEF Get, vars
<1>2. reads \in [Reader -> Read] /\ jobs \in [JobId -> Job \cup {NoJob}]
  BY Given DEF ReadsInv, ReadsTypeOK
<1>3. CASE reads'[r] \in {[pc |-> "unknown", job |-> j], [pc |-> "notReady", job |-> j]}
  BY <1>3 DEF Read, Refused, Refusal, InFlight, Answered
<1>4. CASE jobs[j].status = "complete"
  <2>1. jobs[j] \in Job /\ jobs[j].file \in JobId /\ HoldsOnly(jobs[j].file, jobs[j].key)
    BY <1>2, <1>4 DEF NoJob, CacheInv, JobsSettled
  <2>2. reads'[r] = [pc |-> "resolving", job |-> j, key |-> jobs[j].key, file |-> jobs[j].file]
    BY <1>2, <1>4, <2>1 DEF Get, ReadAt, ReadGoto, Present, NoJob
  <2>3. reads'[r] \in Read
    BY <2>1, <2>2 DEF Read, Serving, Job
  <2>4. HoldsOnly(reads[r].file, reads[r].key)'
    BY <1>1, <2>1, <2>2 DEF HoldsOnly, Settled, At
  <2> QED BY <1>1, <1>4, <2>2, <2>3, <2>4 DEF InFlight, Answered
<1> QED BY <1>2, <1>3, <1>4 DEF Get, ReadGoto

\* The file is found with the content it was asked for, or it is gone with its job.
LEMMA ReadServe ==
  ASSUME SlotInv, CacheInv, ReadsInv, NEW r \in Reader, ReadStep(r)
  PROVE  reads'[r] \in Read /\ InFlight(r)' /\ Answered(r)'
<1> DEFINE f == reads[r].file
           k == reads[r].key
           j == reads[r].job
<1>1. UNCHANGED <<jobs, creates, tasks, disk>>
  BY DEF ReadStep, Resolve, Check, Open, vars
<1>2. /\ reads \in [Reader -> Read] /\ disk \in [JobId -> Content]
      /\ reads[r].pc \in {"resolving", "checking", "opening"}
  BY Given DEF ReadStep, Resolve, Check, Open, ReadAt, ReadsInv, ReadsTypeOK
<1>3. /\ reads[r] \in Serving /\ f \in JobId /\ k \in Key /\ j \in JobId
      /\ HoldsOnly(f, k)
      /\ Forgotten(j) \/ (jobs[j].status = "complete" /\ jobs[j].file = f /\ jobs[j].key = k)
  BY <1>2 DEF Read, Asking, Serving, Refused, Served, Refusal, ReadsInv, InFlight
<1>4. CASE OnDisk(r)
  <2>1. disk[f] = Video(k)
    BY <1>3, <1>4 DEF OnDisk, HoldsOnly, Absent, Partial
  <2>2. CASE reads[r].pc = "opening"
    <3>1. reads'[r] = [pc |-> "ok", job |-> j, key |-> k, body |-> Video(k)]
      BY <1>2, <1>4, <2>1, <2>2 DEF ReadStep, Resolve, Check, Open, ReadAt, ReadGoto
    <3>2. Video(k) \in Content
      BY <1>3 DEF Content
    <3> QED BY <1>3, <3>1, <3>2 DEF Read, Served, InFlight, Answered
  <2>3. CASE reads[r].pc # "opening"
    <3>1. \E c \in {"checking", "opening"} :
            reads'[r] = [pc |-> c, job |-> j, key |-> k, file |-> f]
      BY <1>2, <1>3, <1>4, <2>3 DEF ReadStep, Resolve, Check, Open, ReadAt, ReadGoto, Serving
    <3>2. reads'[r] \in Read
      BY <1>3, <3>1 DEF Read, Serving
    <3>3. HoldsOnly(reads[r].file, reads[r].key)'
      BY <1>1, <1>3, <3>1 DEF HoldsOnly, Settled, At
    <3> QED BY <1>1, <1>3, <3>1, <3>2, <3>3 DEF InFlight, Answered, Forgotten, Present, At
  <2> QED BY <2>2, <2>3
<1>5. CASE ~OnDisk(r)
  <2>1. \E why \in {"missing", "forbidden"} : reads'[r] = [pc |-> why, job |-> j]
    BY <1>2, <1>5 DEF ReadStep, Resolve, Check, Open, ReadAt, ReadGoto, Refuse
  <2>2. disk[f] # Video(k)
    BY <1>5 DEF OnDisk, Video
  <2>3. Justified(j)
    BY <1>3, <2>2 DEF CacheInv, OwnFileKept, Reused, Present, NoJob, Justified
  <2>4. reads'[r] \in Read /\ InFlight(r)'
    BY <1>3, <2>1 DEF Read, Refused, Refusal, InFlight
  <2>5. Answered(r)'
    <3>1. reads'[r].job = j /\ reads'[r].pc # "ok"
      BY <2>1
    <3>2. \A i \in JobId : Justified(i) => Justified(i)'
      BY <1>1 DEF Justified, Forgotten, Reused, Present, At
    <3> QED BY <1>3, <2>3, <3>1, <3>2 DEF Answered
  <2> QED BY <2>4, <2>5
<1> QED BY <1>4, <1>5

\* Every step preserves ReadsInv.
LEMMA ReadsNext ==
  ASSUME SlotInv, CacheInv, ReadsInv, [ServeNext]_serveVars
  PROVE  ReadsInv'
<1>0. [Next]_vars /\ reads \in [Reader -> Read]
  BY ServeStep DEF ReadsInv, ReadsTypeOK
<1>1. CASE UNCHANGED reads
  BY <1>0, <1>1, ReadFrame DEF ReadsInv, ReadsTypeOK
<1>2. ASSUME NEW r \in Reader, (\E j \in JobId : Get(r, j)) \/ ReadStep(r)
      PROVE  ReadsInv'
  <2>1. \A q \in Reader \ {r} : reads'[q] = reads[q]
    BY <1>0, <1>2 DEF Get, ReadStep, Resolve, Check, Open, Refuse, ReadGoto
  <2>2. DOMAIN reads' = Reader /\ reads' = [q \in Reader |-> reads'[q]]
    BY <1>0, <1>2 DEF Get, ReadStep, Resolve, Check, Open, Refuse, ReadGoto
  <2>3. reads'[r] \in Read /\ InFlight(r)' /\ Answered(r)'
    BY <1>2, ReadGet, ReadServe
  <2>4. \A q \in Reader \ {r} : InFlight(q)' /\ Answered(q)'
    BY <1>0, <2>1, ReadFrame
  <2>5. reads' \in [Reader -> Read]
    BY <1>0, <2>1, <2>2, <2>3
  <2> QED BY <2>3, <2>4, <2>5 DEF ReadsInv, ReadsTypeOK
<1>3. CASE RestartReads
  BY <1>3 DEF RestartReads, ReadsInv, ReadsTypeOK, InFlight, Answered, Read, Asking
<1> QED BY <1>1, <1>2, <1>3 DEF ServeNext, serveVars

\* Initially no request is in flight.
LEMMA ReadsInit == ServeInit => ReadsInv
  BY DEF ServeInit, ReadsInv, ReadsTypeOK, InFlight, Answered, Read, Asking

\* The inductive invariant of the requests, over that of the cache.
THEOREM ReadsInvariant == ServeSpec => []ReadsInv
  BY ReadsInit, ReadsNext, ServingIsDownloading, SlotInvariant, CacheInvariant, PTL DEF ServeSpec

\* Every read of a file keeps its type, whatever becomes of the job meanwhile.
THEOREM ReadsTypeCorrect == ServeSpec => []ReadsTypeOK
<1>1. ReadsInv => ReadsTypeOK
  BY DEF ReadsInv
<1> QED BY <1>1, ReadsInvariant, PTL

\* The body of every answer is the video the job was submitted for.
THEOREM ServedVideos == ServeSpec => []ServedIsTheVideo
<1>1. ReadsInv => ServedIsTheVideo
  BY DEF ReadsInv, Answered, ServedIsTheVideo, ReadAt
<1> QED BY <1>1, ReadsInvariant, PTL

\* A request for a file is refused only when the job is gone or reused an earlier file.
THEOREM RefusalsJustified == ServeSpec => []RefusedOnlyWhenGone
<1>1. ReadsInv => RefusedOnlyWhenGone
  BY DEF ReadsInv, Answered, Justified, RefusedOnlyWhenGone, Forgotten
<1> QED BY <1>1, ReadsInvariant, PTL
=============================================================================
