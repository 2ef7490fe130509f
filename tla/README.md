# YTDLP Web in TLA+

YTDLP Web is one Rust process: Axum handlers on a multi-threaded Tokio runtime, a map
of jobs in memory, a SQLite database, a directory of downloads, and `yt-dlp` as a child
process of the task of each job. This directory holds its specifications, the TLC
configurations that check them on small instances, and proofs of their main properties.

## 1. The system

| Component | State | Operations | Talks to |
| --- | --- | --- | --- |
| Download requests (`interfaces/http/downloads.rs`) | none of its own | `download_create` | sweep, cache, jobs, tasks |
| Job task and slots (`features/downloader/jobs.rs`, `app/state.rs`) | `AppState.jobs`, `AppState.download_slots` | `start_download_job`, `run_download_job`, `update_job`, `fail_job` | yt-dlp, cache, disk |
| Retention sweep (`jobs.rs`) | none of its own | `cleanup_downloads`, run by every POST | jobs, cache, disk |
| Download cache (`features/downloader/repository.rs`) | table `download_cache` behind `AppState.db` | lookup, record, list, delete | disk |
| File delivery (`downloads.rs`) | none of its own | `download_file` | jobs, disk |
| yt-dlp integration (`integrations/ytdlp.rs`) | a child, two pipes, a drain task, a timer | `download`, `run`, `find_downloaded_file` | the child, `on_line` |
| Startup (`app/server.rs`, `app/database.rs`, `app/config.rs`) | configuration | `serve`, `open`, `from_env` | everything |
| Login throttle (`security/auth.rs`) | `LoginLimiter.failures` | `is_locked`, `record_failure`, `login_throttle` | the routes |
| Sessions and guards (`security/auth.rs`) | table `auth_sessions`, the cookie secret | login, logout, `verify_session`, `access` | the routes |
| OIDC login (`security/oidc.rs`) | table `oidc_pending_flows` | `oidc_start`, `oidc_callback` | provider, sessions |
| Migrations (`persistence/migrations.rs`) | `schema_migrations` | `migrate` | the database |
| URL identity, file names (`domain.rs`) | none | pure functions | requests |
| Audit, routing, pages, component status, CLI | none | | |

What is hard about it:

- *Interleaving.* Every POST runs a sweep of the jobs and the cache of everybody. Jobs and
  rows are behind two mutexes, taken one after the other, and the disk is behind none.
- *Stale state.* A lookup, a snapshot of the rows and a copy of a job are used after
  their lock was dropped. The login throttle checks, lets go of its lock, verifies, and
  counts later; the OIDC callback takes its flow and then waits for the provider twice.
- *Several processes.* The database mutex is one of a process. The README allows several
  processes on one database, and their statements interleave one by one.
- *Resources.* A permit is given back by a destructor, on every way out of the task. The
  table of failures has a cap that live entries may exceed.
- *Partial failure.* The results of the INSERT, of two DELETEs and of `remove_dir_all` are
  ignored.
- *Crashes.* Jobs, failures and perhaps the cookie secret die with the process; rows,
  directories and files do not. A migration may be cut anywhere.
- *A child process.* Two pipes that may fill, a timeout, an exit in the middle of output,
  helpers that outlive their parent.

What makes each component correct, in a sentence:

- *Downloads.* Slots are never lost or exceeded; an unfinished job always has somebody
  working on it and a finished one never changes; a row leads to the file of its key; a
  sweep takes only what is expired and nobody uses; a request is answered with the right
  video or refused for a reason.
- *A run.* It leaves no child behind, loses no output, and returns when nobody holds its pipes.
- *Login throttle.* An address is refused for its own recent failures and nothing else, and
  has few of them in any window, however its attempts overlap.
- *Sessions.* Whoever holds a live session is let in, nobody else is, and what ended
  stays so.
- *Organization login.* A flow is taken once, in time, by the browser that started it,
  for the identity that logged in for it.
- *Startup.* Nothing is served on a partial schema, and processes that start together do
  not all give up.

`PROJECT.json` lists the hazards one by one, with the line where each bites and the
property that covers it, or a note.

## 2. Modules

| Module | What it is |
| --- | --- |
| `JobLifecycle` | abstract: what the status endpoint promises of a job |
| `Downloader` | requests, tasks, slots, sweep, cache and disk, with crashes and failing statements |
| `FileServing` | `Downloader` together with requests for files |
| `YtdlpRun` | one run of `yt-dlp`: child, pipes, reader, drain task, timer, the log of the job |
| `LoginThrottle` | attempts to log in against the table of failures |
| `SessionLife` | abstract: what a session is to its holder |
| `Sessions` | the sessions of several processes on one database |
| `OidcFlow` | organization login: pending flows, callbacks, the flow cookie, the provider |
| `SchemaLife` | abstract: what `migrate` promises of a database, as everybody who opens it sees it |
| `Configuration` | what the environment must say for the service to start |
| `Startup` | `serve` up to its first request: configuration, migrations, socket |
| `MCDownloader`, `MCFileServing`, `MCLoginThrottle`, `MCSessions`, `MCOidcFlow`, `MCStartup` | symmetry and instances for TLC |
| `Downloader_proofs` | types, slots, tasks and jobs, and the refinement of `JobLifecycle` |
| `Downloader_cache_proofs` | rows, files and sweeps; that nobody waits in a circle, and permits come back |
| `FileServing_proofs` | requests for files |
| `YtdlpRun_proofs` | the run, its tail and its log; that stderr moves and what can hold the run |
| `LoginThrottle_proofs` | the table, how long a lock holds, and the bound on failures |
| `Sessions_proofs` | who is let in, and the refinement of `SessionLife` |
| `OidcFlow_proofs` | flows, callbacks and their sessions |
| `Startup_proofs` | the refinement of `SchemaLife`, records, and who comes to serve |

How they fit together:

- `FileServing` EXTENDS `Downloader` and `Startup` EXTENDS `Configuration`: they share state.
- `YtdlpRun` stays apart: `Downloader` keeps of a run only that it may return, with a file or
  an error (`RunReturns`), and assumes of no run that it does; `YtdlpRun` says when it will.
- `Sessions` is what the one step `CreateSession` of `OidcFlow`, and a successful attempt of
  `LoginThrottle`, lead to (`BeginCreate` and `Insert`). No property needs them in one state.
- `Startup` ends where the others begin: with every table, and a configuration that
  decides whether the password, the provider or nobody guards the routes.

### Downloader

A job identifier is fresh (12 hex digits of a v4 UUID, taken as distinct), so it
indexes everything: the POST that draws it (`creates`), its job (`jobs`), its task (`tasks`)
and its directory (`disk`).

| Variable | Code |
| --- | --- |
| `jobs` | `AppState.jobs`: status, cache key, `created_at`, and the directory of `file_path` |
| `permits`, `waiters` | Tokio's semaphore, which is fair: a released permit goes to the oldest waiter |
| `cache` | `download_cache`: the directory of `file_path`, and `created_at` |
| `disk` | `download_dir/<id>`: absent, without a file that `find_downloaded_file` would return, or with the video of a key |
| `dbOwner` | who holds the database mutex across steps: only a sweep does |
| `creates`, `tasks` | the program counters of `download_create` and `run_download_job`, and their locals that are used later |
| `now` | `Utc::now()`, in units of the retention |

A step ends where another thread may run: where a mutex is dropped, at an await, and
around every system call. `cleanup_downloads` is therefore five actions (`BeginCreate`
reads the cutoff, `SweepJobs`, `SnapshotCache`, then `PurgeRow` and `RemoveDir` for each
expired row in any order, `EndSweep`), and the handler goes on with `Lookup`, `InsertJob` and
`SpawnTask`. The task is `MarkQueued`, `Acquire`, `MarkDownloading`, `CloneJob`, `CreateDir`,
`RunReturns` (with `FileWritten` for what `yt-dlp` does meanwhile), `RecordDownload`,
`CompleteJob` or `FailJob`, and `ReleasePermit` for the destructor of `_permit`. `Restart` may come
at any point, and drops jobs, handlers, tasks and permits.

With `DbFaults`, each SQLite statement may fail, as its caller sees it: no rows, a miss, an
ignored result. `remove_dir_all` may always fail, before or after the file is gone, and so
may `create_dir_all`.

Abstractions: a video is its cache key; progress, log, error text and file names are left
out; time is coarse. `Tick` does not fire between `RecordDownload` and `CompleteJob`: the two
are statements of one task without an await between them, and a tick stands for
the order of an hour. Without this, a sweep that runs a whole retention after the row
was written and before the job is marked could take its file.

### FileServing

`download_file` as `Get` (the guarded copy of the job), `Resolve` (`canonicalize`), `Check`
(`is_file`) and `Open`, each looking at the disk anew. A file that is open is streamed to its
end. The directory of downloads itself is taken to exist, and the file to be inside it.

### YtdlpRun

`Start` spawns the child and the drain task; `ReadLine`, `StopReading` and `Reap` are the future
under the timeout, `TimeOut` its other outcome (kill and reap), `WaitFails` the error of
`child.wait()`, which drops the child and so kills it; `Report` awaits the tail and decides.
`Drain` and `StopDraining` are the spawned task. `Write`, `Exit`, `StartHelper` and `HelperExits` are
external: what `yt-dlp` and the processes it starts may do. A pipe holds `PipeCap` lines and
blocks its writer; writing to a pipe nobody reads kills the writer. A line that is not
UTF-8 ends either loop (`spoiled`). Lines are numbered, and the 4 KiB of the tail are `TailMax`
lines: the budget in bytes is abstracted to whole lines.

A line of stdout goes to `on_line`, which `start_download_job` wires to `push_log`: `log` is the
log of the job, cut at the front to its last `LogMax` lines, without the lines in `Blank`.

### JobLifecycle

The status of each job as the status endpoint reports it: new, then queued (or complete
at once), downloading while at most `MaxActive` are, complete or error, gone. Sweeps forget
sets of finished jobs; a restart forgets all. `Downloader` implements it with the mapping `Seen`.

### LoginThrottle

| Variable | Code |
| --- | --- |
| `failures` | `LoginLimiter.failures`: per address, the attempts whose `Instant` is listed |
| `tries` | each request through `login_throttle`: its address, its route, the `Instant` it uses |
| `now` | `Instant::now()` |

`Arrive` reads the clock, `Check` is `is_locked` under the mutex (it drops what left the
window and answers 429), `Verify` is the inner handler and the second reading of the clock,
`Count` is `record_failure` under the mutex, with the trimming at the cap. Between any two
the other attempts go on. Only the form and the guards mark a rejection
(`credential_rejected`); GET /login looks at a credential and marks nothing. `Restart`
loses the table. `Parallel` is how many attempts the server works on at a time: the code
has no such limit, and the bound on failures is stated relative to it.

### SessionLife, Sessions

| Variable | Code |
| --- | --- |
| `secret`, `drawn` | `cookie_secret` of each process: configured and shared (0), or drawn at its start |
| `rows` | `auth_sessions`: under the digest of a token, keyed by the secret, its expiry |
| `call` | what the process does under its database mutex, between two statements |
| `history` | what became of each token, for the properties alone |

`BeginCreate` and `Insert` are `create_session_cookie`, `BeginVerify` and `Select` are
`verify_session` with the decision of `access`, `Logout` is `logout_post`. Every first statement is the
DELETE of expired rows. With `DbFaults` each statement may fail: a login is a 500, a request
counts as one without a session, a logout says nothing. `Sessions` implements `SessionLife`
(unused, live, ended), where a session is live when some process can still find it.
Cookies are taken as their tokens; a token that was drawn but not stored may be presented.

### OidcFlow

| Variable | Code |
| --- | --- |
| `starts` | GET /auth/oidc/start, one for each state drawn |
| `pending` | `oidc_pending_flows`: the expiry of the row of each flow |
| `calls` | GET /auth/oidc/callback: state, code and flow cookie of the request, then its answer |
| `jar` | the flow cookie of each browser; a new login overwrites it, every answer expires it |
| `codes` | external: the codes that the provider gave out |

A callback begins with `Arrive`, or with `ArriveIncomplete` when it brings an error of the
provider, lacks its state or code, or comes without a cookie: that one is refused, its answer
clears the cookie, and a row stays in the table. `BeginStart` and `StoreFlow` are the DELETE and the INSERT of `store_pending_flow`, `Redirect` the
answer; `Select` and `Delete` the two statements of `take_pending_flow`; `Exchange` stands for the two
requests to the provider with the check of the nonce and `permits`; `CreateSession` and `Respond`
for the end. A callback may carry any state and any code that exist, of different logins.
The provider is not relied on to honour a code once or to check the verifier. Two statements
under one mutex are two steps, so that another process may come in between; `Locked` keeps
those of one process apart. `Restart` cuts the requests of a process. The secret is configured:
with a drawn one pending flows end with their process, which `Sessions` shows for sessions.

### Configuration, SchemaLife, Startup

`Configuration` has the checks of `AuthConfig::from_env`, `validate_auth_policy` and
`OidcConfig::from_values` as predicates of an environment; a URL is the record of what they tell
apart. Of the password hash only its presence is checked, so it is unset, malformed or usable,
and a process with a malformed one serves. `Startup` runs several processes on one file: `Configure`, `Open`, `CreateVersions` (the
version table), `ReadVersion`, then for each migration `Create` (BEGIN and the tables), `Record` and
`Commit`, and `Bind`. `db` is the committed database, `draft` what the writer sees. SQLite is
modelled as the code uses it, by deferred transactions in the rollback journal: one writer; a
statement that starts a transaction waits for it, up to the busy timeout (`Busy`); a transaction
that has read does not wait to write, it fails at once (`Record`); a commit waits for readers.
`Die` is a failing call or a crash at any step, and rolls back.

`SchemaLife` sees the committed database alone: the version table appears, then each migration at
once with its record, after the earlier ones and never twice. `Startup` implements it with
`Commit` as `Migrate(v)`; a second process that finds the work done commits nothing new.

## 3. Runs

| Run | Instance | Distinct states | What it asks |
| --- | --- | --- | --- |
| `downloader_safety` | 3 jobs, 2 keys, 1 slot, TTL 1, clock to 3 | about 975,000 | slots, tasks and rows with SQLite working |
| `downloader_faults` | 3 jobs, 2 keys, 2 slots, clock to 2, statements may fail | about 835,000 | the limit on runs, no foreign video, what a sweep spares, nobody waits in a circle, the life cycle |
| `downloader_liveness` | 3 jobs, 1 key, 2 slots, clock to 2, no symmetry | about 908,000 | every POST is answered; jobs end beside runs that never return, while a slot is left |
| `downloader_retention` | 2 jobs, 1 key | until the violation | whether every offered file is within reach of a sweep: it is not |
| `file_serving` | 2 jobs, 2 keys, 1 reader, statements may fail | about 163,000 | what a reader gets |
| `ytdlp_run` | 4 lines per stream, pipes, tail and log of 2, one blank line, helpers | 10,989 | no child left, no line lost, the tail and the log, stderr moves, the run returns once no helper holds its pipes |
| `ytdlp_helper` | the same | until the violation | whether it returns whatever helpers do: it does not |
| `login_throttle` | 5 attempts, 2 addresses, limit 2, window 2, cap 1, 2 at a time, clock to 4 | 434,953 | the count of an address, refusals, how a lock ends, the size of the table |
| `sessions` | 2 processes, 2 tokens, 2 drawn secrets, lifetimes 2 and 1, clock to 3, statements may fail | 456,631 | who is let in |
| `oidc_login` | 2 processes, 2 browsers, 2 logins, 2 callbacks, 2 identities of which 1 is permitted, lifetime 1, clock to 1, statements may fail | 3,227,198 | flows and their sessions |
| `oidc_instances` | 2 processes, 1 browser, 1 login, 2 callbacks | until the violation | whether processes that share a database take a flow once: they do not |
| `startup` | 2 processes, 13 environments, 3 databases, 2 faults | 86,547 | the refinement of `SchemaLife`, the full schema, progress |

Why the bounds are enough to be interesting:

- Three jobs are one that holds the slot, one that waits and one whose POST sweeps; or two
  downloads of one key and a sweep. Two keys tell a foreign video from the right one.
- With TTL 1 something expires when the clock is two ticks further. A clock that reaches
  3 lets a row be recorded late and the sweep of an older job still find work.
- Two slots show that permits are counted; one slot shows the queue. For progress there are two,
  so that one run may hang for ever and the two other jobs still queue for the second slot.
- Four lines against pipes, a tail and a log of two fill a pipe and cut the front twice.
- Five attempts are a lock of two failures, a burst of two beyond it, and the attempt of
  the other address that trims the table, which is at its cap with one address. A clock
  of twice the window lets a lock end.
- Two processes are enough for each statement of one to fall between two of the other. Two
  secrets to draw and a configured one give every sharing of secrets, and a restart that
  changes one. With lifetimes 2 and 1 the two kinds of session expire at different times.
- Two logins and two callbacks mix up states, codes and cookies in every way, in one browser
  and in two; a third repeats what the second does. Two processes let a callback end in another
  process than the login began in, and two callbacks race across the mutex. A clock that reaches
  the lifetime of a flow lets it end before, or while, its callback runs.
- The environments of `startup` are right, or wrong in one place; the databases are new, of
  version 1, and of version 1 with one table of version 2, as the tests prepare them.

`MaxTime`, `MaxLines`, `MaxSecrets` and `MaxFaults` are bounds of the model alone. Jobs are
bounded by `JobId`: each is drawn once, and the system stops when all were used and the clock is at its end, but for
restarts, so that no state deadlocks and deadlock stays checked in the runs of `Downloader`.
A run of `yt-dlp` ends, and its configurations do not check deadlock. All others do; restarts
keep them going.

Every property of a passing run has a mutant in `PROJECT.json`: an operator next to the
one it replaces, marked `Mutant`, with which TLC finds the property violated. They are
not part of the specifications.

### What the three violations show

- `downloader_retention`. Two requests for one video that is not cached both download it.
  Each records a row under the same key, the second by `INSERT OR REPLACE`. The sweep finds
  directories through rows, so the first directory stays for ever. `docs/architecture.md`
  says that the retention policy bounds cached files.
- `ytdlp_helper`. `run` awaits the task that drains stderr after, and outside, its timeout. If
  `yt-dlp` exits while a process it started still holds stderr, the drain does not end, the
  run does not return and its slot stays taken. `docs-security.md` says that a run is killed
  after its timeout and that stderr cannot wedge the queue.
- `oidc_instances`. `take_pending_flow` reads the row and then deletes it, in two statements with
  no transaction around them. The mutex keeps the callbacks of one process apart; two
  processes on one database both read the row before either deletes it, and both go on.
  `docs-security.md` says that OIDC state is one-time, and that the secret is shared across
  instances. What does hold, is checked by `oidc_login` and is proved, is that one process takes a
  flow at most once; with one process that is all there is to ask.

## 4. Fairness

`Downloader`: weak fairness of `CreateStep(j)` and of `OwnStep(j)` for each job. A handler is
synchronous after its guards, and Tokio polls every ready task. `OwnStep` leaves out the steps of
a running task: the timeout of a run does not cover the end of its stderr, as `ytdlp_helper` shows,
so no run is obliged to return. `JobsSettle` therefore says that every job ends unless its own run
never returns, or from some time on such runs hold every slot: a hung run takes its own slot
and no other, and whatever way a run does end, those behind it get their turn. When a run returns
is what `YtdlpRun` is about (`RunEndsAlone`, `OnlyStderrHolds`). No fairness for requests, the
clock and restarts. A job lost in a restart counts as ended: it is not listed.

`YtdlpRun`: weak fairness of each part of `run` and of the drain task, and of `TimeOut`, for
the timer fires. None for the child or its helpers, which may hang.

`Startup`: weak fairness of `Step(i)`, for a process that runs goes on. None for starting it again,
and faults are no obligation: `SomebodyServes` speaks of what happens without one.

`FileServing`, `LoginThrottle`, `Sessions`, `OidcFlow` and the safety runs use no fairness.

## 5. Proofs

All proofs are for every value of the constants that the named assumptions of the modules
allow: finitely many jobs, addresses and attempts, any number of processes, tokens, logins
and callbacks, any positive limit, window and number of slots, any lifetime.

- `Downloader_proofs`. `SlotInv` is inductive: types, `HandlerBeforeTask` (a task exists only
  after its handler is done), `LiveTaskHasJob`, `ActiveJobHasTask`, `SlotsAccounted`,
  `WaitersAreWaiting`. The count alone is not inductive: that a hand-over finds a task
  that waits, once, needs the queue; that a sweep takes no live job needs the status of
  a job at each control point of its task. `AtMostMaxActive` follows by cardinality, and
  the refinement of `JobLifecycle` action by action: the guard of the abstract `Start`,
  fewer than `MaxActive` downloading, is the accounting of permits once more.
- `Downloader_cache_proofs`. `CacheInv`, over `SlotInv`: clocks are in the past; the snapshot of
  a sweep stays part of the table, because the mutex is held (`SnapshotFresh`); what a
  directory holds at each control point of its task; rows, complete jobs and hits lead
  to settled directories of their key; once a sweep is past the jobs, no row that it may
  expire belongs to a listed job (`ExpiredRowsUnlisted`, the reason why jobs are swept
  before rows); rows lead to different directories. `RowsBacked`, `OwnFileKept`,
  `NoForeignVideo` and the two action properties follow.
- `FileServing_proofs`. Leaving the requests out, `FileServing` is `Downloader`, so both invariants
  hold; `ReadsInv` adds that a request in flight leads to the video it was sent for or to
  nothing, and that its job is still as it was or forgotten for good.
- `YtdlpRun_proofs`. `RunInv` ties the control point, the child, what was read of each stream and
  the tail together. `LogInv` adds the log; both rest on one lemma about a list that grows at
  the end and is cut at the front.
- `LoginThrottle_proofs`. `TableInv`: only failures are listed, each under its address, no reading
  is of the future, no live failure is missing. The readings matter: the table is pruned with
  a reading older than others already recorded, and what is out of the window then stays out.
  `LocksHold` rests on the same: an address that has `Limit` failures in the window keeps them,
  as neither pruning nor trimming takes one of them, so that only the clock unlocks it.
  The bound on failures is not inductive by itself: `BurstInv` bounds the failures in the window
  together with the attempts that were let through and may still fail (`Charged`).
- `Sessions_proofs`. `SessionInv`: a row is that of an open session, with its secret and expiry, and
  an open session that has not expired has its row; an INSERT is of a token no other call
  inserts; secrets in use were drawn, so that a restart draws one that no row was stored
  with. The refinement of `SessionLife` follows action by action, `Tick` and `Restart` as the end of
  many sessions at once.
- `OidcFlow_proofs`. `FlowInv`: a row expires when its start says; a cookie is that of a login which
  was sent to this browser; a flow whose row is gone is late or was taken (`GoneInv`, the
  reason why a refusal has a cause); a callback that found its row had the right cookie in
  time. `ProcessesTakeOnce` adds `OnceInv`: a row that a callback is about to delete, or has taken,
  no other callback of its process finds, for the mutex is held from the SELECT to the DELETE.
  `OneProcessTakesOnce` is what it says of a single process: no flow is taken twice at all.
- `Startup_proofs`. `StartInv`: versions recorded in the database have their tables, and so have those
  in the draft of the writer, which extends the database (`WriterInv`: nobody else commits
  meanwhile); what a process knows of the database at each of its steps (`ProgressInv`).
  `MigrationsAtomic` maps each step to one of `SchemaLife`. For it the draft of a writer must be the
  database with the tables of its one migration, and with its record once that is written
  (`DraftInv`). A process that read an old `MAX(version)` repeats a migration that is recorded
  by then, and commits what is already there: a stutter of `SchemaLife`.

### Progress

ENABLED is out of the prover's reach, and so is an induction over a temporal property. What
can be proved is what follows from a fairness that is spelled out with its guard, in the form
"infinitely often the guard is false, or infinitely often the step is taken". Each such guard
(`TaskReady`, `DrainReady`, `StepReady` and those in `TimedFairness`) was compared with ENABLED of its step on
small instances, as was the fact that the weak fairness of section 4 implies the
spelled one. The steps themselves are proved as for safety, and the temporal part is
propositional.

- `NoCircularWait`. A task waits for a permit, for the database mutex or for its run, a handler
  for the mutex. A permit is held by a task that waits for its run or the mutex, and the mutex
  by a sweep that waits for nothing: whoever is at work, somebody can go on, or `yt-dlp` runs. It
  needs `SlotsAccounted` (a queue means that every permit is taken) and `SnapshotFresh` (who has
  the mutex is in a sweep).
- `PermitsComeBack`. From the fairness of one task's own steps alone, whatever handlers, other
  tasks, the clock and restarts do: a task that holds a permit gives it back, or its run never
  returns, or it finds the mutex taken again and again. Nothing is assumed of the run, and
  `ytdlp_helper` shows that the second case is real. So is the third for a weakly fair task and
  a mutex that is not: the code's `std::sync::Mutex` promises nobody a turn.
- `StderrDrained`. From the fairness of the drain task alone, `StderrKeepsMoving`.
- `OnlyStderrHolds`. From the fairness of the start, of the timer and of the report, a run ends if
  the drain task some day lets go of stderr (`Drained`). `ytdlp_helper` shows that without
  this it may not.
- `MigratedStarts`. On a schema that is up to date, a started process comes to serve, from its own
  fairness and whatever the other processes do: all its statements then only read. It uses the
  refinement: what `SchemaLife` allows keeps the records in their table and the schema finished.
- `LoneProcessServes`. `SomebodyServes` for one process, from every database it may meet.

Only model-checked: `JobsSettle` (an induction over the places in the queue), `CreatesAnswered` (over
the rows that a sweep has left), `RunEndsAlone` (that the drain task ends counts the lines that are
still in the pipe) and `SomebodyServes` of several processes (whoever gets through is not known
beforehand, and a leads-to for each process does not give the prover one for some process). Proved and not
asked of a run: `ActiveBounded`, as `SlotsAccounted` says more; `RecordsAreTrue` and
`LiveFailuresListed`, as `MigratesAtomically` and `LocksHold` do. No operator here is recursive.

## 6. Not modelled

- The text a job carries: progress, error, file names; headers, HTML. Of the log, its length
  and order are modelled, and no wording.
- URL identity and file names (`domain.rs`): pure functions of one string. Which video a URL
  names is for `yt-dlp` to say, so a statement about keys would be one about `yt-dlp`.
- Failed and interrupted downloads leave their directory behind, and `Downloader` keeps it;
  no property says it should go, as no document does.
- Child processes that survive a crash of the service: `kill_on_drop` does not run then.
- A second process on the database of `Downloader`: `docs/architecture.md` speaks of one, and
  `OnlyExpiredRowsGo` rests on its mutex. With two, a sweep of one could delete the row
  that the other wrote, under the same key, after the snapshot was taken.
- Bytes and characters within a line of the tail: its budget is one of whole lines.
- That a malformed password hash lets nobody in: a login verifies or it does not. And the Secure
  attribute of cookies, which is read from the same environment.
- A `created_at` in the table that does not parse: the program writes none.
- Poisoned mutexes: no code panics while it holds one.
- A retention or a lifetime so large that `chrono` overflows: times are natural numbers.
- The Max-Age of cookies: a browser may present one for ever, and the service must not care.
- Discovery, the choice of the method at the token endpoint and the verification of
  signatures: the provider answers for a code and a nonce, refuses, or fails.
- The audit of public sources, routing, pages, component status and the command line keep
  no state that another step reads.

## 7. Plan

Done: every component with state, the invariants and action properties of every run as theorems,
and what can be said of progress without an induction. What is left:

1. A handler that holds the database mutex gives it back, for a table of one row, and with it
   `PermitsComeBack` without its third case where handlers are finitely many.
2. `Downloader` with `YtdlpRun` as the run of each task, so that `JobsSettle` could name the
   helper that holds a run in place of the run that never returns. One run alone has some ten thousand states; it needs a run
   reduced to its control points, shown to be implemented by `YtdlpRun`.
3. `OidcFlow` over `Sessions`, with drawn secrets for the pending flows.
