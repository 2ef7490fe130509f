---------------------------- MODULE FileServing ----------------------------
(***************************************************************************)
(* GET /downloads/jobs/{id}/file (interfaces/http/downloads.rs), running   *)
(* against everything Downloader describes.  The handler copies the job    *)
(* under the lock and then goes to the disk three times, without a lock:   *)
(* to canonicalize the path, to see that it is a file and to open it.      *)
(***************************************************************************)
EXTENDS Downloader

CONSTANT Reader  \* concurrent requests

VARIABLE reads  \* the progress of each request, then its answer

serveVars == <<vars, reads>>
----
\* A request in flight knows the job it was sent for, and the key and file of the copy.
Asking == [pc : {"idle"}]
Serving ==
  [pc : {"resolving", "checking", "opening"}, job : JobId, key : Key, file : JobId]
Refusal == {"unknown", "notReady", "missing", "forbidden"}
Refused == [pc : Refusal, job : JobId]
Served == [pc : {"ok"}, job : JobId, key : Key, body : Content]
Read == Asking \cup Serving \cup Refused \cup Served

ServeInit == Init /\ reads = [r \in Reader |-> [pc |-> "idle"]]

ReadAt(r, pc) == reads[r].pc = pc
ReadGoto(r, s) == reads' = [reads EXCEPT ![r] = s]
Refuse(r, why) == ReadGoto(r, [pc |-> why, job |-> reads[r].job])

\* Mutant: the status of the job is not looked at.
GetAnyStatus(r, j) ==
  /\ ReadAt(r, "idle")
  /\ ReadGoto(r, IF ~Present(j) THEN [pc |-> "unknown", job |-> j]
                 ELSE [pc |-> "resolving", job |-> j, key |-> jobs[j].key, file |-> jobs[j].file])
  /\ UNCHANGED vars

\* A guarded request copies its job: unknown, not ready, or to be served.  A complete job
\* without a file would be missing; no job is complete without one.
Get(r, j) ==
  /\ ReadAt(r, "idle")
  /\ \/ /\ ~Present(j)
        /\ ReadGoto(r, [pc |-> "unknown", job |-> j])
     \/ /\ Present(j)
        /\ jobs[j].status # "complete"
        /\ ReadGoto(r, [pc |-> "notReady", job |-> j])
     \/ /\ jobs[j].status = "complete"
        /\ ReadGoto(r, IF jobs[j].file = NoDir THEN [pc |-> "missing", job |-> j]
                       ELSE [pc |-> "resolving", job |-> j, key |-> jobs[j].key,
                             file |-> jobs[j].file])
  /\ UNCHANGED vars

OnDisk(r) == disk[reads[r].file].state = "file"

\* path.canonicalize()
Resolve(r) ==
  /\ ReadAt(r, "resolving")
  /\ IF OnDisk(r) THEN ReadGoto(r, [reads[r] EXCEPT !.pc = "checking"]) ELSE Refuse(r, "missing")
  /\ UNCHANGED vars

\* path.starts_with(root) && path.is_file()
Check(r) ==
  /\ ReadAt(r, "checking")
  /\ IF OnDisk(r) THEN ReadGoto(r, [reads[r] EXCEPT !.pc = "opening"]) ELSE Refuse(r, "forbidden")
  /\ UNCHANGED vars

\* File::open; an open file is streamed to its end even when it is removed meanwhile.
Open(r) ==
  /\ ReadAt(r, "opening")
  /\ IF OnDisk(r)
     THEN ReadGoto(r, [pc |-> "ok", job |-> reads[r].job, key |-> reads[r].key,
                       body |-> disk[reads[r].file]])
     ELSE Refuse(r, "missing")
  /\ UNCHANGED vars

ReadStep(r) == Resolve(r) \/ Check(r) \/ Open(r)

\* A restart cuts every connection.
RestartReads == Restart /\ reads' = [r \in Reader |-> [pc |-> "idle"]]

ServeNext ==
  \/ Work /\ UNCHANGED reads
  \/ \E r \in Reader, j \in JobId : Get(r, j)
  \/ \E r \in Reader : ReadStep(r)
  \/ RestartReads

ServeSpec == ServeInit /\ [][ServeNext]_serveVars
----
ReadsTypeOK == reads \in [Reader -> Read]

\* Whatever happens between the copy of the job and the opening of its file, the body of an
\* answer is the video the job was submitted for.
ServedIsTheVideo == \A r \in Reader : ReadAt(r, "ok") => reads[r].body = Video(reads[r].key)

\* A client that asks for a file is turned away only when the job is no longer listed, or
\* when the job reused the file of an earlier one: no sweep comes between a job that
\* fetched its file and the request.
Reused(j) == Present(j) /\ jobs[j].file \in JobId \ {j}
RefusedOnlyWhenGone ==
  \A r \in Reader : reads[r].pc \in {"missing", "forbidden"} =>
    ~Present(reads[r].job) \/ Reused(reads[r].job)
=============================================================================
