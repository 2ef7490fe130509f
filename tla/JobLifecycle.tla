---------------------------- MODULE JobLifecycle ----------------------------
(***************************************************************************)
(* What the download capability promises of a job, as its status page      *)
(* shows it: a job is queued (or complete at once, when the cache holds    *)
(* its video), downloads while at most MaxActive jobs do, ends complete or *)
(* in error, never changes again and is forgotten.  A restart forgets      *)
(* every job.                                                              *)
(***************************************************************************)
EXTENDS Naturals, FiniteSets

CONSTANTS JobId, MaxActive

VARIABLE status  \* the status of each job: new before it is listed, gone after

Terminal == {"complete", "error"}

Downloading == {j \in JobId : status[j] = "downloading"}

Init == status = [j \in JobId |-> "new"]

Move(j, from, to) == status[j] \in from /\ status' = [status EXCEPT ![j] = to]

\* download_create lists a job that needs a download.
Queue(j) == Move(j, {"new"}, "queued")

\* download_create lists a job whose video is in the cache.
Reuse(j) == Move(j, {"new"}, "complete")

\* The task of a queued job gets a download slot.
Start(j) == Cardinality(Downloading) < MaxActive /\ Move(j, {"queued"}, "downloading")

\* The download of a job ends, either way.
End(j) == \E outcome \in Terminal : Move(j, {"downloading"}, outcome)

\* A retention sweep forgets finished jobs.
Forget(S) ==
  /\ \A j \in S : status[j] \in Terminal
  /\ status' = [j \in JobId |-> IF j \in S THEN "gone" ELSE status[j]]

\* A restart forgets every job, and the requests that had not listed theirs yet.
Restart(S) ==
  /\ \A j \in S : status[j] = "new"
  /\ status' = [j \in JobId |-> IF j \in S THEN "new" ELSE "gone"]

Next ==
  \/ \E j \in JobId : Queue(j) \/ Reuse(j) \/ Start(j) \/ End(j)
  \/ \E S \in SUBSET JobId : Forget(S) \/ Restart(S)

Spec == Init /\ [][Next]_status
=============================================================================
