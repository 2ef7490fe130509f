------------------------------ MODULE YtdlpRun ------------------------------
(***************************************************************************)
(* One run of yt-dlp (integrations/ytdlp.rs, run): the child process and   *)
(* its two pipes, the loop that reads stdout and then waits for the child  *)
(* under a timeout, and the spawned task that drains stderr and keeps its  *)
(* tail.  A line of stdout goes to the log of the job (jobs.rs, push_log). *)
(* A line is its number in its stream; the 4 KiB of the tail are TailMax   *)
(* lines.  Line 0 of the log is the one a job starts with.                 *)
(***************************************************************************)
EXTENDS Naturals, Sequences

CONSTANTS
  MaxLines,  \* bound of the model: lines the child may write to each stream
  PipeCap,   \* lines a pipe holds before its writer blocks
  TailMax,   \* STDERR_TAIL_BYTES
  LogMax,    \* lines the log of a job keeps
  Blank,     \* lines of stdout that are blank
  Helpers    \* TRUE when yt-dlp may leave a helper process that keeps its pipes open

ASSUME MaxLinesAssumption == MaxLines \in Nat
ASSUME PipeCapAssumption == PipeCap \in Nat \ {0}
ASSUME TailMaxAssumption == TailMax \in Nat \ {0}
ASSUME LogMaxAssumption == LogMax \in Nat \ {0}
ASSUME BlankAssumption == Blank \subseteq Nat \ {0}
ASSUME HelpersAssumption == Helpers \in BOOLEAN

VARIABLES
  pc,       \* control point of run, or its result
  child,    \* the yt-dlp process
  written,  \* lines written to each stream so far
  read,     \* lines read from each stream so far
  closed,   \* streams whose reader has let go of the pipe
  spoiled,  \* streams whose reader met a line that is not UTF-8
  held,     \* streams that a helper process keeps open for writing
  tail,     \* what the drain task keeps of stderr
  log       \* the log of the job

vars == <<pc, child, written, read, closed, spoiled, held, tail, log>>
----
Stream == {"out", "err"}
Gone == {"ok", "failed", "killed"}
Child == {"none", "running"} \cup Gone
Result == {"notStarted", "timedOut", "waitFailed", "success", "exitCode"}
Control == {"start", "reading", "waiting", "draining"} \cup Result

Full(s) == written[s] - read[s] = PipeCap

\* A reader sees the end of a stream once nobody can write to it any more.
AtEnd(s) == child \in Gone /\ s \notin held /\ read[s] = written[s]

Init ==
  /\ pc = "start"
  /\ child = "none"
  /\ written = [s \in Stream |-> 0]
  /\ read = [s \in Stream |-> 0]
  /\ closed = {}
  /\ spoiled = {}
  /\ held = {}
  /\ tail = <<>>
  /\ log = <<0>>
----
(***************************************************************************)
(* The function run, and its drain task.                                   *)
(***************************************************************************)

\* Spawn the child; its stderr is read from the start.
Start ==
  /\ pc = "start"
  /\ \/ pc' = "reading" /\ child' = "running"
     \/ pc' = "notStarted" /\ child' = child
  /\ UNCHANGED <<written, read, closed, spoiled, held, tail, log>>

\* Mutant: a full log takes no more lines.
PushedWhileRoom(kept, line, max) == IF Len(kept) < max THEN Append(kept, line) ELSE kept

\* The log and the tail of stderr grow at the end, and are cut at the front.
Pushed(kept, line, max) ==
  IF Len(kept) < max THEN Append(kept, line) ELSE Append(Tail(kept), line)

\* One line of stdout goes to on_line, which leaves a blank one out.
ReadLine ==
  /\ pc = "reading"
  /\ read["out"] < written["out"]
  /\ read' = [read EXCEPT !["out"] = @ + 1]
  /\ log' = IF read'["out"] \in Blank THEN log ELSE Pushed(log, read'["out"], LogMax)
  /\ UNCHANGED <<pc, child, written, closed, spoiled, held, tail>>

\* Mutant: the loop over stdout ends with the child.
StopReadingAtExit ==
  /\ pc = "reading"
  /\ child \in Gone
  /\ spoiled' = spoiled
  /\ closed' = closed \cup {"out"}
  /\ pc' = "waiting"
  /\ UNCHANGED <<child, written, read, held, tail, log>>

\* The loop over stdout ends, at its end or at a line it cannot decode, and drops the pipe.
StopReading ==
  /\ pc = "reading"
  /\ \/ AtEnd("out") /\ spoiled' = spoiled
     \/ read["out"] < written["out"] /\ spoiled' = spoiled \cup {"out"}
  /\ closed' = closed \cup {"out"}
  /\ pc' = "waiting"
  /\ UNCHANGED <<child, written, read, held, tail, log>>

\* Mutant: the task that drains stderr is not awaited.
ReapAndReport ==
  /\ pc = "waiting"
  /\ child \in Gone
  /\ pc' = IF child = "ok" THEN "success" ELSE "exitCode"
  /\ UNCHANGED <<child, written, read, closed, spoiled, held, tail, log>>

\* child.wait() returns the status of the child.
Reap ==
  /\ pc = "waiting"
  /\ child \in Gone
  /\ pc' = "draining"
  /\ UNCHANGED <<child, written, read, closed, spoiled, held, tail, log>>

\* child.wait() fails: run returns, and dropping the child kills it (kill_on_drop).
WaitFails ==
  /\ pc = "waiting"
  /\ child' = IF child = "running" THEN "killed" ELSE child
  /\ pc' = "waitFailed"
  /\ UNCHANGED <<written, read, closed, spoiled, held, tail, log>>

\* Mutant: only the loop over stdout is under the timeout.
TimeOutReading ==
  /\ pc = "reading"
  /\ child' = IF child = "running" THEN "killed" ELSE child
  /\ closed' = closed \cup {"out"}
  /\ pc' = "timedOut"
  /\ UNCHANGED <<written, read, spoiled, held, tail, log>>

\* Mutant: the child is left alone.
TimeOutOnly ==
  /\ pc \in {"reading", "waiting"}
  /\ closed' = closed \cup {"out"}
  /\ pc' = "timedOut"
  /\ UNCHANGED <<child, written, read, spoiled, held, tail, log>>

\* The timeout elapses: kill the child, reap it and return; the drain task runs on.
TimeOut ==
  /\ pc \in {"reading", "waiting"}
  /\ child' = IF child = "running" THEN "killed" ELSE child
  /\ closed' = closed \cup {"out"}
  /\ pc' = "timedOut"
  /\ UNCHANGED <<written, read, spoiled, held, tail, log>>

\* stderr_tail.await, outside the timeout; then the status decides.
Report ==
  /\ pc = "draining"
  /\ "err" \in closed
  /\ pc' = IF child = "ok" THEN "success" ELSE "exitCode"
  /\ UNCHANGED <<child, written, read, closed, spoiled, held, tail, log>>

\* Mutant: stderr is read only once the child is gone.
DrainsLate == pc = "draining" /\ "err" \notin closed

\* The drain task lives from the spawn of the child until it lets go of stderr.
Drains == child # "none" /\ "err" \notin closed

\* Mutant: the loop of the drain task does not stop at the end of what was written.
DrainOn ==
  /\ Drains
  /\ read' = [read EXCEPT !["err"] = @ + 1]
  /\ tail' = Pushed(tail, read'["err"], TailMax)
  /\ UNCHANGED <<pc, child, written, closed, spoiled, held, log>>

\* The drain task reads a line, and cuts the tail from the front.
Drain ==
  /\ Drains
  /\ read["err"] < written["err"]
  /\ read' = [read EXCEPT !["err"] = @ + 1]
  /\ tail' = Pushed(tail, read'["err"], TailMax)
  /\ UNCHANGED <<pc, child, written, closed, spoiled, held, log>>

\* The drain task ends, at the end of stderr or at a line it cannot decode.
StopDraining ==
  /\ Drains
  /\ \/ AtEnd("err") /\ spoiled' = spoiled
     \/ read["err"] < written["err"] /\ spoiled' = spoiled \cup {"err"}
  /\ closed' = closed \cup {"err"}
  /\ UNCHANGED <<pc, child, written, read, held, tail, log>>
----
(***************************************************************************)
(* The yt-dlp process, and the helpers it may start (ffmpeg, a JavaScript  *)
(* runtime): they inherit its pipes and may outlive it.                    *)
(***************************************************************************)

\* Write a line, unless the pipe is full; writing where nobody reads is fatal.
Write(s) ==
  /\ child = "running"
  /\ written[s] < MaxLines
  /\ \/ /\ s \notin closed /\ ~Full(s)
        /\ written' = [written EXCEPT ![s] = @ + 1]
        /\ child' = child
     \/ /\ s \in closed
        /\ child' = "failed"
        /\ written' = written
  /\ UNCHANGED <<pc, read, closed, spoiled, held, tail, log>>

Exit ==
  /\ child = "running"
  /\ child' \in {"ok", "failed"}
  /\ UNCHANGED <<pc, written, read, closed, spoiled, held, tail, log>>

StartHelper ==
  /\ Helpers
  /\ child = "running"
  /\ held' \in {{"err"}, {"out", "err"}}
  /\ UNCHANGED <<pc, child, written, read, closed, spoiled, tail, log>>

HelperExits ==
  /\ held # {}
  /\ held' = {}
  /\ UNCHANGED <<pc, child, written, read, closed, spoiled, tail, log>>

Next ==
  \/ Start \/ ReadLine \/ StopReading \/ Reap \/ WaitFails \/ TimeOut \/ Report
  \/ Drain \/ StopDraining
  \/ \E s \in Stream : Write(s)
  \/ Exit \/ StartHelper \/ HelperExits

Spec == Init /\ [][Next]_vars

\* The runtime polls run and the drain task, and the timer fires; the child and its helpers
\* may hang for ever.
Fairness ==
  /\ WF_vars(Start) /\ WF_vars(ReadLine \/ StopReading) /\ WF_vars(Reap) /\ WF_vars(Report)
  /\ WF_vars(TimeOut)
  /\ WF_vars(Drain \/ StopDraining)

FairSpec == Spec /\ Fairness
----
(***************************************************************************)
(* Properties.                                                             *)
(***************************************************************************)
TypeOK ==
  /\ pc \in Control
  /\ child \in Child
  /\ written \in [Stream -> 0..MaxLines]
  /\ read \in [Stream -> 0..MaxLines]
  /\ closed \subseteq Stream
  /\ spoiled \subseteq Stream
  /\ held \subseteq Stream
  /\ tail \in Seq(1..MaxLines)
  /\ log \in Seq(0..MaxLines)

\* Once run returns, and its caller gives the download slot back, yt-dlp is not running: it
\* exited, or was killed and reaped.
ChildGoneOnReturn == pc \in Result => child # "running"

\* A status is reported only after the last line of stdout went to on_line, so that the log
\* of a job is complete when the job ends.
LinesAllSeen ==
  pc \in {"success", "exitCode"} /\ "out" \notin spoiled => read["out"] = written["out"]

\* The last lines of the first n.
Last(n) == IF n <= TailMax THEN [i \in 1..n |-> i] ELSE [i \in 1..TailMax |-> n - TailMax + i]

\* The error of a failed run ends with the last lines of stderr, however much it wrote and
\* whenever the child died.
ErrorShowsTail == pc = "exitCode" /\ "err" \notin spoiled => tail = Last(written["err"])

\* The log is what came last: in order, without a gap but the blank lines, and cut only when
\* it is full, however the run ends.
LogShowsTail ==
  LET said == (0..read["out"]) \ Blank
  IN /\ Len(log) <= LogMax
     /\ \A i, j \in DOMAIN log : i < j => log[i] < log[j]
     /\ \A i \in DOMAIN log : log[i] \in said
     /\ \A n \in said :
          (\E i \in DOMAIN log : log[i] = n) \/ (Len(log) = LogMax /\ n < log[1])

\* A chatty stderr cannot wedge a run (docs-security.md): a full pipe is read again, even
\* after run has returned.
StderrKeepsMoving == Full("err") ~> (~Full("err") \/ "err" \in closed)

\* Whatever the child does, run returns, and the slot of the job is freed.
RunEnds == <>(pc \in Result)

\* It does when no helper keeps its pipes for ever: a child that hangs is stopped.
RunEndsAlone == <>[](held = {}) => RunEnds
=============================================================================
