---------------------------- MODULE LoginThrottle ----------------------------
(***************************************************************************)
(* The login throttle (security/auth.rs, LoginLimiter and login_throttle): *)
(* attempts of many addresses, each checked against the failures of its    *)
(* address, then verified, then counted when it failed.  The mutex of the  *)
(* table is taken twice, and the clock is read before each time.           *)
(***************************************************************************)
EXTENDS Integers, FiniteSets

CONSTANTS
  Address,     \* client addresses
  Attempt,     \* requests that carry a password or a Basic credential; each is made once
  Limit,       \* LOGIN_FAILURE_LIMIT
  Window,      \* LOGIN_FAILURE_WINDOW
  MaxEntries,  \* LOGIN_LIMITER_MAX_ENTRIES
  Parallel,    \* attempts that the server works on at a time
  MaxTime      \* bound of the model: the last reading of the clock

ASSUME AddressAssumption == IsFiniteSet(Address)
ASSUME AttemptAssumption == IsFiniteSet(Attempt)
ASSUME LimitAssumption == Limit \in Nat \ {0}
ASSUME ThrottleClockAssumption == Window \in Nat \ {0} /\ MaxTime \in Nat
ASSUME MaxEntriesAssumption == MaxEntries \in Nat
ASSUME ParallelAssumption == Parallel \in Nat

VARIABLES
  failures,  \* the table: the failures listed under each address, none for an absent one
  tries,     \* each attempt: its progress and the reading of the clock it uses, then its answer
  now        \* Instant::now()

throttleVars == <<failures, tries, now>>
----
Time == 0..MaxTime

\* Where the credential is looked at.  The form and the guards mark a rejection for the
\* throttle; GET /login looks whether somebody is logged in, and marks nothing.
Route == {"form", "guarded", "loginPage"}
Marking == {"form", "guarded"}

Unsent == [pc : {"unsent"}]
Checking == [pc : {"checking"}, ip : Address, route : Route, seen : Time]
Verifying == [pc : {"verifying"}, ip : Address, route : Route]
Counting == [pc : {"counting", "refused", "failed"}, ip : Address, seen : Time]
Answered == [pc : {"answered"}]

TryAt(a, pc) == tries[a].pc = pc
TryGoto(a, t) == tries' = [tries EXCEPT ![a] = t]
InFlight == {a \in Attempt : tries[a].pc \in {"checking", "verifying", "counting"}}

\* duration_since is zero for a failure that is younger than the reading.
Live(a, reading) == reading - tries[a].seen < Window
LiveOf(ip, reading) == {b \in failures[ip] : Live(b, reading)}
Listed == {ip \in Address : failures[ip] # {}}

Init ==
  /\ failures = [ip \in Address |-> {}]
  /\ tries = [a \in Attempt |-> [pc |-> "unsent"]]
  /\ now = 0
----
\* A request with a credential: the clock is read before the table is locked.
Arrive(a, ip, route) ==
  /\ TryAt(a, "unsent")
  /\ Cardinality(InFlight) < Parallel
  /\ TryGoto(a, [pc |-> "checking", ip |-> ip, route |-> route, seen |-> now])
  /\ UNCHANGED <<failures, now>>

\* Mutant: the limit itself is let through.
CheckOffByOne(a) ==
  /\ TryAt(a, "checking")
  /\ LET t == tries[a]
         live == LiveOf(t.ip, t.seen)
     IN /\ failures' = [failures EXCEPT ![t.ip] = live]
        /\ TryGoto(a, IF Cardinality(live) > Limit
                      THEN [pc |-> "refused", ip |-> t.ip, seen |-> t.seen]
                      ELSE [pc |-> "verifying", ip |-> t.ip, route |-> t.route])
  /\ UNCHANGED now

\* Mutant: failures that left the window still count.
CheckUnpruned(a) ==
  /\ TryAt(a, "checking")
  /\ LET t == tries[a]
     IN TryGoto(a, IF Cardinality(failures[t.ip]) >= Limit
                   THEN [pc |-> "refused", ip |-> t.ip, seen |-> t.seen]
                   ELSE [pc |-> "verifying", ip |-> t.ip, route |-> t.route])
  /\ UNCHANGED <<failures, now>>

\* is_locked: forget what left the window; refuse the attempt when enough is left.
Check(a) ==
  /\ TryAt(a, "checking")
  /\ LET t == tries[a]
         live == LiveOf(t.ip, t.seen)
     IN /\ failures' = [failures EXCEPT ![t.ip] = live]
        /\ TryGoto(a, IF Cardinality(live) >= Limit
                      THEN [pc |-> "refused", ip |-> t.ip, seen |-> t.seen]
                      ELSE [pc |-> "verifying", ip |-> t.ip, route |-> t.route])
  /\ UNCHANGED now

\* Mutant: the failure goes to the table without a time.
VerifyUntimed(a) ==
  /\ TryAt(a, "verifying")
  /\ TryGoto(a, [pc |-> "counting", ip |-> tries[a].ip])
  /\ UNCHANGED <<failures, now>>

\* next.run: the credential is right, or wrong where nobody counts; or wrong and marked, and
\* the clock is read again.
Verify(a) ==
  /\ TryAt(a, "verifying")
  /\ \/ TryGoto(a, [pc |-> "answered"])
     \/ /\ tries[a].route \in Marking
        /\ TryGoto(a, [pc |-> "counting", ip |-> tries[a].ip, seen |-> now])
  /\ UNCHANGED <<failures, now>>

\* Mutant: an address goes as soon as one of its failures left the window.
TrimmedByOldest(reading) ==
  [ip \in Address |-> IF Cardinality(Listed) >= MaxEntries /\ LiveOf(ip, reading) # failures[ip]
                      THEN {} ELSE failures[ip]]

\* Mutant: the table is never trimmed.
Untrimmed(reading) == failures

\* At the cap, addresses with no failure in the window are dropped.
Trimmed(reading) ==
  [ip \in Address |-> IF Cardinality(Listed) >= MaxEntries /\ LiveOf(ip, reading) = {}
                      THEN {} ELSE failures[ip]]

\* record_failure.
Count(a) ==
  /\ TryAt(a, "counting")
  /\ LET t == tries[a]
     IN failures' = [Trimmed(t.seen) EXCEPT ![t.ip] = {b \in @ : Live(b, t.seen)} \cup {a}]
  /\ TryGoto(a, [tries[a] EXCEPT !.pc = "failed"])
  /\ UNCHANGED now

Tick ==
  /\ now < MaxTime
  /\ now' = now + 1
  /\ UNCHANGED <<failures, tries>>

\* The table dies with the process, and every connection with it.
Restart ==
  /\ failures' = [ip \in Address |-> {}]
  /\ tries' = [a \in Attempt |-> IF TryAt(a, "unsent") THEN tries[a] ELSE [pc |-> "answered"]]
  /\ UNCHANGED now

Next ==
  \/ \E a \in Attempt, ip \in Address, route \in Route : Arrive(a, ip, route)
  \/ \E a \in Attempt : Check(a) \/ Verify(a) \/ Count(a)
  \/ Tick \/ Restart

Spec == Init /\ [][Next]_throttleVars
----
(***************************************************************************)
(* Properties.  A failure is an attempt whose answer is "failed": the      *)
(* history the table is held against.                                      *)
(***************************************************************************)
TypeOK ==
  /\ failures \in [Address -> SUBSET Attempt]
  /\ tries \in [Attempt -> Unsent \cup Checking \cup Verifying \cup Counting \cup Answered]
  /\ now \in Time

FailuresOf(ip, reading) ==
  {a \in Attempt : TryAt(a, "failed") /\ tries[a].ip = ip /\ Live(a, reading)}

\* Whatever is pruned, by a check of the address, by its next failure or by the trimming of
\* the table, and however old the reading it is pruned with: a failure of the last Window is
\* in the table.
NoLiveFailureLost == \A ip \in Address : FailuresOf(ip, now) \subseteq failures[ip]

\* A lock holds: while Limit failures of an address are in the window, none of its attempts
\* is let through to the credential, whatever was pruned and trimmed before.
LocksHold ==
  [][\A a \in Attempt : TryAt(a, "checking") /\ TryAt(a, "verifying")' =>
       Cardinality(FailuresOf(tries[a].ip, now)) < Limit]_throttleVars

\* Attempts that were let through together may all fail.  However they interleave, an
\* address has no more failures in a window than Limit - 1 and the attempts of one burst.
FailuresBounded ==
  \A ip \in Address : Cardinality(FailuresOf(ip, now)) <= Limit - 1 + Parallel

\* An attempt is refused only for Limit failures of its own address in the window before it:
\* refused and successful attempts, and those of others, do not prolong a lock.
RefusedForCause ==
  \A a \in Attempt : TryAt(a, "refused") =>
    Cardinality(FailuresOf(tries[a].ip, tries[a].seen)) >= Limit

\* The table outgrows its cap only with addresses that failed in the window of the attempt
\* that makes it grow: those that gave up do not add up.
GrowsPastCapByLiveOnly ==
  [][\A a \in Attempt :
       ~TryAt(a, "failed") /\ TryAt(a, "failed")' /\ Cardinality(Listed') > MaxEntries =>
         \A ip \in Listed' : FailuresOf(ip, tries[a].seen)' # {}]_throttleVars
=============================================================================
