------------------------- MODULE LoginThrottle_proofs -------------------------
(***************************************************************************)
(* Proofs about the login throttle, for any limit, window and number of    *)
(* attempts at a time.                                                     *)
(***************************************************************************)
EXTENDS LoginThrottle, FiniteSetTheorems, TLAPS

USE AddressAssumption, AttemptAssumption, LimitAssumption, ThrottleClockAssumption,
    MaxEntriesAssumption, ParallelAssumption

\* Only failures are listed, each under its address, and nothing was seen in the future.
ListedFailed ==
  \A ip \in Address : \A b \in failures[ip] : TryAt(b, "failed") /\ tries[b].ip = ip
SeenBefore ==
  \A a \in Attempt :
    tries[a].pc \in {"checking", "counting", "refused", "failed"} => tries[a].seen <= now
TableInv == TypeOK /\ ListedFailed /\ SeenBefore /\ NoLiveFailureLost

\* What is in the window now was in it at every earlier reading.
LEMMA LiveBefore ==
  ASSUME NEW b \in Attempt, tries[b].seen \in Time, NEW r \in Time, NEW s \in Time,
         r <= s, Live(b, s)
  PROVE  Live(b, r)
  BY DEF Live, Time

\* What the types say of an attempt at each point of its way.
LEMMA TryTypes ==
  ASSUME TypeOK, NEW a \in Attempt
  PROVE  /\ TryAt(a, "checking") => tries[a] \in Checking
         /\ TryAt(a, "verifying") => tries[a] \in Verifying
         /\ tries[a].pc \in {"counting", "refused", "failed"} => tries[a] \in Counting
  BY DEF TypeOK, TryAt, Unsent, Checking, Verifying, Counting, Answered

LEMMA TableInit == Init => TableInv
  BY DEF Init, TableInv, TypeOK, ListedFailed, SeenBefore, NoLiveFailureLost, FailuresOf, TryAt,
         Time, Unsent

\* An attempt moves to another point but "failed"; the table loses at most what left the
\* window by a reading that is past.
LEMMA TableKept ==
  ASSUME TableInv, NEW a \in Attempt, NEW t, TryGoto(a, t), now' = now,
         t \in Checking \cup Verifying \cup Counting \cup Answered, t.pc # "failed",
         ~TryAt(a, "failed"),
         t.pc \in {"checking", "counting", "refused"} => t.seen <= now,
         NEW r \in Time, r <= now,
         failures' \in [Address -> SUBSET Attempt],
         \A ip \in Address : LiveOf(ip, r) \subseteq failures'[ip]
                             /\ failures'[ip] \subseteq failures[ip]
  PROVE  TableInv'
<1> USE DEF TableInv
<1>1. tries'[a] = t /\ \A b \in Attempt : b # a => tries'[b] = tries[b]
  BY DEF TryGoto, TypeOK
<1>2. TypeOK'
  BY DEF TypeOK, TryGoto
<1>3. ListedFailed'
  BY <1>1 DEF ListedFailed, TryAt, TypeOK
<1>4. SeenBefore'
  BY <1>1 DEF SeenBefore
<1>5. NoLiveFailureLost'
  <2> SUFFICES ASSUME NEW ip \in Address, NEW b \in FailuresOf(ip, now)' PROVE b \in failures'[ip]
    BY DEF NoLiveFailureLost
  <2>1. b \in Attempt /\ b # a /\ TryAt(b, "failed") /\ tries[b].ip = ip /\ Live(b, now)
    BY <1>1 DEF FailuresOf, TryAt, Live
  <2>2. tries[b] \in Counting /\ now \in Time
    BY <2>1, TryTypes DEF TryAt, TypeOK
  <2>3. Live(b, r)
    BY <2>1, <2>2, LiveBefore DEF Counting
  <2>4. b \in failures[ip]
    BY <2>1 DEF NoLiveFailureLost, FailuresOf
  <2> QED BY <2>3, <2>4 DEF LiveOf
<1> QED BY <1>2, <1>3, <1>4, <1>5

\* A failure joins the table, which is trimmed by what left the window at its reading.
LEMMA TableCounted ==
  ASSUME TableInv, NEW a \in Attempt, Count(a)
  PROVE  TableInv'
<1> USE DEF TableInv
<1>1. PICK t \in Counting : t = tries[a] /\ t.pc = "counting"
  BY TryTypes DEF Count, TryAt
<1>2. t.seen <= now /\ t.seen \in Time /\ now \in Time /\ t.ip \in Address
  BY <1>1 DEF SeenBefore, TypeOK, Counting
<1>3. /\ tries'[a] = [t EXCEPT !.pc = "failed"] /\ tries'[a] \in Counting
      /\ tries'[a].pc = "failed" /\ tries'[a].ip = t.ip /\ tries'[a].seen = t.seen
      /\ \A b \in Attempt : b # a => tries'[b] = tries[b]
  BY <1>1 DEF Count, TryGoto, TypeOK, Counting
<1>4. \A ip \in Address :
        /\ ip # t.ip => failures'[ip] = Trimmed(t.seen)[ip]
        /\ ip = t.ip => failures'[ip] = {b \in Trimmed(t.seen)[ip] : Live(b, t.seen)} \cup {a}
  BY <1>1 DEF Count, Trimmed
<1>5. \A ip \in Address : /\ LiveOf(ip, t.seen) \subseteq Trimmed(t.seen)[ip]
                          /\ Trimmed(t.seen)[ip] \subseteq failures[ip]
  BY DEF Trimmed, LiveOf
<1>6. TypeOK'
  <2>1. failures' \in [Address -> SUBSET Attempt]
    <3>1. Trimmed(t.seen) \in [Address -> SUBSET Attempt]
      BY DEF Trimmed, TypeOK
    <3> QED BY <1>1, <3>1 DEF Count
  <2>2. tries' \in [Attempt -> Unsent \cup Checking \cup Verifying \cup Counting \cup Answered]
    BY <1>1, <1>3 DEF Count, TryGoto, TypeOK
  <2> QED BY <2>1, <2>2 DEF Count, TypeOK
<1>7. ListedFailed'
  <2> SUFFICES ASSUME NEW ip \in Address, NEW b \in failures'[ip]
               PROVE  (TryAt(b, "failed") /\ tries[b].ip = ip)'
    BY DEF ListedFailed
  <2>1. CASE b = a
    <3>1. a \notin failures[ip]
      BY <1>1 DEF ListedFailed, TryAt
    <3>2. ip = t.ip
      BY <1>4, <1>5, <2>1, <3>1
    <3> QED BY <1>3, <2>1, <3>2 DEF TryAt
  <2>2. CASE b # a
    <3>1. b \in failures[ip]
      BY <1>4, <1>5, <2>2
    <3> QED BY <1>3, <2>2, <3>1 DEF ListedFailed, TryAt, TypeOK
  <2> QED BY <2>1, <2>2
<1>8. SeenBefore'
  BY <1>2, <1>3 DEF SeenBefore, Count
<1>9. NoLiveFailureLost'
  <2> SUFFICES ASSUME NEW ip \in Address, NEW b \in FailuresOf(ip, now)' PROVE b \in failures'[ip]
    BY DEF NoLiveFailureLost
  <2>1. b \in Attempt /\ tries'[b].pc = "failed" /\ tries'[b].ip = ip /\ now' = now
    BY DEF FailuresOf, TryAt, Count
  <2>2. CASE b = a
    BY <1>3, <1>4, <2>1, <2>2
  <2>3. CASE b # a
    <3>1. TryAt(b, "failed") /\ tries[b].ip = ip /\ Live(b, now)
      BY <1>3, <2>1, <2>3 DEF FailuresOf, TryAt, Live
    <3>2. tries[b] \in Counting
      BY <2>1, <3>1, TryTypes DEF TryAt
    <3>3. Live(b, t.seen)
      BY <1>2, <2>1, <3>1, <3>2, LiveBefore DEF Counting
    <3>4. b \in failures[ip]
      BY <2>1, <3>1 DEF NoLiveFailureLost, FailuresOf
    <3> QED BY <1>4, <1>5, <3>3, <3>4 DEF LiveOf
  <2> QED BY <2>2, <2>3
<1> QED BY <1>6, <1>7, <1>8, <1>9

LEMMA TableNext ==
  ASSUME TableInv, [Next]_throttleVars
  PROVE  TableInv'
<1> USE DEF TableInv
<1>0. now \in Time /\ failures \in [Address -> SUBSET Attempt]
  BY DEF TypeOK
<1>1. CASE UNCHANGED throttleVars
  BY <1>1 DEF throttleVars, TypeOK, ListedFailed, SeenBefore, NoLiveFailureLost, FailuresOf, TryAt,
              Live
<1>2. ASSUME NEW a \in Attempt, NEW ip \in Address, NEW route \in Route, Arrive(a, ip, route)
      PROVE  TableInv'
  <2>1. PICK t \in Checking : TryGoto(a, t) /\ t.pc = "checking" /\ t.seen = now
    BY <1>0, <1>2 DEF Arrive, Checking
  <2>2. \A i \in Address : LiveOf(i, now) \subseteq failures'[i] /\ failures'[i] \subseteq failures[i]
    BY <1>2 DEF Arrive, LiveOf
  <2> QED BY <1>0, <1>2, <2>1, <2>2, TableKept DEF Arrive, TryAt, Time
<1>3. ASSUME NEW a \in Attempt, Check(a) PROVE TableInv'
  <2>1. PICK t \in Checking : t = tries[a]
    BY <1>3, TryTypes DEF Check
  <2>2. t.seen \in Time /\ t.seen <= now /\ t.ip \in Address
    BY <1>3, <2>1 DEF SeenBefore, Check, TryAt, Checking
  <2>3. PICK u \in Verifying \cup Counting :
          TryGoto(a, u) /\ u.pc \in {"verifying", "refused"} /\ (u.pc = "refused" => u.seen = t.seen)
    BY <1>3, <2>1, <2>2 DEF Check, Checking, Verifying, Counting
  <2>4. failures' = [failures EXCEPT ![t.ip] = LiveOf(t.ip, t.seen)]
    BY <1>3, <2>1 DEF Check
  <2>5. /\ failures' \in [Address -> SUBSET Attempt]
        /\ \A i \in Address : LiveOf(i, t.seen) \subseteq failures'[i] /\ failures'[i] \subseteq failures[i]
    BY <1>0, <2>2, <2>4 DEF LiveOf
  <2> QED BY <1>3, <2>2, <2>3, <2>5, TableKept DEF Check, TryAt
<1>4. ASSUME NEW a \in Attempt, Verify(a) PROVE TableInv'
  <2>1. PICK t \in Verifying : t = tries[a]
    BY <1>4, TryTypes DEF Verify
  <2>2. PICK u \in Counting \cup Answered :
          TryGoto(a, u) /\ u.pc \in {"counting", "answered"} /\ (u.pc = "counting" => u.seen = now)
    BY <1>0, <1>4, <2>1 DEF Verify, Verifying, Counting, Answered
  <2>3. \A i \in Address : LiveOf(i, now) \subseteq failures'[i] /\ failures'[i] \subseteq failures[i]
    BY <1>4 DEF Verify, LiveOf
  <2> QED BY <1>0, <1>4, <2>2, <2>3, TableKept DEF Verify, TryAt, Time
<1>5. ASSUME NEW a \in Attempt, Count(a) PROVE TableInv'
  BY <1>5, TableCounted
<1>6. CASE Tick
  <2>0. now' = now + 1 /\ now + 1 \in Time /\ failures' = failures /\ tries' = tries
    BY <1>0, <1>6 DEF Tick, Time
  <2>1. TypeOK' /\ ListedFailed'
    BY <2>0 DEF TypeOK, ListedFailed, TryAt
  <2>2. SeenBefore'
    <3> SUFFICES ASSUME NEW a \in Attempt, tries[a].pc \in {"checking", "counting", "refused", "failed"}
                 PROVE  tries[a].seen <= now + 1
      BY <2>0 DEF SeenBefore
    <3>1. tries[a].seen <= now /\ tries[a].seen \in Time
      BY TryTypes DEF SeenBefore, TryAt, Checking, Counting
    <3> QED BY <1>0, <3>1 DEF Time
  <2>3. ASSUME NEW ip \in Address, NEW b \in FailuresOf(ip, now)' PROVE b \in failures'[ip]
    <3>1. b \in Attempt /\ TryAt(b, "failed") /\ tries[b].ip = ip /\ Live(b, now + 1)
      BY <2>0, <2>3 DEF FailuresOf, TryAt, Live
    <3>2. tries[b] \in Counting
      BY <3>1, TryTypes DEF TryAt
    <3>3. Live(b, now)
      BY <1>0, <2>0, <3>1, <3>2, LiveBefore DEF Counting, Time
    <3> QED BY <2>0, <3>1, <3>3 DEF NoLiveFailureLost, FailuresOf
  <2> QED BY <2>1, <2>2, <2>3 DEF NoLiveFailureLost
<1>7. CASE Restart
  BY <1>7 DEF Restart, TypeOK, ListedFailed, SeenBefore, NoLiveFailureLost, FailuresOf, TryAt,
              Answered
<1> QED BY <1>1, <1>2, <1>3, <1>4, <1>5, <1>6, <1>7 DEF Next

LEMMA TableInvariant == Spec => []TableInv
  BY TableInit, TableNext, PTL DEF Spec

\* The table and the attempts keep their types.
THEOREM ThrottleTypeCorrect == Spec => []TypeOK
<1>1. TableInv => TypeOK
  BY DEF TableInv
<1> QED BY <1>1, TableInvariant, PTL

\* No pruning, by however old a reading, loses a failure that still counts.
THEOREM LiveFailuresListed == Spec => []NoLiveFailureLost
<1>1. TableInv => NoLiveFailureLost
  BY DEF TableInv
<1> QED BY <1>1, TableInvariant, PTL
----
\* What a failure or a refusal is, it stays, but for a restart.
LEMMA AnswersStay ==
  ASSUME TableInv, [Next]_throttleVars, ~Restart, NEW b \in Attempt,
         tries[b].pc \in {"failed", "refused"}
  PROVE  tries'[b] = tries[b]
  BY DEF TableInv, TypeOK, Next, throttleVars, Arrive, Check, Verify, Count, Tick, TryAt, TryGoto

LEMMA FailuresStay ==
  ASSUME TableInv, [Next]_throttleVars, ~Restart, NEW ip, NEW r
  PROVE  FailuresOf(ip, r) \subseteq FailuresOf(ip, r)'
  BY AnswersStay DEF FailuresOf, TryAt, Live

LEMMA FailuresFinite ==
  ASSUME NEW ip, NEW r
  PROVE  IsFiniteSet(FailuresOf(ip, r)) /\ Cardinality(FailuresOf(ip, r)) \in Nat
  BY FS_Subset, FS_CardinalityType DEF FailuresOf

LEMMA FailuresFiniteNext ==
  ASSUME NEW ip, NEW r
  PROVE  IsFiniteSet(FailuresOf(ip, r)') /\ Cardinality(FailuresOf(ip, r)') \in Nat
  BY FS_Subset, FS_CardinalityType DEF FailuresOf

\* A refusal is a check's.
LEMMA RefusedByCheck ==
  ASSUME TableInv, [Next]_throttleVars, NEW a \in Attempt, ~TryAt(a, "refused"), TryAt(a, "refused")'
  PROVE  Check(a)
<1> USE DEF TableInv, TypeOK
<1>1. tries' # tries /\ ~Restart /\ ~Tick
  BY DEF TryAt, Restart, Tick
<1>2. PICK b \in Attempt : (\E ip \in Address, route \in Route : Arrive(b, ip, route))
                           \/ Check(b) \/ Verify(b) \/ Count(b)
  BY <1>1 DEF Next, throttleVars
<1>3. b = a
  BY <1>2 DEF TryAt, TryGoto, Arrive, Check, Verify, Count
<1>4. ~(\E ip \in Address, route \in Route : Arrive(a, ip, route)) /\ ~Verify(a)
  BY DEF TryAt, TryGoto, Arrive, Verify
<1>5. ~Count(a)
  <2>1. Count(a) => tries'[a] = [tries[a] EXCEPT !.pc = "failed"]
    BY DEF Count, TryGoto
  <2>2. Count(a) => tries[a] \in Counting
    BY TryTypes DEF Count, TryAt
  <2> QED BY <2>1, <2>2 DEF Counting, TryAt
<1> QED BY <1>2, <1>3, <1>4, <1>5

LEMMA CauseNext ==
  ASSUME TableInv, RefusedForCause, [Next]_throttleVars
  PROVE  RefusedForCause'
<1> SUFFICES ASSUME NEW a \in Attempt, TryAt(a, "refused")'
             PROVE  Cardinality(FailuresOf(tries[a].ip, tries[a].seen)') >= Limit
  BY DEF RefusedForCause
<1>1. ~Restart
  BY DEF Restart, TryAt
<1>2. CASE TryAt(a, "refused")
  <2>1. tries'[a] = tries[a] /\ tries[a] \in Counting
    BY <1>1, <1>2, AnswersStay, TryTypes DEF TryAt, TableInv
  <2>2. PICK ip \in Address, r \in Time : ip = tries[a].ip /\ r = tries[a].seen
    BY <2>1 DEF Counting
  <2>3. /\ FailuresOf(tries[a].ip, tries[a].seen) = FailuresOf(ip, r)
        /\ FailuresOf(tries[a].ip, tries[a].seen)' = FailuresOf(ip, r)'
    BY <2>1, <2>2 DEF FailuresOf, Live
  <2>4. Cardinality(FailuresOf(ip, r)) >= Limit
    BY <1>2, <2>3 DEF RefusedForCause
  <2>5. Cardinality(FailuresOf(ip, r)) <= Cardinality(FailuresOf(ip, r)')
    BY <1>1, FailuresStay, FailuresFiniteNext, FS_Subset
  <2> QED BY <2>3, <2>4, <2>5, FailuresFinite, FailuresFiniteNext
<1>3. CASE ~TryAt(a, "refused")
  <2>1. Check(a) /\ tries[a] \in Checking
    BY <1>3, RefusedByCheck, TryTypes DEF Check, TableInv
  <2>2. PICK ip \in Address, r \in Time : ip = tries[a].ip /\ r = tries[a].seen
    BY <2>1 DEF Checking
  <2>3. /\ Cardinality(LiveOf(ip, r)) >= Limit
        /\ tries'[a] = [pc |-> "refused", ip |-> ip, seen |-> r]
        /\ \A b \in Attempt : b # a => tries'[b] = tries[b]
    BY <2>1, <2>2 DEF Check, TryAt, TryGoto, TableInv, TypeOK
  <2>4. FailuresOf(tries[a].ip, tries[a].seen)' = FailuresOf(ip, r)'
    BY <2>3 DEF FailuresOf, Live
  <2>5. LiveOf(ip, r) \subseteq FailuresOf(ip, r)'
    BY <1>3, <2>1, <2>3 DEF LiveOf, FailuresOf, TableInv, TypeOK, ListedFailed, TryAt, Live, Check
  <2>6. Cardinality(LiveOf(ip, r)) <= Cardinality(FailuresOf(ip, r)')
    BY <2>5, FailuresFiniteNext, FS_Subset
  <2>7. Cardinality(LiveOf(ip, r)) \in Nat
    BY <2>5, FailuresFiniteNext, FS_Subset, FS_CardinalityType
  <2> QED BY <2>3, <2>4, <2>6, <2>7, FailuresFiniteNext
<1> QED BY <1>2, <1>3

\* Nobody is refused for what others did, for what went well, or for what is over.
THEOREM RefusalsCaused == Spec => []RefusedForCause
<1>1. Init => RefusedForCause
  BY DEF Init, RefusedForCause, TryAt
<1> QED BY <1>1, CauseNext, TableInvariant, PTL DEF Spec
----
\* The failures of an address in the window, with the attempts of it that were let through.
PastCheck(ip) == {a \in Attempt : tries[a].pc \in {"verifying", "counting"} /\ tries[a].ip = ip}
Charged(ip) == FailuresOf(ip, now) \cup PastCheck(ip)
BurstInv ==
  /\ Cardinality(InFlight) <= Parallel
  /\ \A ip \in Address : Cardinality(Charged(ip)) <= Limit - 1 + Parallel

\* The failures that are in the window now are among those that a check finds.
LEMMA LiveFailuresFound ==
  ASSUME TableInv, NEW ip \in Address, NEW r \in Time, r <= now
  PROVE  FailuresOf(ip, now) \subseteq LiveOf(ip, r)
<1> USE DEF TableInv, TypeOK
<1> SUFFICES ASSUME NEW b \in FailuresOf(ip, now) PROVE b \in LiveOf(ip, r)
  OBVIOUS
<1>1. b \in Attempt /\ Live(b, now) /\ tries[b] \in Counting /\ b \in failures[ip]
  BY TryTypes DEF FailuresOf, TryAt, NoLiveFailureLost
<1> QED BY <1>1, LiveBefore DEF LiveOf, Counting

LEMMA SetsFinite ==
  /\ IsFiniteSet(InFlight) /\ Cardinality(InFlight) \in Nat
  /\ \A ip \in Address : IsFiniteSet(Charged(ip)) /\ Cardinality(Charged(ip)) \in Nat
<1>1. InFlight \subseteq Attempt /\ \A ip \in Address : Charged(ip) \subseteq Attempt
  BY DEF InFlight, Charged, FailuresOf, PastCheck
<1> QED BY <1>1, FS_Subset, FS_CardinalityType

\* A step that lets nobody through does not charge an address.
LEMMA NoneLetThrough ==
  ASSUME TableInv, [Next]_throttleVars, NEW ip \in Address,
         ~\E a \in Attempt : Check(a)
  PROVE  Charged(ip)' \subseteq Charged(ip)
<1> SUFFICES ASSUME NEW b \in Charged(ip)' PROVE b \in Charged(ip)
  OBVIOUS
<1> USE DEF TableInv, TypeOK
<1>0. b \in Attempt
  BY DEF Charged, FailuresOf, PastCheck
<1>1. ASSUME tries'[b] = tries[b], now' \in {now, now + 1} PROVE b \in Charged(ip)
  <2>1. CASE b \in PastCheck(ip)'
    BY <1>0, <1>1, <2>1 DEF Charged, PastCheck
  <2>2. CASE b \in FailuresOf(ip, now)'
    <3>1. TryAt(b, "failed") /\ tries[b].ip = ip /\ Live(b, now') /\ tries[b] \in Counting
      BY <1>0, <1>1, <2>2, TryTypes DEF FailuresOf, TryAt, Live
    <3>2. Live(b, now)
      BY <1>1, <3>1 DEF Live, Counting, Time
    <3> QED BY <1>0, <3>1, <3>2 DEF Charged, FailuresOf
  <2> QED BY <2>1, <2>2 DEF Charged
<1>2. CASE UNCHANGED throttleVars \/ Tick
  BY <1>0, <1>1, <1>2 DEF throttleVars, Tick
<1>3. CASE Restart
  BY <1>0, <1>3 DEF Restart, Charged, FailuresOf, PastCheck, TryAt
<1>4. ASSUME NEW a \in Attempt, NEW i \in Address, NEW route \in Route, Arrive(a, i, route)
      PROVE  b \in Charged(ip)
  <2>1. b # a
    BY <1>4 DEF Arrive, TryGoto, TryAt, Charged, FailuresOf, PastCheck
  <2> QED BY <1>0, <1>1, <1>4, <2>1 DEF Arrive, TryGoto
<1>5. ASSUME NEW a \in Attempt, Verify(a) PROVE b \in Charged(ip)
  <2>1. CASE b = a
    <3>1. tries[a] \in Verifying /\ a \in PastCheck(tries[a].ip)
      BY <1>5, TryTypes DEF Verify, TryAt, PastCheck, Verifying
    <3>2. tries'[a].ip = ip
      BY <2>1 DEF Charged, FailuresOf, PastCheck
    <3>3. tries'[a].pc # "answered"
      BY <2>1 DEF Charged, FailuresOf, PastCheck, TryAt
    <3>4. tries'[a].ip = tries[a].ip
      BY <1>5, <3>3 DEF Verify, TryGoto
    <3> QED BY <2>1, <3>1, <3>2, <3>4 DEF Charged
  <2>2. CASE b # a
    BY <1>0, <1>1, <1>5, <2>2 DEF Verify, TryGoto
  <2> QED BY <2>1, <2>2
<1>6. ASSUME NEW a \in Attempt, Count(a) PROVE b \in Charged(ip)
  <2>1. CASE b = a
    <3>1. tries[a] \in Counting /\ a \in PastCheck(tries[a].ip)
      BY <1>6, TryTypes DEF Count, TryAt, PastCheck
    <3>2. tries'[a].ip = tries[a].ip
      BY <1>6, <3>1 DEF Count, TryGoto, Counting
    <3>3. tries'[a].ip = ip
      BY <2>1 DEF Charged, FailuresOf, PastCheck
    <3> QED BY <2>1, <3>1, <3>2, <3>3 DEF Charged
  <2>2. CASE b # a
    BY <1>0, <1>1, <1>6, <2>2 DEF Count, TryGoto
  <2> QED BY <2>1, <2>2
<1> QED BY <1>2, <1>3, <1>4, <1>5, <1>6 DEF Next

\* A check charges its own address, when less than Limit failures of it are in the window.
LEMMA LetThrough ==
  ASSUME TableInv, BurstInv, Cardinality(InFlight') <= Parallel,
         NEW a \in Attempt, Check(a), NEW ip \in Address
  PROVE  Cardinality(Charged(ip)') <= Limit - 1 + Parallel
<1> USE DEF TableInv, TypeOK
<1>1. tries[a] \in Checking /\ tries[a].seen <= now
  BY TryTypes DEF Check, SeenBefore, TryAt
<1>2. PICK i \in Address, r \in Time : i = tries[a].ip /\ r = tries[a].seen /\ r <= now
  BY <1>1 DEF Checking
<1>3. /\ tries'[a] = IF Cardinality(LiveOf(i, r)) >= Limit
                     THEN [pc |-> "refused", ip |-> i, seen |-> r]
                     ELSE [pc |-> "verifying", ip |-> i, route |-> tries[a].route]
      /\ now' = now /\ \A b \in Attempt : b # a => tries'[b] = tries[b]
  BY <1>2 DEF Check, TryGoto
<1>4. FailuresOf(ip, now)' \subseteq FailuresOf(ip, now)
  BY <1>3 DEF FailuresOf, TryAt, Live
<1>5. CASE ~(ip = i /\ Cardinality(LiveOf(i, r)) < Limit)
  <2>1. LiveOf(i, r) \subseteq Attempt
    BY DEF LiveOf
  <2>2. Cardinality(LiveOf(i, r)) \in Nat
    BY <2>1, FS_Subset, FS_CardinalityType
  <2>3. Charged(ip)' \subseteq Charged(ip)
    BY <1>3, <1>4, <1>5, <2>2 DEF Charged, PastCheck
  <2>4. Cardinality(Charged(ip)') <= Cardinality(Charged(ip)) /\ Cardinality(Charged(ip)') \in Nat
    BY <2>3, SetsFinite, FS_Subset, FS_CardinalityType
  <2> QED BY <2>4, SetsFinite DEF BurstInv
<1>6. CASE ip = i /\ Cardinality(LiveOf(i, r)) < Limit
  <2> DEFINE L == LiveOf(i, r)
             P == InFlight'
  <2>1. FailuresOf(ip, now) \subseteq L
    BY <1>2, <1>6, LiveFailuresFound
  <2>2. PastCheck(ip)' \subseteq P
    BY DEF PastCheck, InFlight
  <2>3. Charged(ip)' \subseteq L \cup P
    BY <1>4, <2>1, <2>2 DEF Charged
  <2>4. L \subseteq Attempt /\ P \subseteq Attempt
    BY DEF LiveOf, InFlight
  <2>5. IsFiniteSet(L) /\ IsFiniteSet(P) /\ Cardinality(L) \in Nat /\ Cardinality(P) \in Nat
    BY <2>4, FS_Subset, FS_CardinalityType
  <2>6. /\ IsFiniteSet(L \cup P) /\ Cardinality(L \cup P) <= Cardinality(L) + Cardinality(P)
        /\ Cardinality(L \cup P) \in Nat
    <3>1. L \cap P \subseteq L
      OBVIOUS
    <3>2. IsFiniteSet(L \cap P) /\ Cardinality(L \cap P) \in Nat
      BY <2>5, <3>1, FS_Subset, FS_CardinalityType
    <3>3. /\ IsFiniteSet(L \cup P)
          /\ Cardinality(L \cup P) = Cardinality(L) + Cardinality(P) - Cardinality(L \cap P)
      BY <2>5, FS_Union
    <3>4. Cardinality(L \cup P) \in Nat
      BY <3>3, FS_CardinalityType
    <3> HIDE DEF L, P
    <3> QED BY <2>5, <3>2, <3>3, <3>4
  <2>7. Cardinality(Charged(ip)') <= Cardinality(L \cup P) /\ Cardinality(Charged(ip)') \in Nat
    BY <2>3, <2>6, FS_Subset, FS_CardinalityType
  <2>8. Cardinality(L) <= Limit - 1 /\ Cardinality(P) <= Parallel
    BY <1>6, <2>5
  <2> HIDE DEF L, P
  <2> QED BY <2>5, <2>6, <2>7, <2>8
<1> QED BY <1>5, <1>6

\* Only an arrival adds to the attempts at work, below Parallel.
LEMMA InFlightNext ==
  ASSUME TableInv, BurstInv, [Next]_throttleVars
  PROVE  Cardinality(InFlight') <= Parallel
<1> USE DEF TableInv, TypeOK
<1>1. ASSUME InFlight' \subseteq InFlight PROVE Cardinality(InFlight') <= Parallel
  <2>1. Cardinality(InFlight') <= Cardinality(InFlight) /\ Cardinality(InFlight') \in Nat
    BY <1>1, SetsFinite, FS_Subset, FS_CardinalityType
  <2> QED BY <2>1, SetsFinite DEF BurstInv
<1>2. ASSUME NEW a \in Attempt, NEW i \in Address, NEW route \in Route, Arrive(a, i, route)
      PROVE  Cardinality(InFlight') <= Parallel
  <2>1. InFlight' \subseteq InFlight \cup {a}
    BY <1>2 DEF Arrive, TryGoto, InFlight
  <2>2. IsFiniteSet(InFlight \cup {a}) /\ Cardinality(InFlight \cup {a}) <= Cardinality(InFlight) + 1
        /\ Cardinality(InFlight \cup {a}) \in Nat
    <3>1. /\ IsFiniteSet(InFlight \cup {a})
          /\ Cardinality(InFlight \cup {a}) =
               IF a \in InFlight THEN Cardinality(InFlight) ELSE Cardinality(InFlight) + 1
      BY SetsFinite, FS_AddElement
    <3>2. Cardinality(InFlight \cup {a}) \in Nat
      BY <3>1, FS_CardinalityType
    <3> QED BY <3>1, <3>2, SetsFinite
  <2>3. Cardinality(InFlight') <= Cardinality(InFlight \cup {a}) /\ Cardinality(InFlight') \in Nat
    BY <2>1, <2>2, FS_Subset, FS_CardinalityType
  <2> QED BY <1>2, <2>2, <2>3, SetsFinite DEF Arrive
<1>3. ASSUME NEW a \in Attempt, Check(a) \/ Verify(a) \/ Count(a)
      PROVE  Cardinality(InFlight') <= Parallel
  <2>1. a \in InFlight /\ \A b \in Attempt : b # a => tries'[b] = tries[b]
    BY <1>3 DEF Check, Verify, Count, TryAt, TryGoto, InFlight
  <2>2. InFlight' \subseteq InFlight
    BY <2>1 DEF InFlight
  <2> QED BY <1>1, <2>2
<1>4. CASE UNCHANGED throttleVars \/ Tick \/ Restart
  <2>1. InFlight' \subseteq InFlight
    BY <1>4 DEF throttleVars, Tick, Restart, InFlight, TryAt
  <2> QED BY <1>1, <2>1
<1> QED BY <1>2, <1>3, <1>4 DEF Next

LEMMA BurstInit == Init => BurstInv
<1> SUFFICES ASSUME Init PROVE BurstInv
  OBVIOUS
<1>1. InFlight = {} /\ \A ip \in Address : Charged(ip) = {}
  BY DEF Init, InFlight, Charged, FailuresOf, PastCheck, TryAt
<1> QED BY <1>1, FS_EmptySet DEF BurstInv

LEMMA BurstNext ==
  ASSUME TableInv, BurstInv, [Next]_throttleVars
  PROVE  BurstInv'
<1> SUFFICES ASSUME NEW ip \in Address PROVE Cardinality(Charged(ip)') <= Limit - 1 + Parallel
  BY InFlightNext DEF BurstInv
<1>1. CASE \E a \in Attempt : Check(a)
  BY <1>1, InFlightNext, LetThrough
<1>2. CASE ~\E a \in Attempt : Check(a)
  <2>1. Cardinality(Charged(ip)') <= Cardinality(Charged(ip)) /\ Cardinality(Charged(ip)') \in Nat
    BY <1>2, NoneLetThrough, SetsFinite, FS_Subset, FS_CardinalityType
  <2> QED BY <2>1, SetsFinite DEF BurstInv
<1> QED BY <1>1, <1>2

\* While the window holds Limit failures of an address, its attempts are turned away.
THEOREM LocksAreHeld == Spec => LocksHold
<1>1. ASSUME TableInv, [Next]_throttleVars, NEW a \in Attempt,
             TryAt(a, "checking"), TryAt(a, "verifying")'
      PROVE  Cardinality(FailuresOf(tries[a].ip, now)) < Limit
  <2> USE DEF TableInv, TypeOK
  <2>1. Check(a)
    <3>1. tries' # tries /\ ~Restart /\ ~Tick
      BY <1>1 DEF TryAt, Restart, Tick
    <3>2. PICK b \in Attempt : (\E i \in Address, route \in Route : Arrive(b, i, route))
                               \/ Check(b) \/ Verify(b) \/ Count(b)
      BY <1>1, <3>1 DEF Next, throttleVars
    <3>3. b = a
      BY <1>1, <3>2 DEF TryAt, TryGoto, Arrive, Check, Verify, Count
    <3> QED BY <1>1, <3>2, <3>3 DEF TryAt, Arrive, Verify, Count
  <2>2. tries[a] \in Checking /\ tries[a].seen <= now
    BY <1>1, TryTypes DEF SeenBefore, TryAt
  <2>3. PICK ip \in Address, r \in Time : ip = tries[a].ip /\ r = tries[a].seen /\ r <= now
    BY <2>2 DEF Checking
  <2>4. LiveOf(ip, r) \subseteq Attempt /\ IsFiniteSet(LiveOf(ip, r))
        /\ Cardinality(LiveOf(ip, r)) \in Nat
    <3>1. LiveOf(ip, r) \subseteq Attempt
      BY <1>1 DEF LiveOf
    <3> QED BY <3>1, FS_Subset, FS_CardinalityType
  <2>5. Cardinality(LiveOf(ip, r)) < Limit
    BY <1>1, <2>1, <2>3, <2>4 DEF Check, TryAt, TryGoto
  <2>6. FailuresOf(ip, now) \subseteq LiveOf(ip, r)
    BY <1>1, <2>3, LiveFailuresFound
  <2>7. /\ Cardinality(FailuresOf(ip, now)) <= Cardinality(LiveOf(ip, r))
        /\ Cardinality(FailuresOf(ip, now)) \in Nat
    BY <2>4, <2>6, FS_Subset, FS_CardinalityType
  <2> QED BY <2>3, <2>4, <2>5, <2>7
<1>2. TableInv /\ [Next]_throttleVars =>
        [\A a \in Attempt : TryAt(a, "checking") /\ TryAt(a, "verifying")' =>
           Cardinality(FailuresOf(tries[a].ip, now)) < Limit]_throttleVars
  BY <1>1
<1> QED BY <1>2, TableInvariant, PTL DEF Spec, LocksHold

\* A burst overshoots the limit by no more than the attempts that are worked on together.
THEOREM BurstsBounded == Spec => []FailuresBounded
<1>1. ASSUME BurstInv, NEW ip \in Address
      PROVE  Cardinality(FailuresOf(ip, now)) <= Limit - 1 + Parallel
  <2>1. FailuresOf(ip, now) \subseteq Charged(ip)
    BY DEF Charged
  <2>2. /\ Cardinality(FailuresOf(ip, now)) <= Cardinality(Charged(ip))
        /\ Cardinality(FailuresOf(ip, now)) \in Nat
    BY <2>1, SetsFinite, FS_Subset, FS_CardinalityType
  <2> QED BY <1>1, <2>2, SetsFinite DEF BurstInv
<1>2. BurstInv => FailuresBounded
  BY <1>1 DEF FailuresBounded
<1> QED BY <1>2, BurstInit, BurstNext, TableInvariant, PTL DEF Spec
----
\* At the cap, the trimming leaves only addresses that failed in the window of the attempt.
THEOREM TableGrowsByLiveOnly == Spec => GrowsPastCapByLiveOnly
<1>1. ASSUME TableInv, [Next]_throttleVars, NEW a \in Attempt,
             ~TryAt(a, "failed"), TryAt(a, "failed")', Cardinality(Listed') > MaxEntries,
             NEW ip \in Listed'
      PROVE  FailuresOf(ip, tries[a].seen)' # {}
  <2> USE DEF TableInv, TypeOK
  <2>1. Count(a)
    <3>1. tries' # tries /\ ~Restart /\ ~Tick
      BY <1>1 DEF TryAt, Restart, Tick
    <3>2. PICK b \in Attempt : (\E i \in Address, route \in Route : Arrive(b, i, route))
                               \/ Check(b) \/ Verify(b) \/ Count(b)
      BY <1>1, <3>1 DEF Next, throttleVars
    <3>3. b = a
      BY <1>1, <3>2 DEF TryAt, TryGoto, Arrive, Check, Verify, Count
    <3> QED BY <1>1, <3>2, <3>3 DEF TryAt, TryGoto, Arrive, Check, Verify
  <2>2. tries[a] \in Counting
    <3>1. tries[a].pc = "counting"
      BY <2>1 DEF Count, TryAt
    <3> QED BY <1>1, <3>1, TryTypes
  <2>3. PICK i \in Address, r \in Time : i = tries[a].ip /\ r = tries[a].seen
    BY <2>2 DEF Counting
  <2>4. /\ tries'[a].pc = "failed" /\ tries'[a].ip = i /\ tries'[a].seen = r
        /\ \A b \in Attempt : b # a => tries'[b] = tries[b]
    <3>1. tries' = [tries EXCEPT ![a] = [tries[a] EXCEPT !.pc = "failed"]]
      BY <2>1 DEF Count, TryGoto
    <3>2. \A b \in Attempt : tries'[b] = IF b = a THEN [tries[a] EXCEPT !.pc = "failed"] ELSE tries[b]
      BY <1>1, <3>1
    <3> QED BY <2>2, <2>3, <3>2 DEF Counting
  <2>5. FailuresOf(ip, tries[a].seen)' = FailuresOf(ip, r)'
    BY <2>4 DEF FailuresOf, Live
  <2>6. \A j \in Address : j # i => failures'[j] = Trimmed(r)[j]
    BY <2>1, <2>3 DEF Count, Trimmed
  <2>7. CASE ip = i
    <3>1. a \in FailuresOf(ip, r)'
      BY <2>4, <2>7 DEF FailuresOf, TryAt, Live, Time
    <3> QED BY <2>5, <3>1
  <2>8. CASE ip # i
    <3>1. Cardinality(Listed) >= MaxEntries
      <4> SUFFICES ASSUME ~(Cardinality(Listed) >= MaxEntries) PROVE FALSE
        OBVIOUS
      <4>1. Listed \subseteq Address /\ IsFiniteSet(Listed) /\ Cardinality(Listed) \in Nat
        BY FS_Subset, FS_CardinalityType DEF Listed
      <4>2. Listed' \subseteq Listed \cup {i}
        BY <2>6 DEF Listed, Trimmed
      <4>3. IsFiniteSet(Listed \cup {i}) /\ Cardinality(Listed \cup {i}) <= Cardinality(Listed) + 1
            /\ Cardinality(Listed \cup {i}) \in Nat
        <5>1. /\ IsFiniteSet(Listed \cup {i})
              /\ Cardinality(Listed \cup {i}) =
                   IF i \in Listed THEN Cardinality(Listed) ELSE Cardinality(Listed) + 1
          BY <4>1, FS_AddElement
        <5>2. Cardinality(Listed \cup {i}) \in Nat
          BY <5>1, FS_CardinalityType
        <5> QED BY <4>1, <5>1, <5>2
      <4>4. Cardinality(Listed') <= Cardinality(Listed \cup {i}) /\ Cardinality(Listed') \in Nat
        BY <4>2, <4>3, FS_Subset, FS_CardinalityType
      <4> QED BY <1>1, <4>1, <4>3, <4>4
    <3>2. PICK b \in failures[ip] : Live(b, r)
      BY <2>6, <2>8, <3>1 DEF Listed, Trimmed, LiveOf
    <3>3. b \in Attempt /\ b # a /\ TryAt(b, "failed") /\ tries[b].ip = ip
      BY <1>1, <2>8, <3>2 DEF ListedFailed, Listed
    <3>4. b \in FailuresOf(ip, r)'
      BY <2>4, <3>2, <3>3 DEF FailuresOf, TryAt, Live
    <3> QED BY <2>5, <3>4
  <2> QED BY <2>7, <2>8
<1>2. TableInv /\ [Next]_throttleVars =>
        [\A a \in Attempt :
           ~TryAt(a, "failed") /\ TryAt(a, "failed")' /\ Cardinality(Listed') > MaxEntries =>
             \A ip \in Listed' : FailuresOf(ip, tries[a].seen)' # {}]_throttleVars
  BY <1>1
<1> QED BY <1>2, TableInvariant, PTL DEF Spec, GrowsPastCapByLiveOnly
=============================================================================
