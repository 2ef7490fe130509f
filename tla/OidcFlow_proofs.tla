--------------------------- MODULE OidcFlow_proofs ---------------------------
(***************************************************************************)
(* Proofs about organization login, for any number of logins, callbacks,   *)
(* browsers, identities and processes.                                     *)
(***************************************************************************)
EXTENDS OidcFlow, TLAPS

USE FlowAssumption, EmailAssumption, FlowClockAssumption, FlowFaultsAssumption

\* The ways a callback is written down.
Incomplete == [pc : {"refusing", "refused"}, req : Sender]
Selecting == [pc : {"selecting"}, req : Request]
Deleting == [pc : {"deleting"}, req : Request, seen : Time, found : BOOLEAN]
GoneOn == [pc : {"exchanging", "creating", "welcoming", "in"}, req : Request, seen : Time]
TurnedAway == [pc : {"failing", "out"}, req : Request, why : Reason]
StateRefused == [pc : {"failing", "out"}, req : Request, why : {"state"}, seen : Time]

\* A callback that carries what it must.
Complete(c) == calls[c].pc \notin {"unused", "refusing", "refused"}

LEMMA CallTypes ==
  ASSUME TypeOK, NEW c \in Callback
  PROVE  /\ CallAt(c, "selecting") => calls[c] \in Selecting
         /\ CallAt(c, "deleting") => calls[c] \in Deleting
         /\ Took(c) => calls[c] \in GoneOn
         /\ calls[c].pc \in {"failing", "out"} => calls[c] \in TurnedAway \cup StateRefused
         /\ calls[c].pc \in {"refusing", "refused"} => calls[c] \in Incomplete
         /\ Complete(c) => calls[c].req \in Request
         /\ calls[c].pc \in {"unused", "refusing", "refused", "selecting", "deleting",
                             "exchanging", "creating", "welcoming", "in", "failing", "out"}
  BY DEF TypeOK, Call, CallAt, Took, Complete, Incomplete, Selecting, Deleting,
         GoneOn, TurnedAway, StateRefused

LEMMA StartTypes ==
  ASSUME TypeOK, NEW f \in Flow
  PROVE  /\ starts[f].pc \in {"unused", "storing", "redirecting", "sent", "failed"}
         /\ starts[f].pc # "unused" =>
              /\ starts[f] \in [pc : {"storing", "redirecting", "sent", "failed"},
                                server : Server, browser : Browser, seen : Time]
              /\ starts[f].seen \in Nat
  BY DEF TypeOK, Start, Time

\* A callback moves to another record of its kind.
LEMMA CallTyped ==
  ASSUME TypeOK, NEW c \in Callback, NEW s \in Call, CallGoto(c, s)
  PROVE  calls' \in [Callback -> Call]
  BY DEF TypeOK, CallGoto

LEMMA FailTyped ==
  ASSUME TypeOK, NEW c \in Callback, Complete(c), NEW why \in Reason, Fail(c, why)
  PROVE  calls' \in [Callback -> Call]
<1>1. [pc |-> "failing", req |-> calls[c].req, why |-> why] \in Call
  BY CallTypes DEF Call
<1> QED BY <1>1, CallTyped DEF Fail

LEMMA FlowTypeInit == Init => TypeOK
  BY DEF Init, TypeOK, Start, Call, Time

LEMMA FlowTypeNext ==
  ASSUME TypeOK, [Next]_flowVars
  PROVE  TypeOK'
<1>0. now \in Time /\ now \in Nat
  BY DEF TypeOK, Time
<1>1. CASE UNCHANGED flowVars
  BY <1>1 DEF flowVars, TypeOK
<1>2. ASSUME NEW f \in Flow, NEW i \in Server, NEW b \in Browser, BeginStart(f, i, b) PROVE TypeOK'
  BY <1>0, <1>2 DEF BeginStart, Purge, TypeOK, Start
<1>3. ASSUME NEW f \in Flow, StoreFlow(f) \/ Redirect(f) PROVE TypeOK'
  <2>1. starts[f] \in [pc : {"storing", "redirecting", "sent", "failed"},
                       server : Server, browser : Browser, seen : Time]
        /\ starts[f].seen + FlowTTL \in Nat
    BY <1>3, StartTypes DEF StoreFlow, Redirect, StartAt
  <2>2. starts' \in [Flow -> Start]
    BY <1>3, <2>1 DEF StoreFlow, Redirect, StartGoto, TypeOK, Start
  <2> QED BY <1>3, <2>1, <2>2 DEF StoreFlow, Redirect, TypeOK
<1>4. ASSUME NEW c \in Callback, NEW i \in Server, NEW b \in Browser, NEW f \in Flow,
             NEW code \in codes, Arrive(c, i, b, f, code)
      PROVE  TypeOK'
  <2>1. PICK r \in Request : r = [server |-> i, browser |-> b, cookie |-> jar[b], state |-> f,
                                  code |-> code]
    BY <1>4 DEF Arrive, TypeOK, Request, Code
  <2>2. CallGoto(c, [pc |-> "selecting", req |-> r])
    BY <1>4, <2>1 DEF Arrive
  <2>3. calls' \in [Callback -> Call]
    BY <2>2 DEF CallGoto, TypeOK, Call
  <2> QED BY <1>4, <2>3 DEF Arrive, TypeOK
<1>5. ASSUME NEW c \in Callback, Select(c) PROVE TypeOK'
  <2>1. calls[c] \in Selecting
    BY <1>5, CallTypes DEF Select
  <2>2. CASE Fail(c, "database")
    BY <1>5, <2>1, <2>2, FailTyped DEF Select, Reason, Selecting, Complete, TypeOK
  <2>3. CASE ~Fail(c, "database")
    <3>1. PICK found \in BOOLEAN :
            CallGoto(c, [pc |-> "deleting", req |-> calls[c].req, seen |-> now, found |-> found])
      BY <1>5, <2>3 DEF Select
    <3>2. [pc |-> "deleting", req |-> calls[c].req, seen |-> now, found |-> found] \in Call
      BY <1>0, <2>1 DEF Call, Selecting
    <3> QED BY <1>5, <3>1, <3>2, CallTyped DEF Select, TypeOK
  <2> QED BY <2>2, <2>3
<1>6. ASSUME NEW c \in Callback, Delete(c) PROVE TypeOK'
  <2>1. calls[c] \in Deleting
    BY <1>6, CallTypes DEF Delete
  <2>2. CASE Fail(c, "database")
    BY <1>6, <2>1, <2>2, FailTyped DEF Delete, Reason, Deleting, Complete, TypeOK
  <2>3. CASE ~Fail(c, "database")
    <3>1. PICK s \in Call : CallGoto(c, s)
      BY <1>6, <2>1, <2>3 DEF Delete, Call, Deleting
    <3>2. pending' \in [Flow -> Nat]
      BY <1>6 DEF Delete, TypeOK
    <3> QED BY <1>6, <3>1, <3>2, CallTyped DEF Delete, TypeOK
  <2> QED BY <2>2, <2>3
<1>7. ASSUME NEW c \in Callback, Exchange(c) \/ CreateSession(c) PROVE TypeOK'
  <2>1. calls[c] \in GoneOn
    BY <1>7, CallTypes DEF Exchange, CreateSession, CallAt, Took
  <2>2. ASSUME NEW why \in Reason, Fail(c, why) PROVE calls' \in [Callback -> Call]
    BY <2>1, <2>2, FailTyped DEF GoneOn, Complete
  <2>3. [calls[c] EXCEPT !.pc = "creating"] \in Call /\ [calls[c] EXCEPT !.pc = "welcoming"] \in Call
    BY <2>1 DEF GoneOn, Call
  <2>4. calls' \in [Callback -> Call]
    BY <1>7, <2>2, <2>3, CallTyped DEF Exchange, CreateSession, Reason
  <2> QED BY <1>7, <2>4 DEF Exchange, CreateSession, TypeOK
<1>8. ASSUME NEW c \in Callback, Respond(c) PROVE TypeOK'
  <2>1. PICK s \in Call : CallGoto(c, s)
    <3>1. CASE CallAt(c, "welcoming")
      <4>1. calls[c] \in GoneOn
        BY <3>1, CallTypes DEF CallAt, Took
      <4> QED BY <1>8, <3>1, <4>1 DEF Respond, CallAt, GoneOn, Call
    <3>2. CASE CallAt(c, "failing")
      <4>1. calls[c] \in TurnedAway \cup StateRefused
        BY <3>2, CallTypes DEF CallAt
      <4> QED BY <1>8, <3>2, <4>1 DEF Respond, CallAt, TurnedAway, StateRefused, Call
    <3>3. CASE CallAt(c, "refusing")
      <4>1. calls[c] \in Incomplete
        BY <3>3, CallTypes DEF CallAt
      <4> QED BY <1>8, <3>3, <4>1 DEF Respond, CallAt, Incomplete, Call
    <3> QED BY <1>8, <3>1, <3>2, <3>3 DEF Respond
  <2> QED BY <1>8, <2>1, CallTyped DEF Respond, TypeOK
<1>9. ASSUME NEW f \in Flow, NEW u \in User, Authorize(f, u) PROVE TypeOK'
  BY <1>9 DEF Authorize, TypeOK, Code
<1>10. CASE Tick
  BY <1>10 DEF Tick, TypeOK, Time
<1>11. ASSUME NEW i \in Server, Restart(i) PROVE TypeOK'
  <2>1. starts' \in [Flow -> Start]
    BY <1>11, StartTypes DEF Restart, TypeOK, Start
  <2>2. calls' \in [Callback -> Call]
    <3>1. ASSUME NEW c \in Callback, CutFrom(c, i)
          PROVE  [pc |-> "out", req |-> calls[c].req, why |-> "cut"] \in Call
      BY <3>1, CallTypes DEF CutFrom, CallOpen, Complete, Call, Reason
    <3>2. ASSUME NEW c \in Callback, CallAt(c, "refusing")
          PROVE  [calls[c] EXCEPT !.pc = "refused"] \in Call
      BY <3>2, CallTypes DEF CallAt, Incomplete, Call
    <3> QED BY <1>11, <3>1, <3>2 DEF Restart, Cut, TypeOK
  <2> QED BY <1>11, <2>1, <2>2 DEF Restart, TypeOK
<1>12. ASSUME NEW c \in Callback, NEW i \in Server, NEW b \in Browser, ArriveIncomplete(c, i, b)
       PROVE  TypeOK'
  <2>1. calls' \in [Callback -> Call]
    BY <1>12 DEF ArriveIncomplete, CallGoto, TypeOK, Call, Sender
  <2> QED BY <1>12, <2>1 DEF ArriveIncomplete, TypeOK
<1> QED BY <1>1, <1>2, <1>3, <1>4, <1>5, <1>6, <1>7, <1>8, <1>9, <1>10, <1>11, <1>12 DEF Next

\* The logins, the callbacks and the rows keep their types.
THEOREM FlowTypeCorrect == Spec => []TypeOK
  BY FlowTypeInit, FlowTypeNext, PTL DEF Spec
----
(***************************************************************************)
(* What lasts: a login that was used stays what it was, a callback keeps   *)
(* its request, and a code that was given stays given.                     *)
(***************************************************************************)
Past(d, f) == Presented(d) /\ calls[d].req.state = f

LEMMA StartsLast ==
  ASSUME TypeOK, [Next]_flowVars, NEW f \in Flow, starts[f].pc # "unused"
  PROVE  /\ starts'[f].pc # "unused"
         /\ starts'[f].seen = starts[f].seen /\ starts'[f].browser = starts[f].browser
         /\ StartAt(f, "sent") => StartAt(f, "sent")'
<1>1. PICK t : t = starts[f] /\ t.pc # "unused"
  OBVIOUS
<1>2. CASE starts' = starts
  BY <1>2 DEF StartAt
<1>3. ASSUME NEW g \in Flow, NEW i \in Server, NEW b \in Browser, BeginStart(g, i, b)
      PROVE  starts'[f] = starts[f]
  BY <1>3 DEF BeginStart, StartAt, TypeOK
<1>4. ASSUME NEW g \in Flow, StoreFlow(g) \/ Redirect(g)
      PROVE  g # f => starts'[f] = starts[f]
  BY <1>4 DEF StoreFlow, Redirect, StartGoto, TypeOK
<1>5. ASSUME NEW g \in Flow, StoreFlow(g) \/ Redirect(g), g = f
      PROVE  /\ starts'[f].pc # "unused" /\ ~StartAt(f, "sent")
             /\ starts'[f].seen = starts[f].seen /\ starts'[f].browser = starts[f].browser
  BY <1>5, StartTypes DEF StoreFlow, Redirect, StartGoto, StartAt, TypeOK
<1>6. ASSUME NEW i \in Server, Restart(i)
      PROVE  /\ starts'[f].pc # "unused"
             /\ starts'[f].seen = starts[f].seen /\ starts'[f].browser = starts[f].browser
             /\ StartAt(f, "sent") => StartAt(f, "sent")'
  BY <1>6, StartTypes DEF Restart, StartAt
<1>7. \/ starts' = starts
      \/ \E g \in Flow, i \in Server, b \in Browser : BeginStart(g, i, b)
      \/ \E g \in Flow : StoreFlow(g) \/ Redirect(g)
      \/ \E i \in Server : Restart(i)
  BY DEF Next, flowVars, Arrive, ArriveIncomplete, Select, Delete, Exchange, CreateSession,
         Respond, Authorize, Tick
<1> QED BY <1>2, <1>3, <1>4, <1>5, <1>6, <1>7 DEF StartAt

\* A callback is touched by itself or by the death of its process.
LEMMA CallsLast ==
  ASSUME TypeOK, [Next]_flowVars, NEW c \in Callback, calls[c].pc # "unused"
  PROVE  /\ calls'[c].pc # "unused" /\ calls'[c].req = calls[c].req
         /\ Presented(c) => Presented(c)'
         /\ Complete(c)' <=> Complete(c)
<1> DEFINE Kept == /\ calls'[c].pc # "unused" /\ calls'[c].req = calls[c].req
                   /\ Presented(c) => Presented(c)'
                   /\ Complete(c)' <=> Complete(c)
<1> USE DEF Complete, Presented
<1>1. CASE calls'[c] = calls[c]
  BY <1>1
<1>2. CASE Select(c)
  <2>1. PICK s : CallGoto(c, s) /\ s.pc \in {"deleting", "failing"} /\ s.req = calls[c].req
    BY <1>2 DEF Select, Fail
  <2> QED BY <1>2, <2>1 DEF Select, CallAt, CallGoto, TypeOK
<1>3. CASE Delete(c)
  <2>1. PICK s : CallGoto(c, s) /\ s.pc \in {"exchanging", "failing"} /\ s.req = calls[c].req
    BY <1>3 DEF Delete, Fail
  <2> QED BY <1>3, <2>1 DEF Delete, CallAt, CallGoto, TypeOK
<1>4. CASE Exchange(c) \/ CreateSession(c)
  <2>1. calls[c] \in GoneOn
    BY <1>4, CallTypes DEF Exchange, CreateSession, CallAt, Took
  <2>2. PICK s : CallGoto(c, s) /\ s.pc \in {"creating", "welcoming", "failing"} /\ s.req = calls[c].req
    BY <1>4, <2>1 DEF Exchange, CreateSession, Fail, GoneOn
  <2> QED BY <1>4, <2>2 DEF Exchange, CreateSession, CallAt, CallGoto, TypeOK
<1>5. CASE Respond(c)
  <2>1. calls[c] \in GoneOn \cup TurnedAway \cup StateRefused \cup Incomplete
    BY <1>5, CallTypes DEF Respond, CallAt, Took
  <2>2. PICK pc \in {"in", "out", "refused"} :
          /\ CallGoto(c, [calls[c] EXCEPT !.pc = pc])
          /\ pc = "refused" <=> CallAt(c, "refusing")
    BY <1>5 DEF Respond, CallAt
  <2>3. calls'[c] = [calls[c] EXCEPT !.pc = pc]
    BY <2>2 DEF CallGoto, TypeOK
  <2> QED BY <1>5, <2>1, <2>2, <2>3
          DEF Respond, CallAt, GoneOn, TurnedAway, StateRefused, Incomplete
<1>6. ASSUME NEW i \in Server, Restart(i) PROVE Kept
  <2>1. CASE CallAt(c, "refusing")
    <3>1. calls[c] \in Incomplete
      BY <2>1, CallTypes DEF CallAt
    <3>2. calls'[c] \in {calls[c], [calls[c] EXCEPT !.pc = "refused"]}
      BY <1>6, <2>1 DEF Restart, Cut, CutFrom, CallOpen, CallAt
    <3> QED BY <2>1, <3>1, <3>2 DEF CallAt, Incomplete
  <2>2. CASE ~CallAt(c, "refusing")
    BY <1>6, <2>2 DEF Restart, Cut, CutFrom, CallOpen
  <2> QED BY <2>1, <2>2
<1>7. \/ calls'[c] = calls[c] \/ Select(c) \/ Delete(c) \/ Exchange(c) \/ CreateSession(c)
      \/ Respond(c) \/ \E i \in Server : Restart(i)
  <2>1. ASSUME NEW d \in Callback, d # c, NEW s, CallGoto(d, s) PROVE calls'[c] = calls[c]
    BY <2>1 DEF CallGoto, TypeOK
  <2>2. ASSUME NEW d \in Callback, d # c,
               Select(d) \/ Delete(d) \/ Exchange(d) \/ CreateSession(d) \/ Respond(d)
        PROVE  calls'[c] = calls[c]
    BY <2>1, <2>2 DEF Select, Delete, Exchange, CreateSession, Respond, Fail
  <2>3. ASSUME NEW d \in Callback, NEW i \in Server, NEW b \in Browser, NEW f \in Flow,
               NEW code \in codes, Arrive(d, i, b, f, code)
        PROVE  calls'[c] = calls[c]
    <3>1. d # c
      BY <2>3 DEF Arrive, CallAt
    <3> QED BY <2>1, <2>3, <3>1 DEF Arrive
  <2>4. CASE calls' = calls
    BY <2>4
  <2>5. ASSUME NEW d \in Callback, NEW i \in Server, NEW b \in Browser, ArriveIncomplete(d, i, b)
        PROVE  calls'[c] = calls[c]
    <3>1. d # c
      BY <2>5 DEF ArriveIncomplete, CallAt
    <3> QED BY <2>1, <2>5, <3>1 DEF ArriveIncomplete
  <2> QED BY <2>2, <2>3, <2>4, <2>5 DEF Next, flowVars, BeginStart, StoreFlow, Redirect, Authorize, Tick
<1> HIDE DEF Kept
<1>8. Kept
  BY <1>1, <1>2, <1>3, <1>4, <1>5, <1>6, <1>7 DEF Kept
<1> QED BY <1>8 DEF Kept

LEMMA PastLasts ==
  ASSUME TypeOK, [Next]_flowVars, NEW d \in Callback, NEW f, Past(d, f)
  PROVE  Past(d, f)'
  BY CallsLast DEF Past, Presented

LEMMA ClockAndCodes ==
  ASSUME TypeOK, [Next]_flowVars
  PROVE  now' >= now /\ now \in Nat /\ now' \in Nat /\ codes \subseteq codes'
<1>1. TypeOK'
  BY FlowTypeNext
<1>2. now \in Nat /\ now' \in Nat
  BY <1>1 DEF TypeOK, Time
<1>3. (now' = now \/ now' = now + 1) /\ codes \subseteq codes'
  BY DEF Next, flowVars, BeginStart, StoreFlow, Redirect, Arrive, ArriveIncomplete, Select,
         Delete, Exchange, CreateSession, Respond, Authorize, Tick, Restart
<1> QED BY <1>2, <1>3
----
(***************************************************************************)
(* What is inductive: of rows, of cookies, and of each callback.           *)
(***************************************************************************)

\* A row is that of a login that was begun, and expires FlowTTL after its reading.
RowInv ==
  \A f \in Flow : pending[f] # 0 =>
    starts[f].pc # "unused" /\ pending[f] = starts[f].seen + FlowTTL

\* A browser holds the cookie of a login it started.
JarInv ==
  \A b \in Browser : jar[b] # NoFlow => StartAt(jar[b], "sent") /\ starts[jar[b]].browser = b

\* Why a flow is not found: another cookie, another time, or another callback.
Late(c) == calls[c].seen >= starts[calls[c].req.state].seen + FlowTTL
Forestalled(c) == \E d \in Callback \ {c} : Past(d, calls[c].req.state)
Mixed(c) == calls[c].req.cookie # calls[c].req.state
Cause(c) == Mixed(c) \/ Late(c) \/ Forestalled(c)

\* Gone: the row of a login that was sent to the browser.
Gone(f) == now >= starts[f].seen + FlowTTL \/ \E d \in Callback : Past(d, f)
GoneInv ==
  \A f \in Flow : starts[f].pc \in {"redirecting", "sent"} =>
    pending[f] = starts[f].seen + FlowTTL \/ Gone(f)

HasFound(c) == Took(c) \/ (CallAt(c, "deleting") /\ calls[c].found)
HasMissed(c) ==
  \/ CallAt(c, "deleting") /\ ~calls[c].found
  \/ calls[c].pc \in {"failing", "out"} /\ calls[c].why = "state"

\* What a callback says was true of its login when it looked, and stays so.
RequestInv(c) ==
  Complete(c) =>
    /\ StartAt(calls[c].req.state, "sent")
    /\ calls[c].req.code \in codes
    /\ StartAt(calls[c].req.cookie, "sent")
    /\ starts[calls[c].req.cookie].browser = calls[c].req.browser
FoundInv(c) == HasFound(c) => ~Mixed(c) /\ ~Late(c)
MissedInv(c) == HasMissed(c) => Cause(c)
WelcomeInv(c) ==
  calls[c].pc \in {"creating", "welcoming", "in"} =>
    calls[c].req.code[1] = calls[c].req.state /\ Permits(calls[c].req.code[2])
CallInv(c) == RequestInv(c) /\ FoundInv(c) /\ MissedInv(c) /\ WelcomeInv(c)

FlowInv ==
  /\ TypeOK
  /\ RowInv /\ JarInv /\ GoneInv
  /\ \A c \in Callback : CallInv(c)

LEMMA FlowInit == Init => FlowInv
<1> SUFFICES ASSUME Init PROVE FlowInv
  OBVIOUS
<1>1. TypeOK
  BY FlowTypeInit
<1>2. RowInv /\ JarInv /\ GoneInv
  BY DEF Init, RowInv, JarInv, GoneInv
<1>3. \A c \in Callback : CallInv(c)
  BY DEF Init, CallInv, RequestInv, FoundInv, MissedInv, WelcomeInv, HasFound, HasMissed, Took, CallAt,
         Complete
<1> QED BY <1>1, <1>2, <1>3 DEF FlowInv

LEMMA RowNext ==
  ASSUME FlowInv, [Next]_flowVars
  PROVE  RowInv'
<1> SUFFICES ASSUME NEW f \in Flow, pending'[f] # 0
             PROVE  starts'[f].pc # "unused" /\ pending'[f] = starts'[f].seen + FlowTTL
  BY DEF RowInv
<1>0. TypeOK
  BY DEF FlowInv
<1>1. CASE pending'[f] = pending[f]
  BY <1>0, <1>1, StartsLast DEF FlowInv, RowInv
<1>2. CASE StoreFlow(f)
  BY <1>0, <1>1, <1>2, StartTypes DEF StoreFlow, StartAt, StartGoto, TypeOK
<1>3. pending'[f] \in {0, pending[f]} \/ StoreFlow(f)
  BY <1>0 DEF Next, flowVars, BeginStart, Purge, StoreFlow, Redirect, Arrive,
         ArriveIncomplete, Select, Delete, Exchange, CreateSession, Respond, Authorize, Tick,
         Restart, TypeOK
<1> QED BY <1>1, <1>2, <1>3

LEMMA JarNext ==
  ASSUME FlowInv, [Next]_flowVars
  PROVE  JarInv'
<1> SUFFICES ASSUME NEW b \in Browser, jar'[b] # NoFlow
             PROVE  StartAt(jar[b], "sent")' /\ starts'[jar'[b]].browser = b
  BY DEF JarInv
<1>0. TypeOK
  BY DEF FlowInv
<1>1. CASE jar'[b] = jar[b]
  <2>1. PICK f \in Flow : f = jar[b]
    BY <1>0, <1>1 DEF TypeOK
  <2>2. StartAt(f, "sent") /\ starts[f].browser = b
    BY <1>1, <2>1 DEF FlowInv, JarInv
  <2> QED BY <1>0, <1>1, <2>1, <2>2, StartsLast DEF StartAt
<1>2. ASSUME NEW f \in Flow, Redirect(f), jar'[b] # jar[b]
      PROVE  StartAt(jar[b], "sent")' /\ starts'[jar'[b]].browser = b
  <2>1. jar'[b] = f /\ starts[f].browser = b
    BY <1>0, <1>2 DEF Redirect, TypeOK
  <2>2. starts'[f].pc = "sent" /\ starts'[f].browser = b
    BY <1>0, <1>2, <2>1, StartTypes DEF Redirect, StartGoto, StartAt, TypeOK
  <2> QED BY <2>1, <2>2 DEF StartAt
<1>3. jar'[b] \in {NoFlow, jar[b]} \/ \E f \in Flow : Redirect(f)
  BY <1>0 DEF Next, flowVars, BeginStart, StoreFlow, Redirect, Arrive, ArriveIncomplete, Select,
         Delete, Exchange, CreateSession, Respond, Authorize, Tick, Restart, TypeOK
<1> QED BY <1>1, <1>2, <1>3

LEMMA GoneNext ==
  ASSUME FlowInv, [Next]_flowVars
  PROVE  GoneInv'
<1> SUFFICES ASSUME NEW f \in Flow, starts'[f].pc \in {"redirecting", "sent"}
             PROVE  pending'[f] = starts'[f].seen + FlowTTL \/ Gone(f)'
  BY DEF GoneInv
<1>0. TypeOK /\ GoneInv
  BY DEF FlowInv
<1>1. CASE starts[f].pc \in {"redirecting", "sent"}
  <2>1. starts'[f].seen = starts[f].seen /\ starts[f].seen \in Nat
    BY <1>0, <1>1, StartsLast, StartTypes
  <2>2. CASE Gone(f)
    <3>1. (now >= starts[f].seen + FlowTTL) => (now' >= starts'[f].seen + FlowTTL)
      BY <1>0, <2>1, ClockAndCodes
    <3>2. (\E d \in Callback : Past(d, f)) => (\E d \in Callback : Past(d, f)')
      BY <1>0, PastLasts
    <3> QED BY <2>2, <3>1, <3>2 DEF Gone
  <2>3. CASE pending[f] = starts[f].seen + FlowTTL /\ pending'[f] # pending[f]
    <3>1. \/ \E g \in Flow, i \in Server, b \in Browser : BeginStart(g, i, b)
          \/ \E c \in Callback : Delete(c)
          \/ \E g \in Flow : StoreFlow(g)
      BY <2>3 DEF Next, flowVars, Redirect, Arrive, ArriveIncomplete, Select,
                  Exchange, CreateSession, Respond, Authorize, Tick, Restart
    <3>2. ASSUME NEW g \in Flow, NEW i \in Server, NEW b \in Browser, BeginStart(g, i, b)
          PROVE  Gone(f)'
      <4>1. pending[f] <= now
        BY <2>3, <3>2 DEF BeginStart, Purge
      <4> QED BY <1>0, <2>1, <2>3, <4>1, ClockAndCodes DEF Gone
    <3>3. ASSUME NEW c \in Callback, Delete(c) PROVE Gone(f)'
      <4>1. calls[c].req.state = f /\ calls[c] \in Deleting
        BY <1>0, <2>3, <3>3, CallTypes DEF Delete, TypeOK
      <4>2. Presented(c)
        BY <4>1 DEF Deleting, Presented
      <4>3. Past(c, f)'
        BY <1>0, <4>1, <4>2, PastLasts DEF Past
      <4> QED BY <4>3 DEF Gone
    <3>4. ASSUME NEW g \in Flow, StoreFlow(g) PROVE FALSE
      BY <1>0, <1>1, <2>3, <3>4 DEF StoreFlow, StartAt, TypeOK
    <3> QED BY <3>1, <3>2, <3>3, <3>4
  <2> QED BY <1>0, <1>1, <2>1, <2>2, <2>3 DEF GoneInv
<1>2. CASE starts[f].pc \notin {"redirecting", "sent"}
  <2>1. StoreFlow(f)
    <3>1. \/ \E g \in Flow, i \in Server, b \in Browser : BeginStart(g, i, b)
          \/ \E g \in Flow : StoreFlow(g) \/ Redirect(g)
          \/ \E i \in Server : Restart(i)
      BY <1>2 DEF Next, flowVars, Arrive, ArriveIncomplete, Select,
                  Delete, Exchange, CreateSession, Respond, Authorize, Tick
    <3>2. ASSUME NEW g \in Flow, NEW i \in Server, NEW b \in Browser, BeginStart(g, i, b) PROVE FALSE
      BY <1>0, <1>2, <3>2 DEF BeginStart, TypeOK
    <3>3. ASSUME NEW i \in Server, Restart(i) PROVE FALSE
      BY <1>0, <1>2, <3>3, StartTypes DEF Restart
    <3>4. ASSUME NEW g \in Flow, StoreFlow(g) \/ Redirect(g) PROVE g = f /\ StoreFlow(f)
      BY <1>0, <1>2, <3>4 DEF StoreFlow, Redirect, StartGoto, StartAt, TypeOK
    <3> QED BY <3>1, <3>2, <3>3, <3>4
  <2>2. starts'[f].seen = starts[f].seen
    BY <1>0, <2>1, StartsLast DEF StoreFlow, StartAt
  <2>3. CASE pending'[f] = starts[f].seen + FlowTTL
    BY <2>2, <2>3
  <2>4. CASE StartGoto(f, "failed")
    BY <1>0, <2>4, StartTypes DEF StartGoto, TypeOK
  <2> QED BY <1>0, <2>1, <2>3, <2>4 DEF StoreFlow, TypeOK
<1> QED BY <1>1, <1>2

\* The request of a callback is as good as it was when it came.
LEMMA RequestNext ==
  ASSUME FlowInv, [Next]_flowVars, NEW c \in Callback
  PROVE  RequestInv(c)'
<1>0. TypeOK /\ TypeOK' /\ CallInv(c)
  BY FlowTypeNext DEF FlowInv
<1>1. CASE Complete(c)
  <2>1. RequestInv(c) /\ calls'[c].req = calls[c].req
    BY <1>0, <1>1, CallsLast DEF CallInv, Complete
  <2>2. PICK r \in Request : r = calls[c].req
    BY <1>0, <1>1, CallTypes
  <2>3. r.state \in Flow /\ r.cookie \in Flow
    BY DEF Request
  <2>4. PICK f \in Flow, g \in Flow : f = r.state /\ g = r.cookie
    BY <2>3
  <2>5. /\ StartAt(f, "sent") /\ r.code \in codes
        /\ StartAt(g, "sent") /\ starts[g].browser = r.browser
    BY <1>1, <2>1, <2>2, <2>4 DEF RequestInv
  <2>6. starts'[f].pc = "sent" /\ starts'[g].pc = "sent" /\ starts'[g].browser = r.browser
    BY <1>0, <2>5, StartsLast DEF StartAt
  <2>7. r.code \in codes'
    BY <1>0, <2>5, ClockAndCodes
  <2> QED BY <2>1, <2>2, <2>4, <2>6, <2>7 DEF RequestInv, StartAt
<1>2. ASSUME NEW i \in Server, NEW b \in Browser, NEW f \in Flow, NEW code \in codes,
             Arrive(c, i, b, f, code)
      PROVE  RequestInv(c)'
  <2>1. calls'[c].req = [server |-> i, browser |-> b, cookie |-> jar[b], state |-> f, code |-> code]
    BY <1>0, <1>2 DEF Arrive, CallGoto, TypeOK
  <2>2. StartAt(f, "sent") /\ starts' = starts /\ codes' = codes /\ jar[b] # NoFlow
    BY <1>0, <1>2 DEF Arrive, TypeOK
  <2>3. StartAt(jar[b], "sent") /\ starts[jar[b]].browser = b
    BY <2>2 DEF FlowInv, JarInv
  <2> QED BY <2>1, <2>2, <2>3 DEF RequestInv, StartAt
<1>3. CASE ~Complete(c)'
  BY <1>3 DEF RequestInv
<1>4. Complete(c) \/ ~Complete(c)'
        \/ \E i \in Server, b \in Browser, f \in Flow, code \in codes : Arrive(c, i, b, f, code)
  <2> SUFFICES ASSUME ~Complete(c), Complete(c)'
               PROVE  \E i \in Server, b \in Browser, f \in Flow, code \in codes :
                        Arrive(c, i, b, f, code)
    OBVIOUS
  <2>0. calls[c].pc = "unused" /\ calls'[c] # calls[c]
    BY <1>0, CallsLast DEF Complete
  <2>1. ASSUME NEW d \in Callback, NEW s, CallGoto(d, s) PROVE d = c
    BY <1>0, <2>0, <2>1 DEF CallGoto, TypeOK
  <2>2. ASSUME NEW i \in Server, Restart(i) PROVE FALSE
    BY <2>0, <2>2 DEF Restart, Cut, CutFrom, CallOpen, CallAt
  <2>3. ASSUME NEW d \in Callback,
               Select(d) \/ Delete(d) \/ Exchange(d) \/ CreateSession(d) \/ Respond(d)
        PROVE  FALSE
    <3>1. d = c
      BY <2>1, <2>3 DEF Select, Delete, Exchange, CreateSession, Respond, Fail
    <3> QED BY <2>0, <2>3, <3>1 DEF Select, Delete, Exchange, CreateSession, Respond, CallAt
  <2>4. ASSUME NEW d \in Callback, NEW i \in Server, NEW b \in Browser, ArriveIncomplete(d, i, b)
        PROVE  FALSE
    <3>1. d = c
      BY <2>1, <2>4 DEF ArriveIncomplete
    <3>2. calls'[c].pc = "refusing"
      BY <1>0, <2>4, <3>1 DEF ArriveIncomplete, CallGoto, TypeOK
    <3> QED BY <3>2 DEF Complete
  <2>5. PICK d \in Callback, i \in Server, b \in Browser, f \in Flow, code \in codes :
          Arrive(d, i, b, f, code)
    BY <2>0, <2>2, <2>3, <2>4 DEF Next, flowVars, BeginStart, StoreFlow, Redirect, Authorize, Tick
  <2>6. d = c
    BY <2>1, <2>5 DEF Arrive
  <2> QED BY <2>5, <2>6
<1> QED BY <1>1, <1>2, <1>3, <1>4

\* What a step can make of a callback.
LEMMA CallSteps ==
  ASSUME TypeOK, [Next]_flowVars, NEW c \in Callback
  PROVE  \/ calls'[c] = calls[c]
         \/ calls'[c].pc \in {"refusing", "refused", "selecting"}
         \/ calls'[c].pc \in {"failing", "out"} /\ calls'[c].why \in Reason
         \/ Select(c) \/ Delete(c) \/ Exchange(c) \/ CreateSession(c) \/ Respond(c)
<1>1. ASSUME NEW d \in Callback, d # c, NEW s, CallGoto(d, s) PROVE calls'[c] = calls[c]
  BY <1>1 DEF CallGoto, TypeOK
<1>2. ASSUME NEW d \in Callback, d # c,
             Select(d) \/ Delete(d) \/ Exchange(d) \/ CreateSession(d) \/ Respond(d)
      PROVE  calls'[c] = calls[c]
  BY <1>1, <1>2 DEF Select, Delete, Exchange, CreateSession, Respond, Fail
<1>3. ASSUME NEW d \in Callback, NEW i \in Server, NEW b \in Browser, NEW f \in Flow,
             NEW code \in codes, Arrive(d, i, b, f, code)
      PROVE  calls'[c] = calls[c] \/ calls'[c].pc = "selecting"
  BY <1>1, <1>3 DEF Arrive, CallGoto, TypeOK
<1>4. ASSUME NEW i \in Server, Restart(i)
      PROVE  \/ calls'[c] = calls[c]
             \/ calls'[c].pc = "refused"
             \/ calls'[c].pc = "out" /\ calls'[c].why \in Reason
  <2>1. CASE CallAt(c, "refusing")
    <3>1. calls[c] \in Incomplete
      BY <2>1, CallTypes DEF CallAt
    <3> QED BY <1>4, <2>1, <3>1 DEF Restart, Cut, CutFrom, CallOpen, CallAt, Incomplete
  <2>2. CASE ~CallAt(c, "refusing")
    BY <1>4, <2>2 DEF Restart, Cut, Reason
  <2> QED BY <2>1, <2>2
<1>5. CASE calls' = calls
  BY <1>5
<1>6. ASSUME NEW d \in Callback, NEW i \in Server, NEW b \in Browser, ArriveIncomplete(d, i, b)
      PROVE  calls'[c] = calls[c] \/ calls'[c].pc = "refusing"
  BY <1>1, <1>6 DEF ArriveIncomplete, CallGoto, TypeOK
<1> QED BY <1>2, <1>3, <1>4, <1>5, <1>6
        DEF Next, flowVars, BeginStart, StoreFlow, Redirect, Authorize, Tick

\* A callback that keeps its reading keeps its verdict.
LEMMA VerdictsLast ==
  ASSUME FlowInv, [Next]_flowVars, NEW c \in Callback, Complete(c)
  PROVE  /\ Mixed(c)' <=> Mixed(c)
         /\ calls'[c].seen = calls[c].seen => (Late(c)' <=> Late(c))
         /\ Forestalled(c) => Forestalled(c)'
<1>0. TypeOK /\ RequestInv(c)
  BY DEF FlowInv, CallInv
<1>1. calls'[c].req = calls[c].req
  BY <1>0, CallsLast DEF Complete
<1>2. PICK f \in Flow : f = calls[c].req.state
  BY <1>0, CallTypes DEF Request
<1>3. starts'[f].seen = starts[f].seen
  BY <1>0, <1>2, StartsLast DEF RequestInv, StartAt
<1>4. Forestalled(c) => Forestalled(c)'
  BY <1>0, <1>1, <1>2, PastLasts DEF Forestalled
<1> QED BY <1>1, <1>2, <1>3, <1>4 DEF Mixed, Late

\* The SELECT decides: what it finds is in time, what it misses is for a cause.
LEMMA SelectDecides ==
  ASSUME FlowInv, [Next]_flowVars, NEW c \in Callback, Select(c), CallAt(c, "deleting")'
  PROVE  /\ calls'[c].found => ~Mixed(c)' /\ ~Late(c)'
         /\ ~calls'[c].found => Cause(c)'
<1>0. TypeOK /\ RequestInv(c) /\ RowInv /\ GoneInv
  BY DEF FlowInv, CallInv
<1>1. calls[c] \in Selecting /\ now \in Nat
  BY <1>0, CallTypes DEF Select, TypeOK, Time
<1>2. PICK r \in Request, f \in Flow : r = calls[c].req /\ f = r.state
  BY <1>1 DEF Selecting, Request
<1>3. calls'[c] = [pc |-> "deleting", req |-> r, seen |-> now,
                   found |-> r.cookie = r.state /\ pending[r.state] > now]
  BY <1>0, <1>2 DEF Select, Fail, CallGoto, CallAt, TypeOK
<1>4. starts' = starts /\ StartAt(f, "sent") /\ starts[f].seen \in Nat /\ pending[f] \in Nat
  BY <1>0, <1>1, <1>2, StartTypes DEF Select, RequestInv, Complete, Selecting, StartAt, TypeOK
<1>5. Late(c)' <=> now >= starts[f].seen + FlowTTL
  BY <1>2, <1>3, <1>4 DEF Late
<1>6. Mixed(c)' <=> r.cookie # f
  BY <1>2, <1>3 DEF Mixed
<1>9. calls'[c].found <=> (r.cookie = f /\ pending[f] > now)
  <2>1. PICK ok \in BOOLEAN :
          /\ ok = (r.cookie = r.state /\ pending[r.state] > now)
          /\ calls'[c] = [pc |-> "deleting", req |-> r, seen |-> now, found |-> ok]
    BY <1>3, Zenon
  <2>2. calls'[c].found = ok
    BY <2>1
  <2>3. ok <=> (r.cookie = f /\ pending[f] > now)
    BY <1>2, <2>1, Zenon
  <2> QED BY <2>2, <2>3, Zenon
<1>7. CASE calls'[c].found
  <2>1. r.cookie = f /\ pending[f] > now
    BY <1>7, <1>9
  <2>2. pending[f] = starts[f].seen + FlowTTL
    BY <1>0, <1>1, <1>4, <2>1 DEF RowInv
  <2> QED BY <1>1, <1>4, <1>5, <1>6, <1>7, <2>1, <2>2
<1>8. CASE ~calls'[c].found
  <2>1. r.cookie # f \/ ~(pending[f] > now)
    BY <1>8, <1>9
  <2>2. ASSUME ~(pending[f] > now) PROVE Late(c)' \/ Forestalled(c)'
    <3>1. pending[f] = starts[f].seen + FlowTTL \/ Gone(f)
      BY <1>0, <1>4 DEF GoneInv, StartAt
    <3>2. CASE pending[f] = starts[f].seen + FlowTTL \/ now >= starts[f].seen + FlowTTL
      BY <1>1, <1>4, <1>5, <2>2, <3>2
    <3>3. ASSUME NEW d \in Callback, Past(d, f) PROVE Forestalled(c)'
      <4>1. d # c
        BY <1>1, <3>3 DEF Past, Presented, Selecting
      <4>2. Past(d, f)'
        BY <1>0, <3>3, PastLasts
      <4> QED BY <1>2, <1>3, <4>1, <4>2 DEF Forestalled
    <3> QED BY <3>1, <3>2, <3>3 DEF Gone
  <2> QED BY <1>6, <1>8, <2>1, <2>2 DEF Cause
<1> QED BY <1>7, <1>8

LEMMA CallNext ==
  ASSUME FlowInv, [Next]_flowVars, NEW c \in Callback
  PROVE  CallInv(c)'
<1>0. TypeOK /\ TypeOK' /\ CallInv(c)
  BY FlowTypeNext DEF FlowInv
<1> USE DEF HasFound, HasMissed, Took, CallAt, Complete
<1>1. CASE calls'[c] = calls[c]
  <2>1. CASE ~Complete(c)
    BY <1>1, <2>1, RequestNext DEF CallInv, FoundInv, MissedInv, WelcomeInv
  <2>2. CASE Complete(c)
    BY <1>0, <1>1, <2>2, RequestNext, VerdictsLast DEF CallInv, FoundInv, MissedInv, WelcomeInv, Cause
  <2> QED BY <2>1, <2>2
<1>2. CASE \/ calls'[c].pc \in {"refusing", "refused", "selecting"}
           \/ calls'[c].pc \in {"failing", "out"} /\ calls'[c].why \in Reason
  BY <1>2, RequestNext DEF CallInv, FoundInv, MissedInv, WelcomeInv, Reason
<1>3. CASE Select(c)
  <2>1. calls'[c].pc = "deleting" \/ (calls'[c].pc = "failing" /\ calls'[c].why \in Reason)
    BY <1>0, <1>3 DEF Select, Fail, CallGoto, TypeOK, Reason
  <2> QED BY <1>2, <1>3, <2>1, RequestNext, SelectDecides
          DEF CallInv, FoundInv, MissedInv, WelcomeInv
<1>4. CASE Delete(c)
  <2>1. calls[c] \in Deleting
    BY <1>0, <1>4, CallTypes DEF Delete
  <2>2. CASE calls'[c].pc = "exchanging" /\ calls[c].found /\ calls'[c].seen = calls[c].seen
    BY <1>0, <2>1, <2>2, RequestNext, VerdictsLast
       DEF CallInv, FoundInv, MissedInv, WelcomeInv, Deleting
  <2>3. CASE calls'[c].pc = "failing" /\ ~calls[c].found /\ calls'[c].seen = calls[c].seen
    BY <1>0, <2>1, <2>3, RequestNext, VerdictsLast
       DEF CallInv, FoundInv, MissedInv, WelcomeInv, Deleting, Cause
  <2>4. CASE calls'[c].pc = "failing" /\ calls'[c].why \in Reason
    BY <1>2, <2>4
  <2>5. PICK s : calls'[c] = s /\
          \/ s = [pc |-> "exchanging", req |-> calls[c].req, seen |-> calls[c].seen] /\ calls[c].found
          \/ s = [pc |-> "failing", req |-> calls[c].req, why |-> "state", seen |-> calls[c].seen]
             /\ ~calls[c].found
          \/ s = [pc |-> "failing", req |-> calls[c].req, why |-> "database"]
    BY <1>0, <1>4 DEF Delete, Fail, CallGoto, TypeOK
  <2> QED BY <2>2, <2>3, <2>4, <2>5 DEF Reason
<1>5. CASE Exchange(c) \/ CreateSession(c)
  <2>1. calls[c] \in GoneOn
    BY <1>0, <1>5, CallTypes DEF Exchange, CreateSession
  <2>2. CASE calls'[c].pc = "failing" /\ calls'[c].why \in Reason
    BY <1>2, <2>2
  <2>3. CASE ~(calls'[c].pc = "failing" /\ calls'[c].why \in Reason)
    <3>1. /\ calls'[c].pc \in {"creating", "welcoming"} /\ calls'[c].seen = calls[c].seen
          /\ calls'[c].req = calls[c].req
      <4>1. PICK s : CallGoto(c, s) /\
              \/ s = [calls[c] EXCEPT !.pc = "creating"]
              \/ s = [calls[c] EXCEPT !.pc = "welcoming"]
              \/ s.pc = "failing" /\ s.why \in Reason
        BY <1>5 DEF Exchange, CreateSession, Fail, Reason
      <4>2. calls'[c] = s
        BY <1>0, <4>1 DEF CallGoto, TypeOK
      <4> QED BY <2>1, <2>3, <4>1, <4>2 DEF GoneOn
    <3>2. calls[c].req.code[1] = calls[c].req.state /\ Permits(calls[c].req.code[2])
      <4>1. CASE Exchange(c)
        BY <1>0, <2>3, <4>1 DEF Exchange, Fail, CallGoto, TypeOK, Reason
      <4>2. CASE CreateSession(c)
        BY <1>0, <4>2 DEF CreateSession, CallInv, WelcomeInv
      <4> QED BY <1>5, <4>1, <4>2
    <3> QED BY <1>0, <2>1, <3>1, <3>2, RequestNext, VerdictsLast
            DEF CallInv, FoundInv, MissedInv, WelcomeInv, GoneOn
  <2> QED BY <2>2, <2>3
<1>6. CASE Respond(c)
  <2>1. CASE CallAt(c, "welcoming")
    <3>1. calls[c] \in GoneOn
      BY <1>0, <2>1, CallTypes
    <3>2. /\ calls'[c].pc = "in" /\ calls'[c].seen = calls[c].seen /\ calls'[c].req = calls[c].req
      BY <1>0, <1>6, <2>1, <3>1 DEF Respond, CallGoto, TypeOK, GoneOn
    <3> QED BY <1>0, <2>1, <3>1, <3>2, RequestNext, VerdictsLast
            DEF CallInv, FoundInv, MissedInv, WelcomeInv, GoneOn
  <2>2. CASE CallAt(c, "failing")
    <3>1. calls[c].pc = "failing" /\ calls[c] \in TurnedAway \cup StateRefused
      BY <1>0, <1>6, <2>2, CallTypes DEF Respond
    <3>2. calls'[c] = [calls[c] EXCEPT !.pc = "out"]
      BY <1>0, <1>6, <2>2 DEF Respond, CallGoto, TypeOK
    <3>3. CASE calls[c] \in TurnedAway
      BY <1>2, <3>2, <3>3 DEF TurnedAway
    <3>4. CASE calls[c] \in StateRefused
      <4>1. calls'[c].pc = "out" /\ calls'[c].seen = calls[c].seen /\ calls[c].why = "state"
        BY <3>2, <3>4 DEF StateRefused
      <4> QED BY <1>0, <3>1, <4>1, RequestNext, VerdictsLast
              DEF CallInv, FoundInv, MissedInv, WelcomeInv, Cause
    <3> QED BY <3>1, <3>3, <3>4
  <2>3. CASE CallAt(c, "refusing")
    <3>1. calls[c] \in Incomplete
      BY <1>0, <2>3, CallTypes
    <3>2. calls'[c].pc = "refused"
      BY <1>0, <1>6, <2>3, <3>1 DEF Respond, CallGoto, TypeOK, Incomplete
    <3> QED BY <1>2, <3>2
  <2> QED BY <1>6, <2>1, <2>2, <2>3 DEF Respond
<1> QED BY <1>0, <1>1, <1>2, <1>3, <1>4, <1>5, <1>6, CallSteps

LEMMA FlowNext ==
  ASSUME FlowInv, [Next]_flowVars
  PROVE  FlowInv'
<1>1. TypeOK'
  BY FlowTypeNext DEF FlowInv
<1> QED BY <1>1, RowNext, JarNext, GoneNext, CallNext DEF FlowInv

LEMMA FlowInvariant == Spec => []FlowInv
  BY FlowInit, FlowNext, PTL DEF Spec

\* Only the browser that started a login gets its session, for whom the provider named for it.
THEOREM SessionsForStarters == Spec => []SessionForStarter
<1>1. ASSUME FlowInv, NEW c \in Callback, calls[c].pc \in {"welcoming", "in"}
      PROVE  \E u \in User :
               LET f == calls[c].req.state
               IN Permits(u) /\ <<f, u>> \in codes /\ calls[c].req.code = <<f, u>>
                  /\ starts[f].browser = calls[c].req.browser
  <2>1. TypeOK /\ RequestInv(c) /\ FoundInv(c) /\ WelcomeInv(c)
    BY <1>1 DEF FlowInv, CallInv
  <2>2. calls[c] \in GoneOn
    BY <1>1, <2>1, CallTypes DEF Took
  <2>3. PICK r \in Request : r = calls[c].req
    BY <2>2 DEF GoneOn
  <2>4. PICK f \in Flow, u \in User : r.code = <<f, u>>
    BY DEF Request, Code
  <2>5. f = r.state /\ Permits(u) /\ <<f, u>> \in codes
    BY <1>1, <2>1, <2>3, <2>4 DEF WelcomeInv, RequestInv, Complete
  <2>6. r.cookie = f /\ starts[f].browser = r.browser
    BY <1>1, <2>1, <2>3, <2>5 DEF FoundInv, HasFound, Took, Mixed, RequestInv, Complete
  <2> QED BY <2>3, <2>4, <2>5, <2>6
<1>2. FlowInv => SessionForStarter
  BY <1>1 DEF SessionForStarter
<1> QED BY <1>2, FlowInvariant, PTL

\* No flow is taken after its time, purged or not.
THEOREM FlowsTakenInTime == Spec => []TakenInTime
<1>1. ASSUME FlowInv, NEW c \in Callback, Took(c)
      PROVE  calls[c].seen < starts[calls[c].req.state].seen + FlowTTL
  <2>1. TypeOK /\ RequestInv(c) /\ FoundInv(c)
    BY <1>1 DEF FlowInv, CallInv
  <2>2. calls[c].seen \in Nat /\ calls[c].req.state \in Flow
    BY <1>1, <2>1, CallTypes DEF GoneOn, Request, Time
  <2>3. starts[calls[c].req.state].seen \in Nat
    BY <1>1, <2>1, <2>2, StartTypes DEF RequestInv, StartAt, Took, Complete
  <2> QED BY <1>1, <2>1, <2>2, <2>3 DEF FoundInv, HasFound, Late
<1>2. FlowInv => TakenInTime
  BY <1>1 DEF TakenInTime
<1> QED BY <1>2, FlowInvariant, PTL

\* A state is refused for its cookie, its age or an earlier use.
THEOREM StatesRefusedForCause == Spec => []StateRefusedForCause
<1>1. FlowInv => StateRefusedForCause
  BY DEF FlowInv, CallInv, MissedInv, HasMissed, Cause, Mixed, Late, Forestalled, Past,
         StateRefusedForCause
<1> QED BY <1>1, FlowInvariant, PTL
----
(***************************************************************************)
(* The mutex of a process makes its SELECT and its DELETE of a flow one    *)
(* step for its other callbacks.                                           *)
(***************************************************************************)
Looking(c) == CallAt(c, "deleting")
Together(c, d) == calls[c].req.server = calls[d].req.server
OnceInv ==
  /\ TakenOncePerProcess
  /\ \A c \in Callback, f \in Flow : TookFlow(c, f) => pending[f] = 0
  /\ \A c, d \in Callback : Looking(c) /\ Looking(d) /\ Together(c, d) => c = d
  /\ \A c, d \in Callback :
       Looking(c) /\ calls[c].found /\ Together(c, d) => ~TookFlow(d, calls[c].req.state)

LEMMA TookSteps ==
  ASSUME FlowInv, [Next]_flowVars, NEW c \in Callback, NEW f \in Flow, TookFlow(c, f)'
  PROVE  TookFlow(c, f) \/ (Delete(c) /\ calls[c].found /\ calls[c].req.state = f)
<1>0. TypeOK
  BY DEF FlowInv
<1> USE DEF TookFlow, Took
<1>1. CASE calls'[c] = calls[c]
  BY <1>1
<1>2. CASE Select(c)
  BY <1>0, <1>2 DEF Select, Fail, CallGoto, TypeOK
<1>3. CASE Delete(c)
  BY <1>0, <1>3 DEF Delete, Fail, CallGoto, TypeOK
<1>4. CASE Exchange(c) \/ CreateSession(c)
  <2>1. calls'[c].req = calls[c].req
    BY <1>0, <1>4, CallsLast DEF Exchange, CreateSession, CallAt
  <2> QED BY <1>4, <2>1 DEF Exchange, CreateSession, CallAt
<1>5. CASE Respond(c)
  <2>1. calls'[c].req = calls[c].req
    BY <1>0, <1>5, CallsLast DEF Respond, CallAt
  <2>2. CASE CallAt(c, "failing")
    <3>1. calls[c].pc = "failing" /\ calls[c] \in TurnedAway \cup StateRefused
      BY <1>0, <1>5, <2>2, CallTypes DEF Respond, CallAt
    <3>2. calls'[c] = [calls[c] EXCEPT !.pc = "out"]
      BY <1>0, <1>5, <2>2 DEF Respond, CallAt, CallGoto, TypeOK
    <3> QED BY <3>1, <3>2 DEF TurnedAway, StateRefused
  <2>3. CASE CallAt(c, "refusing")
    <3>1. calls[c] \in Incomplete
      BY <1>0, <2>3, CallTypes DEF CallAt
    <3>2. calls'[c] = [calls[c] EXCEPT !.pc = "refused"]
      BY <1>0, <1>5, <2>3 DEF Respond, CallAt, CallGoto, TypeOK
    <3> QED BY <3>1, <3>2 DEF Incomplete
  <2> QED BY <1>5, <2>1, <2>2, <2>3 DEF Respond, CallAt
<1>6. CASE \/ calls'[c].pc \in {"refusing", "refused", "selecting"}
           \/ calls'[c].pc \in {"failing", "out"} /\ calls'[c].why \in Reason
  BY <1>6
<1> QED BY <1>0, <1>1, <1>2, <1>3, <1>4, <1>5, <1>6, CallSteps

LEMMA LookingSteps ==
  ASSUME FlowInv, [Next]_flowVars, NEW c \in Callback, Looking(c)'
  PROVE  calls'[c] = calls[c] \/ Select(c)
<1>0. TypeOK
  BY DEF FlowInv
<1> USE DEF Looking, CallAt
<1>1. CASE Delete(c)
  BY <1>0, <1>1 DEF Delete, Fail, CallGoto, TypeOK
<1>2. CASE Exchange(c) \/ CreateSession(c)
  <2>1. calls[c] \in GoneOn
    BY <1>0, <1>2, CallTypes DEF Exchange, CreateSession, Took
  <2> QED BY <1>0, <1>2, <2>1 DEF Exchange, CreateSession, Fail, CallGoto, TypeOK, GoneOn
<1>3. CASE Respond(c)
  <2>1. calls[c] \in GoneOn \cup TurnedAway \cup StateRefused \cup Incomplete
    BY <1>0, <1>3, CallTypes DEF Respond, Took
  <2> QED BY <1>0, <1>3, <2>1
          DEF Respond, CallGoto, TypeOK, GoneOn, TurnedAway, StateRefused, Incomplete
<1> QED BY <1>0, <1>1, <1>2, <1>3, CallSteps

LEMMA OnceNext ==
  ASSUME FlowInv, OnceInv, [Next]_flowVars
  PROVE  OnceInv'
<1>0. TypeOK
  BY DEF FlowInv
\* Whose callbacks are together stays so.
<1>1. ASSUME NEW c \in Callback, NEW d \in Callback, Complete(c), Complete(d), Together(c, d)'
      PROVE  Together(c, d)
  BY <1>0, <1>1, CallsLast DEF Together, Complete
\* Who looks keeps the others of its process from looking.
<1>2. ASSUME NEW c \in Callback, Select(c), NEW d \in Callback, Together(c, d) PROVE ~Looking(d)
  <2>1. ASSUME Looking(d) PROVE FALSE
    <3>1. calls[c].req.server \in Server
      BY <1>0, <1>2, CallTypes DEF Select, CallAt, Request, Complete
    <3> QED BY <1>2, <2>1, <3>1 DEF Select, Locked, Looking, Together
  <2> QED BY <2>1
<1>3. ASSUME NEW c \in Callback, NEW f \in Flow, TookFlow(c, f)' PROVE pending'[f] = 0
  <2>1. CASE Delete(c) /\ calls[c].found /\ calls[c].req.state = f
    <3>1. calls'[c].pc # "failing"
      BY <1>3 DEF TookFlow, Took
    <3> QED BY <1>0, <2>1, <3>1 DEF Delete, Fail, CallGoto, TypeOK
  <2>2. CASE TookFlow(c, f)
    <3>1. pending[f] = 0 /\ StartAt(f, "sent")
      BY <2>2 DEF OnceInv, FlowInv, CallInv, RequestInv, TookFlow, Took, Complete
    <3>2. pending'[f] \in {0, pending[f]} \/ StoreFlow(f)
      BY <1>0 DEF Next, flowVars, BeginStart, Purge, StoreFlow, Redirect, Arrive,
             ArriveIncomplete, Select, Delete, Exchange, CreateSession, Respond, Authorize, Tick,
             Restart, TypeOK
    <3> QED BY <3>1, <3>2 DEF StoreFlow, StartAt
  <2> QED BY <1>3, <2>1, <2>2, TookSteps
<1>4. ASSUME NEW c \in Callback, Looking(c)' PROVE Complete(c)
  BY <1>4, LookingSteps DEF Looking, CallAt, Select, Complete
<1>5. ASSUME NEW c \in Callback, NEW f \in Flow, TookFlow(c, f)' PROVE Complete(c)
  BY <1>5, TookSteps DEF TookFlow, Took, Delete, CallAt, Complete
<1>6. ASSUME NEW c \in Callback, NEW d \in Callback, Looking(c)', Looking(d)', Together(c, d)'
      PROVE  c = d
  <2>1. (calls'[c] = calls[c] \/ Select(c)) /\ (calls'[d] = calls[d] \/ Select(d))
    BY <1>6, LookingSteps
  <2>2. Together(c, d) /\ Together(d, c)
    BY <1>1, <1>4, <1>6 DEF Together
  <2>3. CASE calls'[c] = calls[c] /\ calls'[d] = calls[d]
    BY <1>6, <2>2, <2>3 DEF OnceInv, Looking, CallAt
  <2>4. ASSUME NEW a \in Callback, NEW b \in Callback, Select(a), Looking(b)', Together(a, b)
        PROVE  b = a
    <3>1. b # a => calls'[b] = calls[b]
      BY <1>0, <2>4 DEF Select, Fail, CallGoto, TypeOK
    <3>2. ~Looking(b)
      BY <1>2, <2>4
    <3> QED BY <2>4, <3>1, <3>2 DEF Looking, CallAt
  <2> QED BY <1>6, <2>1, <2>2, <2>3, <2>4
<1>7. ASSUME NEW c \in Callback, NEW d \in Callback, Looking(c)', calls'[c].found,
             Together(c, d)', TookFlow(d, calls[c].req.state)'
      PROVE  FALSE
  <2>1. Complete(c)
    BY <1>4, <1>7
  <2>2. PICK f \in Flow : f = calls[c].req.state
    BY <1>0, <2>1, CallTypes DEF Request
  <2>3. calls'[c].req.state = f /\ TookFlow(d, f)'
    BY <1>0, <1>7, <2>1, <2>2, CallsLast DEF TookFlow, Took, Complete
  <2>4. Together(c, d) /\ Together(d, c)
    BY <1>1, <1>5, <1>7, <2>1, <2>3 DEF Together
  <2>5. CASE Select(c)
    <3>1. pending[f] # 0
      <4>1. ~Mixed(c)' /\ ~Late(c)'
        BY <1>7, <2>5, SelectDecides DEF Looking
      <4>2. calls'[c] = [pc |-> "deleting", req |-> calls[c].req, seen |-> now,
                  found |-> calls[c].req.cookie = calls[c].req.state /\ pending[calls[c].req.state] > now]
        BY <1>0, <1>7, <2>5 DEF Select, Fail, CallGoto, Looking, CallAt, TypeOK
      <4>3. PICK ok \in BOOLEAN :
              /\ ok = (calls[c].req.cookie = calls[c].req.state /\ pending[calls[c].req.state] > now)
              /\ calls'[c] = [pc |-> "deleting", req |-> calls[c].req, seen |-> now, found |-> ok]
        BY <4>2, Zenon
      <4>4. ok
        BY <1>7, <4>3
      <4>5. pending[f] > now
        BY <2>2, <4>3, <4>4, Zenon
      <4> QED BY <1>0, <4>5 DEF TypeOK, Time
    <3>2. ~TookFlow(d, f) /\ ~Delete(d)
      BY <1>2, <2>4, <2>5, <3>1 DEF OnceInv, Delete, Looking
    <3> QED BY <2>3, <3>2, TookSteps
  <2>6. CASE calls'[c] = calls[c]
    <3>1. Looking(c) /\ calls[c].found
      BY <1>7, <2>6 DEF Looking, CallAt
    <3>2. ~TookFlow(d, f)
      BY <2>2, <2>4, <3>1 DEF OnceInv
    <3>3. Delete(d)
      BY <2>3, <3>2, TookSteps
    <3>4. d = c
      BY <2>4, <3>1, <3>3 DEF OnceInv, Delete, Looking
    <3> QED BY <1>7, <2>3, <3>4 DEF TookFlow, Took, Looking, CallAt
  <2> QED BY <1>7, <2>5, <2>6, LookingSteps
<1>8. ASSUME NEW c \in Callback, NEW d \in Callback, NEW f \in Flow,
             TookFlow(c, f)', TookFlow(d, f)', Together(c, d)'
      PROVE  c = d
  <2>1. Together(c, d) /\ Together(d, c)
    BY <1>1, <1>5, <1>8 DEF Together
  <2>2. ASSUME NEW a \in Callback, NEW b \in Callback, TookFlow(a, f), Together(b, a),
               Delete(b), calls[b].found, calls[b].req.state = f
        PROVE  FALSE
    BY <2>2 DEF OnceInv, Delete, Looking
  <2>3. CASE TookFlow(c, f) /\ TookFlow(d, f)
    BY <2>1, <2>3 DEF OnceInv, TakenOncePerProcess, Together
  <2>4. CASE Delete(c) /\ Delete(d)
    BY <2>1, <2>4 DEF OnceInv, Delete, Looking
  <2> QED BY <1>8, <2>1, <2>2, <2>3, <2>4, TookSteps
<1>9. TakenOncePerProcess'
  BY <1>8 DEF TakenOncePerProcess, Together
<1>10. \A c, d \in Callback : (Looking(c) /\ calls[c].found /\ Together(c, d))'
         => ~TookFlow(d, calls[c].req.state)'
  <2> SUFFICES ASSUME NEW c \in Callback, NEW d \in Callback, Looking(c)', calls'[c].found,
                      Together(c, d)', TookFlow(d, calls[c].req.state)'
               PROVE  FALSE
    OBVIOUS
  <2> QED BY <1>7
<1> QED BY <1>3, <1>6, <1>9, <1>10 DEF OnceInv

\* No process takes a flow twice, however many there are; two processes may both take it
\* (OidcFlow_instances shows how).
THEOREM ProcessesTakeOnce == Spec => []TakenOncePerProcess
<1>1. Init => OnceInv
  BY DEF Init, OnceInv, TakenOncePerProcess, TookFlow, Took, Looking, CallAt
<1>2. FlowInv /\ OnceInv /\ [Next]_flowVars => OnceInv'
  BY OnceNext
<1>3. OnceInv => TakenOncePerProcess
  BY DEF OnceInv
<1> QED BY <1>1, <1>2, <1>3, FlowInvariant, PTL DEF Spec

\* With one process a flow is taken once: the promise of the documentation.
THEOREM OneProcessTakesOnce ==
  ASSUME \A i, j \in Server : i = j
  PROVE  Spec => []FlowTakenOnce
<1>1. TypeOK /\ TakenOncePerProcess => FlowTakenOnce
  <2> SUFFICES ASSUME TypeOK, TakenOncePerProcess, NEW f \in Flow, NEW c \in Callback,
                      NEW d \in Callback, TookFlow(c, f), TookFlow(d, f)
               PROVE  c = d
    BY DEF FlowTakenOnce
  <2>1. calls[c].req.server \in Server /\ calls[d].req.server \in Server
    BY CallTypes DEF TookFlow, Took, Request, Complete
  <2> QED BY <2>1 DEF TakenOncePerProcess
<1>2. FlowInv => TypeOK
  BY DEF FlowInv
<1> QED BY <1>1, <1>2, FlowInvariant, ProcessesTakeOnce, PTL
=============================================================================
