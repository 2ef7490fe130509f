------------------------------ MODULE OidcFlow ------------------------------
(***************************************************************************)
(* Organization login (security/oidc.rs): GET /auth/oidc/start stores a    *)
(* pending flow and sends the browser to the provider; the callback takes  *)
(* the flow, asks the provider who logged in, and makes a session.  The    *)
(* database mutex of a process is held over the statements of one store or *)
(* one take; processes that share the database interleave statement by     *)
(* statement.  What becomes of a session is in Sessions.                   *)
(***************************************************************************)
EXTENDS Naturals, FiniteSets

CONSTANTS
  Server,     \* processes that share one database and one configured secret
  Browser,
  Flow,       \* logins: each draws a state, a flow token, a nonce and a verifier of its own
  NoFlow,
  Callback,   \* requests to the callback; each is made once
  User,       \* identities at the provider, by their subject
  NoEmail,
  Email,      \* the email claim of each, in lower case, or NoEmail
  AllowedSubjects, AllowedEmails,
  FlowTTL,    \* PENDING_FLOW_MINUTES
  DbFaults,   \* whether a statement may fail
  MaxTime     \* bound of the model: the last reading of the clock

ASSUME FlowAssumption == NoFlow \notin Flow
ASSUME EmailAssumption == DOMAIN Email = User /\ NoEmail \notin AllowedEmails
ASSUME FlowClockAssumption == FlowTTL \in Nat /\ MaxTime \in Nat
ASSUME FlowFaultsAssumption == DbFaults \in BOOLEAN

VARIABLES
  starts,   \* each login: the progress of the request that starts it
  calls,    \* each callback: its progress, then its answer
  pending,  \* oidc_pending_flows: when the row of each login expires, 0 without a row
  jar,      \* the flow cookie of each browser
  codes,    \* the provider: who logged in for which login
  now       \* Utc::now()

flowVars == <<starts, calls, pending, jar, codes, now>>
----
Time == 0..MaxTime
Code == Flow \X User

\* OidcConfig.permits: without a list everybody, or else whom one of the lists names.
Permits(u) ==
  \/ AllowedSubjects = {} /\ AllowedEmails = {}
  \/ u \in AllowedSubjects
  \/ Email[u] \in AllowedEmails

Start ==
  [pc : {"unused"}] \cup
  [pc : {"storing", "redirecting", "sent", "failed"}, server : Server, browser : Browser,
   seen : Time]

\* A callback carries a state, a code and a flow cookie, or is refused for what it lacks;
\* seen is the reading of the clock under the mutex.
Sender == [server : Server, browser : Browser]
Request == [server : Server, browser : Browser, cookie : Flow, state : Flow, code : Code]
Reason == {"database", "provider", "forbidden", "cut"}
Call ==
  [pc : {"unused"}] \cup
  [pc : {"refusing", "refused"}, req : Sender] \cup
  [pc : {"selecting"}, req : Request] \cup
  [pc : {"deleting"}, req : Request, seen : Time, found : BOOLEAN] \cup
  [pc : {"exchanging", "creating", "welcoming", "in"}, req : Request, seen : Time] \cup
  [pc : {"failing", "out"}, req : Request, why : Reason] \cup
  [pc : {"failing", "out"}, req : Request, why : {"state"}, seen : Time]

Init ==
  /\ starts = [f \in Flow |-> [pc |-> "unused"]]
  /\ calls = [c \in Callback |-> [pc |-> "unused"]]
  /\ pending = [f \in Flow |-> 0]
  /\ jar = [b \in Browser |-> NoFlow]
  /\ codes = {}
  /\ now = 0

StartAt(f, pc) == starts[f].pc = pc
StartGoto(f, pc) == starts' = [starts EXCEPT ![f].pc = pc]
CallAt(c, pc) == calls[c].pc = pc
CallGoto(c, s) == calls' = [calls EXCEPT ![c] = s]
Fail(c, why) == CallGoto(c, [pc |-> "failing", req |-> calls[c].req, why |-> why])

\* The mutex of a process is taken between the two statements of a store or of a take.
Locked(i) ==
  \/ \E f \in Flow : StartAt(f, "storing") /\ starts[f].server = i
  \/ \E c \in Callback : CallAt(c, "deleting") /\ calls[c].req.server = i
----
(***************************************************************************)
(* oidc_start, from the answer of the provider's discovery on: before it,  *)
(* and when it fails, nothing changes.                                     *)
(***************************************************************************)

\* Mutant: every row is taken for expired.
PurgeAll == pending' = [f \in Flow |-> 0]

\* DELETE FROM oidc_pending_flows WHERE expires_at <= now
Purge == pending' = [f \in Flow |-> IF pending[f] <= now THEN 0 ELSE pending[f]]

\* Draw the secrets of a login, and delete the rows that expired.
BeginStart(f, i, b) ==
  /\ StartAt(f, "unused")
  /\ ~Locked(i)
  /\ \/ /\ Purge
        /\ starts' = [starts EXCEPT ![f] =
                        [pc |-> "storing", server |-> i, browser |-> b, seen |-> now]]
     \/ /\ DbFaults
        /\ starts' = [starts EXCEPT ![f] =
                        [pc |-> "failed", server |-> i, browser |-> b, seen |-> now]]
        /\ pending' = pending
  /\ UNCHANGED <<calls, jar, codes, now>>

\* INSERT the row of the login.
StoreFlow(f) ==
  /\ StartAt(f, "storing")
  /\ \/ /\ pending' = [pending EXCEPT ![f] = starts[f].seen + FlowTTL]
        /\ StartGoto(f, "redirecting")
     \/ /\ DbFaults
        /\ StartGoto(f, "failed")
        /\ pending' = pending
  /\ UNCHANGED <<calls, jar, codes, now>>

\* The redirection reaches the browser, with the flow cookie.
Redirect(f) ==
  /\ StartAt(f, "redirecting")
  /\ StartGoto(f, "sent")
  /\ jar' = [jar EXCEPT ![starts[f].browser] = f]
  /\ UNCHANGED <<calls, pending, codes, now>>
----
(***************************************************************************)
(* oidc_callback.                                                          *)
(***************************************************************************)

\* A browser calls back with an error, or without a state, a code or a cookie: it is refused
\* whatever else it carries, and whatever login it is about stays pending.
ArriveIncomplete(c, i, b) ==
  /\ CallAt(c, "unused")
  /\ CallGoto(c, [pc |-> "refusing", req |-> [server |-> i, browser |-> b]])
  /\ UNCHANGED <<starts, pending, jar, codes, now>>

\* A browser calls back with a state and a code that exist, of one login or of two.
Arrive(c, i, b, f, code) ==
  /\ CallAt(c, "unused")
  /\ StartAt(f, "sent")
  /\ jar[b] # NoFlow
  /\ CallGoto(c, [pc |-> "selecting",
                  req |-> [server |-> i, browser |-> b, cookie |-> jar[b], state |-> f,
                           code |-> code]])
  /\ UNCHANGED <<starts, pending, jar, codes, now>>

\* Mutant: the row is found by the state alone.
SelectByState(c) ==
  /\ CallAt(c, "selecting")
  /\ ~Locked(calls[c].req.server)
  /\ CallGoto(c, [pc |-> "deleting", req |-> calls[c].req, seen |-> now,
                  found |-> pending[calls[c].req.state] > now])
  /\ UNCHANGED <<starts, pending, jar, codes, now>>

\* Mutant: a row counts whatever its age.
SelectAnyAge(c) ==
  /\ CallAt(c, "selecting")
  /\ ~Locked(calls[c].req.server)
  /\ LET r == calls[c].req
     IN CallGoto(c, [pc |-> "deleting", req |-> r, seen |-> now,
                     found |-> r.cookie = r.state /\ pending[r.state] # 0])
  /\ UNCHANGED <<starts, pending, jar, codes, now>>

\* take_pending_flow: SELECT by the digests of the state and of the cookie; the age counts.
Select(c) ==
  /\ CallAt(c, "selecting")
  /\ ~Locked(calls[c].req.server)
  /\ LET r == calls[c].req
     IN \/ CallGoto(c, [pc |-> "deleting", req |-> r, seen |-> now,
                        found |-> r.cookie = r.state /\ pending[r.state] > now])
        \/ DbFaults /\ Fail(c, "database")
  /\ UNCHANGED <<starts, pending, jar, codes, now>>

\* Mutant: the row is left to expire.
DeleteNothing(c) ==
  /\ CallAt(c, "deleting")
  /\ CallGoto(c, IF calls[c].found
                 THEN [pc |-> "exchanging", req |-> calls[c].req, seen |-> calls[c].seen]
                 ELSE [pc |-> "failing", req |-> calls[c].req, why |-> "state",
                       seen |-> calls[c].seen])
  /\ UNCHANGED <<starts, pending, jar, codes, now>>

\* take_pending_flow: DELETE by the state, whoever presented it.
Delete(c) ==
  /\ CallAt(c, "deleting")
  /\ LET r == calls[c].req
     IN \/ /\ pending' = [pending EXCEPT ![r.state] = 0]
           /\ CallGoto(c, IF calls[c].found
                          THEN [pc |-> "exchanging", req |-> r, seen |-> calls[c].seen]
                          ELSE [pc |-> "failing", req |-> r, why |-> "state",
                                seen |-> calls[c].seen])
        \/ /\ DbFaults
           /\ Fail(c, "database")
           /\ pending' = pending
  /\ UNCHANGED <<starts, jar, codes, now>>

\* The provider is asked; it may be down, refuse, or answer.  The nonce must be the one of
\* the flow that was taken, and the identity one that may log in.  The verifier goes along,
\* but no provider is relied on to check it, or to honour a code once.
Exchange(c) ==
  /\ CallAt(c, "exchanging")
  /\ LET r == calls[c].req
     IN \/ Fail(c, "provider")
        \/ /\ r.code[1] = r.state
           /\ IF Permits(r.code[2]) THEN CallGoto(c, [calls[c] EXCEPT !.pc = "creating"])
              ELSE Fail(c, "forbidden")
  /\ UNCHANGED <<starts, pending, jar, codes, now>>

\* create_session_cookie.
CreateSession(c) ==
  /\ CallAt(c, "creating")
  /\ ~Locked(calls[c].req.server)
  /\ \/ CallGoto(c, [calls[c] EXCEPT !.pc = "welcoming"])
     \/ DbFaults /\ Fail(c, "database")
  /\ UNCHANGED <<starts, pending, jar, codes, now>>

\* Every answer expires the flow cookie, whichever it is by now.
Respond(c) ==
  /\ \/ CallAt(c, "welcoming") /\ CallGoto(c, [calls[c] EXCEPT !.pc = "in"])
     \/ CallAt(c, "failing") /\ CallGoto(c, [calls[c] EXCEPT !.pc = "out"])
     \/ CallAt(c, "refusing") /\ CallGoto(c, [calls[c] EXCEPT !.pc = "refused"])
  /\ jar' = [jar EXCEPT ![calls[c].req.browser] = NoFlow]
  /\ UNCHANGED <<starts, pending, codes, now>>
----
\* The user of a browser logs in at the provider, for a login that was sent there.
Authorize(f, u) ==
  /\ StartAt(f, "sent")
  /\ codes' = codes \cup {<<f, u>>}
  /\ UNCHANGED <<starts, calls, pending, jar, now>>

Tick ==
  /\ now < MaxTime
  /\ now' = now + 1
  /\ UNCHANGED <<starts, calls, pending, jar, codes>>

CallOpen(c) ==
  calls[c].pc \in {"selecting", "deleting", "exchanging", "creating", "welcoming", "failing"}
CutFrom(c, i) == CallOpen(c) /\ calls[c].req.server = i

\* Mutant: a request that was cut has no outcome.
CutUndecided(i) ==
  [c \in Callback |-> IF CutFrom(c, i) THEN [calls[c] EXCEPT !.pc = "out"] ELSE calls[c]]

\* A request that was cut; one that was being refused never went further than that.
Cut(i) ==
  [c \in Callback |->
     IF CutFrom(c, i) THEN [pc |-> "out", req |-> calls[c].req, why |-> "cut"]
     ELSE IF CallAt(c, "refusing") /\ calls[c].req.server = i
     THEN [calls[c] EXCEPT !.pc = "refused"] ELSE calls[c]]

\* A process dies with its requests; rows and cookies stay, and so does the secret.
Restart(i) ==
  /\ starts' = [f \in Flow |->
       IF starts[f].pc \in {"storing", "redirecting"} /\ starts[f].server = i
       THEN [starts[f] EXCEPT !.pc = "failed"] ELSE starts[f]]
  /\ calls' = Cut(i)
  /\ UNCHANGED <<pending, jar, codes, now>>

Next ==
  \/ \E f \in Flow, i \in Server, b \in Browser : BeginStart(f, i, b)
  \/ \E f \in Flow : StoreFlow(f) \/ Redirect(f)
  \/ \E c \in Callback, i \in Server, b \in Browser : ArriveIncomplete(c, i, b)
  \/ \E c \in Callback, i \in Server, b \in Browser, f \in Flow, code \in codes :
       Arrive(c, i, b, f, code)
  \/ \E c \in Callback : Select(c) \/ Delete(c) \/ Exchange(c) \/ CreateSession(c) \/ Respond(c)
  \/ \E f \in Flow, u \in User : Authorize(f, u)
  \/ Tick
  \/ \E i \in Server : Restart(i)

Spec == Init /\ [][Next]_flowVars
----
(***************************************************************************)
(* Properties.                                                             *)
(***************************************************************************)
TypeOK ==
  /\ starts \in [Flow -> Start]
  /\ calls \in [Callback -> Call]
  /\ pending \in [Flow -> Nat]
  /\ jar \in [Browser -> Flow \cup {NoFlow}]
  /\ codes \subseteq Code
  /\ now \in Time

\* The callbacks that went on with a flow; what the provider then says is another matter.
Took(c) == calls[c].pc \in {"exchanging", "creating", "welcoming", "in"}
TookFlow(c, f) == Took(c) /\ calls[c].req.state = f

\* OIDC state is one-time (docs-security.md): no two callbacks go on with the same flow.
FlowTakenOnce ==
  \A f \in Flow : \A c, d \in Callback : TookFlow(c, f) /\ TookFlow(d, f) => c = d

\* Within a process it is one-time, whatever the other processes on the database do.
TakenOncePerProcess ==
  \A f \in Flow : \A c, d \in Callback :
    TookFlow(c, f) /\ TookFlow(d, f) /\ calls[c].req.server = calls[d].req.server => c = d

\* OIDC state is browser-bound: who gets a session is the browser that started the login,
\* for a permitted identity that logged in at the provider for that very login, whatever
\* states, codes and cookies were mixed up, and whatever the provider checks.
SessionForStarter ==
  \A c \in Callback : calls[c].pc \in {"welcoming", "in"} =>
    \E u \in User :
      LET f == calls[c].req.state
      IN Permits(u) /\ <<f, u>> \in codes /\ calls[c].req.code = <<f, u>>
         /\ starts[f].browser = calls[c].req.browser

\* OIDC state is short lived, also where the purge of expired rows has not come.
TakenInTime ==
  \A c \in Callback : Took(c) =>
    calls[c].seen < starts[calls[c].req.state].seen + FlowTTL

\* A callback that came as far as the row of its flow, or was cut.
Presented(d) == calls[d].pc \notin {"unused", "refusing", "refused", "selecting"}

\* A callback fails its state check only because it came late, with the cookie of another
\* login, or after another callback that presented the same state: not because other logins
\* start, expire or fail, because a callback was refused for what it lacked, or because a
\* process restarts.  (With a configured secret: a drawn one ends the pending flows of its
\* process when that restarts.)
StateRefusedForCause ==
  \A c \in Callback : calls[c].pc \in {"failing", "out"} /\ calls[c].why = "state" =>
    LET r == calls[c].req
    IN \/ r.cookie # r.state
       \/ calls[c].seen >= starts[r.state].seen + FlowTTL
       \/ \E d \in Callback \ {c} : Presented(d) /\ calls[d].req.state = r.state
=============================================================================
