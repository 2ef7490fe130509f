------------------------------ MODULE Sessions ------------------------------
(***************************************************************************)
(* The sessions of security/auth.rs: processes that share a database make, *)
(* verify and end them.  In one process the database mutex is held over    *)
(* the statements of a call; two processes interleave statement by         *)
(* statement.                                                              *)
(***************************************************************************)
EXTENDS Naturals

CONSTANTS
  Server,      \* processes that share one database
  Token,       \* session tokens: random_token draws none twice
  LocalTTL,    \* LOCAL_SESSION_DAYS
  OidcTTL,     \* OIDC_SESSION_HOURS
  DbFaults,    \* whether a statement may fail
  MaxSecrets,  \* bound of the model: ephemeral secrets that are drawn
  MaxTime      \* bound of the model: the last reading of the clock

ASSUME SessionTTLAssumption == LocalTTL \in Nat /\ OidcTTL \in Nat
ASSUME SessionFaultsAssumption == DbFaults \in BOOLEAN
ASSUME SessionBoundsAssumption == MaxSecrets \in Nat /\ MaxTime \in Nat

VARIABLES
  secret,   \* cookie_secret of each process: 0 is the one they are configured with
  drawn,    \* how many ephemeral secrets were drawn
  rows,     \* auth_sessions: what is stored under the digest of each token
  call,     \* the call of each process that uses the table, then its outcome
  now,      \* Utc::now()
  history   \* what became of each token; the code keeps no such thing

sessionVars == <<secret, drawn, rows, call, now, history>>
----
Method == {"local", "oidc"}
TTL(method) == IF method = "oidc" THEN OidcTTL ELSE LocalTTL
Secret == 0..MaxSecrets
Time == 0..MaxTime

\* The digest is keyed: a row answers only to the secret it was stored with.
Row == [secret : Secret, expires : Nat]
NoRow == [expires |-> 0]

Outcome == {"done", "granted", "refused"}
Creating == [pc : {"inserting"}, token : Token, method : Method, seen : Time]
Verifying == [pc : {"selecting", "granted", "refused"}, token : Token, seen : Time]
Done == [pc : {"done"}]
Call == Creating \cup Verifying \cup Done

Unused == [state |-> "unused"]
Drawn == [state |-> "drawn"]
Session == [state : {"open", "closed"}, secret : Secret, method : Method, at : Time]

Free(i) == call[i].pc \in Outcome
Answer(i, c) == call' = [call EXCEPT ![i] = c]
Stored(t) == rows[t] # NoRow
Found(i, t) == Stored(t) /\ rows[t].secret = secret[i]

\* Mutant: the boundary of the purge is off by one.
PurgedEarly(reading) ==
  [t \in Token |-> IF rows[t].expires <= reading + 1 THEN NoRow ELSE rows[t]]

\* The DELETE of expired rows that comes first in every use of the table.
Purged(reading) == [t \in Token |-> IF rows[t].expires <= reading THEN NoRow ELSE rows[t]]

\* A process has a valid YTDLP_WEB_COOKIE_SECRET, or else draws a secret of its own.
Init ==
  /\ drawn \in Secret
  /\ secret \in [Server -> 0..drawn]
  /\ \A k \in 1..drawn : \E i \in Server : secret[i] = k
  /\ \A i, j \in Server : secret[i] = secret[j] /\ secret[i] # 0 => i = j
  /\ rows = [t \in Token |-> NoRow]
  /\ call = [i \in Server |-> [pc |-> "done"]]
  /\ now = 0
  /\ history = [t \in Token |-> Unused]
----
\* create_session_cookie, after the password or the provider was satisfied: draw a token and
\* delete what expired; a failure makes the login a 500.
BeginCreate(i, t, method) ==
  /\ Free(i)
  /\ history[t] = Unused
  /\ history' = [history EXCEPT ![t] = Drawn]
  /\ \/ /\ rows' = Purged(now)
        /\ Answer(i, [pc |-> "inserting", token |-> t, method |-> method, seen |-> now])
     \/ /\ DbFaults
        /\ rows' = rows
        /\ Answer(i, [pc |-> "done"])
  /\ UNCHANGED <<secret, drawn, now>>

\* Mutant: the digest is of the token alone.
InsertUnkeyed(i) ==
  /\ call[i].pc = "inserting"
  /\ rows' = [rows EXCEPT ![call[i].token] = [expires |-> call[i].seen + TTL(call[i].method)]]
  /\ Answer(i, [pc |-> "done"])
  /\ UNCHANGED <<secret, drawn, now, history>>

\* The INSERT, with an expiry computed from the reading at the start.
Insert(i) ==
  /\ call[i].pc = "inserting"
  /\ LET c == call[i]
     IN \/ /\ rows' = [rows EXCEPT ![c.token] =
                         [secret |-> secret[i], expires |-> c.seen + TTL(c.method)]]
           /\ history' = [history EXCEPT ![c.token] =
                            [state |-> "open", secret |-> secret[i], method |-> c.method,
                             at |-> c.seen]]
           /\ Answer(i, [pc |-> "done"])
        \/ /\ DbFaults
           /\ Answer(i, [pc |-> "done"])
           /\ UNCHANGED <<rows, history>>
  /\ UNCHANGED <<secret, drawn, now>>

\* verify_session for the cookie of a client, whether or not a session was stored for it:
\* delete what expired; a failure counts as no session.
BeginVerify(i, t) ==
  /\ Free(i)
  /\ history[t] # Unused
  /\ \/ /\ rows' = Purged(now)
        /\ Answer(i, [pc |-> "selecting", token |-> t, seen |-> now])
     \/ /\ DbFaults
        /\ rows' = rows
        /\ Answer(i, [pc |-> "done"])
  /\ UNCHANGED <<secret, drawn, now, history>>

\* Mutant: the row is found without the secret.
SelectUnkeyed(i) ==
  /\ call[i].pc = "selecting"
  /\ LET c == call[i]
         granted == Stored(c.token) /\ rows[c.token].expires > c.seen
     IN Answer(i, [pc |-> IF granted THEN "granted" ELSE "refused",
                   token |-> c.token, seen |-> c.seen])
  /\ UNCHANGED <<secret, drawn, rows, now, history>>

\* Mutant: a request that finds its session prolongs it.
SelectAndRenew(i) ==
  /\ call[i].pc = "selecting"
  /\ LET c == call[i]
         granted == Found(i, c.token) /\ rows[c.token].expires > c.seen
     IN /\ Answer(i, [pc |-> IF granted THEN "granted" ELSE "refused",
                      token |-> c.token, seen |-> c.seen])
        /\ rows' = IF granted THEN [rows EXCEPT ![c.token].expires = c.seen + LocalTTL]
                   ELSE rows
  /\ UNCHANGED <<secret, drawn, now, history>>

\* The SELECT, and access: the session is granted while its row is unexpired.
Select(i) ==
  /\ call[i].pc = "selecting"
  /\ LET c == call[i]
         granted == Found(i, c.token) /\ rows[c.token].expires > c.seen
     IN \/ Answer(i, [pc |-> IF granted THEN "granted" ELSE "refused",
                      token |-> c.token, seen |-> c.seen])
        \/ DbFaults /\ Answer(i, [pc |-> "done"])
  /\ UNCHANGED <<secret, drawn, rows, now, history>>

\* logout_post: one DELETE, whose failure nobody sees.  History closes a session when its
\* row is gone.
Logout(i, t) ==
  /\ Free(i)
  /\ history[t] # Unused
  /\ \/ /\ Found(i, t)
        /\ rows' = [rows EXCEPT ![t] = NoRow]
        /\ history' = [history EXCEPT ![t].state = "closed"]
     \/ (DbFaults \/ ~Found(i, t)) /\ UNCHANGED <<rows, history>>
  /\ Answer(i, [pc |-> "done"])
  /\ UNCHANGED <<secret, drawn, now>>

Tick ==
  /\ now < MaxTime
  /\ now' = now + 1
  /\ UNCHANGED <<secret, drawn, rows, call, history>>

\* A process restarts: its call is cut, and a secret that is not configured is drawn anew.
Restart(i) ==
  /\ \/ secret[i] = 0 /\ UNCHANGED <<secret, drawn>>
     \/ /\ secret[i] # 0
        /\ drawn < MaxSecrets
        /\ drawn' = drawn + 1
        /\ secret' = [secret EXCEPT ![i] = drawn']
  /\ Answer(i, [pc |-> "done"])
  /\ UNCHANGED <<rows, now, history>>

Next ==
  \/ \E i \in Server, t \in Token, method \in Method : BeginCreate(i, t, method)
  \/ \E i \in Server, t \in Token : BeginVerify(i, t) \/ Logout(i, t)
  \/ \E i \in Server : Insert(i) \/ Select(i) \/ Restart(i)
  \/ Tick

Spec == Init /\ [][Next]_sessionVars
----
(***************************************************************************)
(* Properties.                                                             *)
(***************************************************************************)
TypeOK ==
  /\ secret \in [Server -> Secret]
  /\ drawn \in Secret
  /\ rows \in [Token -> Row \cup {NoRow}]
  /\ call \in [Server -> Call]
  /\ now \in Time
  /\ history \in [Token -> {Unused, Drawn} \cup Session]

Verdict(i, pc) == call'[i] # call[i] /\ call'[i].pc = pc

\* By history alone: open, made under the secret of this process, and young enough for how
\* its holder logged in.
Alive(i, t, reading) ==
  /\ history[t].state = "open"
  /\ history[t].secret = secret[i]
  /\ reading < history[t].at + TTL(history[t].method)

\* No process grants a request whose session was logged out anywhere, had expired when the
\* request came, or was made under a secret that died with its process.
GrantsOnlyLive ==
  [][\A i \in Server : Verdict(i, "granted") => Alive(i, call'[i].token, call'[i].seen)]_sessionVars

\* Whatever the other processes purge, insert and delete in between, a request whose session
\* still lives is not turned away, unless a statement of its own failed.
LiveNotTurnedAway ==
  [][\A i \in Server : Verdict(i, "refused") => ~Alive(i, call'[i].token, now)]_sessionVars

\* The abstract state of a session, from the table: what the secrets in use can find.
Usable(k) == k = 0 \/ \E i \in Server : secret[i] = k
LifeOf(t) ==
  IF history[t] \notin Session THEN "unused"
  ELSE IF Stored(t) /\ Usable(rows[t].secret) /\ rows[t].expires > now THEN "live"
  ELSE "ended"

life == [t \in Token |-> LifeOf(t)]
Life == INSTANCE SessionLife

\* A session that ended never lives again: no purge, failure, restart or late INSERT of any
\* process brings it back.
EndsForGood == Life!Spec
=============================================================================
