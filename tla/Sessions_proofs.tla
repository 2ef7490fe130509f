---------------------------- MODULE Sessions_proofs ----------------------------
(***************************************************************************)
(* Proofs about sessions, for any number of processes and tokens, any      *)
(* lifetimes, and with or without statements that fail.                    *)
(***************************************************************************)
EXTENDS Sessions, TLAPS

USE SessionTTLAssumption, SessionFaultsAssumption, SessionBoundsAssumption

Open(t) == history[t].state = "open"
Expiry(t) == history[t].at + TTL(history[t].method)

\* A row is that of an open session, and an open session that has not expired has its row.
RowsInv ==
  \A t \in Token :
    /\ Stored(t) => /\ Open(t)
                    /\ rows[t] = [secret |-> history[t].secret, expires |-> Expiry(t)]
    /\ Open(t) => Stored(t) \/ Expiry(t) <= now

\* A call works with a reading that is past, and an INSERT with a token of its own.
Inserting(i) == call[i].pc = "inserting"
Selecting(i) == call[i].pc = "selecting"
CallsInv ==
  /\ \A i \in Server :
       /\ Inserting(i) \/ Selecting(i) => call[i].seen <= now
       /\ Inserting(i) => history[call[i].token] = Drawn
       /\ Selecting(i) => history[call[i].token] # Unused
  /\ \A i, j \in Server : Inserting(i) /\ Inserting(j) /\ call[i].token = call[j].token => i = j

\* The secrets that are in use, or that a row was stored with, were drawn.
SecretsInv ==
  /\ \A i \in Server : secret[i] <= drawn
  /\ \A t \in Token : Stored(t) => rows[t].secret <= drawn

SessionInv == TypeOK /\ RowsInv /\ CallsInv /\ SecretsInv

LEMMA Lifetimes == \A m : TTL(m) \in Nat
  BY DEF TTL

LEMMA TokenKinds ==
  ASSUME TypeOK, NEW t \in Token
  PROVE  /\ Stored(t) => rows[t] \in Row
         /\ Open(t) => history[t] \in Session /\ history[t].at \in Nat /\ Expiry(t) \in Nat
  BY Lifetimes DEF TypeOK, Stored, Open, Expiry, Unused, Drawn, Session, Time

LEMMA CallKinds ==
  ASSUME TypeOK, NEW i \in Server
  PROVE  /\ Inserting(i) => call[i] \in Creating
         /\ call[i].pc \in {"selecting", "granted", "refused"} => call[i] \in Verifying
         /\ call[i].pc \in {"inserting", "selecting", "granted", "refused", "done"}
  BY DEF TypeOK, Inserting, Call, Creating, Verifying, Done

LEMMA SessionInit == Init => SessionInv
<1> SUFFICES ASSUME Init PROVE SessionInv
  OBVIOUS
<1>1. TypeOK
  BY DEF Init, TypeOK, Secret, Call, Done, Time
<1>2. RowsInv
  BY DEF Init, RowsInv, Stored, Open, Unused
<1>3. CallsInv
  BY DEF Init, CallsInv, Inserting, Selecting
<1>4. SecretsInv
  BY DEF Init, SecretsInv, Stored, Secret
<1> QED BY <1>1, <1>2, <1>3, <1>4 DEF SessionInv

\* The purge takes only what expired.
LEMMA PurgeKeeps ==
  ASSUME SessionInv, rows' = Purged(now), now' = now,
         \A t \in Token : history'[t] = history[t] \/ (history[t] = Unused /\ history'[t] = Drawn)
  PROVE  /\ rows' \in [Token -> Row \cup {NoRow}]
         /\ RowsInv'
         /\ \A t \in Token : Stored(t)' => Stored(t) /\ rows'[t] = rows[t]
         /\ \A t \in Token : Stored(t) /\ ~Stored(t)' => rows[t].expires <= now
<1>1. rows' \in [Token -> Row \cup {NoRow}]
  BY DEF SessionInv, TypeOK, Purged
<1>2. \A t \in Token : rows'[t] = IF rows[t].expires <= now THEN NoRow ELSE rows[t]
  BY DEF Purged
<1>3. \A t \in Token : Stored(t)' => Stored(t) /\ rows'[t] = rows[t]
  BY <1>2 DEF Stored
<1>4. \A t \in Token : Stored(t) /\ ~Stored(t)' => rows[t].expires <= now
  BY <1>2 DEF Stored
<1>5. ASSUME NEW t \in Token
      PROVE  /\ Stored(t)' => /\ Open(t)'
                              /\ rows'[t] = [secret |-> history'[t].secret, expires |-> Expiry(t)']
             /\ Open(t)' => Stored(t)' \/ Expiry(t)' <= now'
  <2>1. CASE history'[t] = history[t]
    <3>1. /\ Stored(t) => Open(t) /\ rows[t] = [secret |-> history[t].secret, expires |-> Expiry(t)]
          /\ Open(t) => Stored(t) \/ Expiry(t) <= now
      BY DEF SessionInv, RowsInv
    <3>2. Stored(t) /\ ~Stored(t)' => Expiry(t) <= now
      BY <1>4, <3>1
    <3>3. Stored(t)' => Stored(t) /\ rows'[t] = rows[t]
      BY <1>3
    <3>4. Stored(t)' => Open(t)' /\ rows'[t] = [secret |-> history'[t].secret, expires |-> Expiry(t)']
      BY <2>1, <3>1, <3>3 DEF Open, Expiry
    <3>5. Open(t)' => Stored(t)' \/ Expiry(t)' <= now'
      BY <2>1, <3>1, <3>2 DEF Open, Expiry
    <3> QED BY <3>4, <3>5
  <2>2. CASE history[t] = Unused /\ history'[t] = Drawn
    <3>1. ~Open(t) /\ ~Open(t)'
      BY <2>2 DEF Open, Unused, Drawn
    <3>2. ~Stored(t)'
      BY <1>3, <3>1 DEF SessionInv, RowsInv
    <3> QED BY <3>1, <3>2
  <2> QED BY <2>1, <2>2
<1>6. RowsInv'
  BY <1>5 DEF RowsInv
<1> QED BY <1>1, <1>3, <1>4, <1>6

\* The actions, and what each does to the table, the calls and the history.
LEMMA BeginCreateKeeps ==
  ASSUME SessionInv, NEW i \in Server, NEW t \in Token, NEW m \in Method, BeginCreate(i, t, m)
  PROVE  SessionInv'
<1>0. /\ TypeOK /\ now \in Time /\ Unused # Drawn /\ now' = now
      /\ history' = [history EXCEPT ![t] = Drawn] /\ history[t] = Unused
      /\ secret' = secret /\ drawn' = drawn
  BY DEF SessionInv, TypeOK, BeginCreate, Unused, Drawn
<1>1. \A u \in Token : history'[u] = history[u] \/ (history[u] = Unused /\ history'[u] = Drawn)
  BY <1>0 DEF TypeOK
<1>2. PICK c \in Creating \cup Done :
        /\ call' = [call EXCEPT ![i] = c]
        /\ \/ c.pc = "done"
           \/ c.pc = "inserting" /\ c.token = t /\ c.seen = now
  <2> DEFINE d == [pc |-> "done"]
             c == [pc |-> "inserting", token |-> t, method |-> m, seen |-> now]
  <2>1. d \in Done /\ c \in Creating
    BY <1>0 DEF Creating, Done
  <2>2. call' = [call EXCEPT ![i] = d] \/ call' = [call EXCEPT ![i] = c]
    BY DEF BeginCreate, Answer
  <2>3. d.pc = "done" /\ c.pc = "inserting" /\ c.token = t /\ c.seen = now
    OBVIOUS
  <2> HIDE DEF c, d
  <2> QED BY <2>1, <2>2, <2>3
<1>3. history' \in [Token -> {Unused, Drawn} \cup Session] /\ call' \in [Server -> Call]
  BY <1>0, <1>2 DEF TypeOK, Call
<1>4. CallsInv'
  <2>1. \A j \in Server : j # i => call'[j] = call[j]
    BY <1>0, <1>2 DEF TypeOK
  <2>2. call'[i] = c
    BY <1>0, <1>2 DEF TypeOK
  <2>3. history'[t] = Drawn /\ \A u \in Token : u # t => history'[u] = history[u]
    BY <1>0 DEF TypeOK
  <2>4. ASSUME NEW j \in Server
        PROVE  /\ Inserting(j)' \/ Selecting(j)' => call'[j].seen <= now'
               /\ Inserting(j)' => history'[call'[j].token] = Drawn
               /\ Selecting(j)' => history'[call'[j].token] # Unused
    <3>1. CASE j = i
      BY <1>0, <1>2, <2>2, <2>3, <3>1 DEF Inserting, Selecting, Time
    <3>2. CASE j # i
      <4>1. call'[j] = call[j] /\ (Inserting(j) => call[j].token \in Token)
            /\ (Selecting(j) => call[j].token \in Token)
        BY <1>0, <2>1, <3>2, CallKinds DEF Creating, Verifying, Selecting
      <4> QED BY <1>0, <2>3, <4>1 DEF SessionInv, CallsInv, Inserting, Selecting
    <3> QED BY <3>1, <3>2
  <2>5. ASSUME NEW j \in Server, NEW k \in Server,
               Inserting(j)', Inserting(k)', call'[j].token = call'[k].token
        PROVE  j = k
    <3>1. ASSUME NEW n \in Server, n # i, Inserting(n)' PROVE call'[n].token # t
      BY <1>0, <2>1, <3>1 DEF SessionInv, CallsInv, Inserting
    <3>2. CASE j # i /\ k # i
      BY <2>1, <2>5, <3>2 DEF SessionInv, CallsInv, Inserting
    <3>3. CASE j = i \/ k = i
      BY <1>2, <2>2, <2>5, <3>1, <3>3 DEF Inserting
    <3> QED BY <3>2, <3>3
  <2> QED BY <2>4, <2>5 DEF CallsInv
<1>5. CASE rows' = Purged(now)
  <2>1. /\ rows' \in [Token -> Row \cup {NoRow}] /\ RowsInv'
        /\ \A u \in Token : Stored(u)' => Stored(u) /\ rows'[u] = rows[u]
    BY <1>0, <1>1, <1>5, PurgeKeeps
  <2>2. TypeOK'
    BY <1>0, <1>3, <2>1 DEF TypeOK
  <2>3. SecretsInv'
    BY <1>0, <2>1 DEF SessionInv, SecretsInv
  <2> QED BY <1>4, <2>1, <2>2, <2>3 DEF SessionInv
<1>6. CASE rows' = rows
  <2>1. TypeOK'
    BY <1>0, <1>3, <1>6 DEF TypeOK
  <2>2. SecretsInv'
    BY <1>0, <1>6 DEF SessionInv, SecretsInv, Stored
  <2>3. RowsInv'
    <3> SUFFICES ASSUME NEW u \in Token
        PROVE  /\ Stored(u)' => /\ Open(u)'
                                /\ rows'[u] = [secret |-> history'[u].secret, expires |-> Expiry(u)']
               /\ Open(u)' => Stored(u)' \/ Expiry(u)' <= now'
      BY DEF RowsInv
    <3>1. /\ Stored(u) => Open(u) /\ rows[u] = [secret |-> history[u].secret, expires |-> Expiry(u)]
          /\ Open(u) => Stored(u) \/ Expiry(u) <= now
      BY DEF SessionInv, RowsInv
    <3>2. CASE history'[u] = history[u]
      BY <1>0, <1>6, <3>1, <3>2 DEF Open, Expiry, Stored
    <3>3. CASE history[u] = Unused /\ history'[u] = Drawn
      BY <1>6, <3>1, <3>3 DEF Open, Stored, Unused, Drawn
    <3> QED BY <1>1, <3>2, <3>3
  <2> QED BY <1>4, <2>1, <2>2, <2>3 DEF SessionInv
<1> QED BY <1>5, <1>6 DEF BeginCreate

\* The table and the history stay: time only makes sessions expire.
LEMMA RowsLast ==
  ASSUME SessionInv, rows' = rows, history' = history, now' >= now, now' \in Nat
  PROVE  RowsInv'
<1> SUFFICES ASSUME NEW u \in Token
             PROVE  /\ Stored(u)' => /\ Open(u)'
                                     /\ rows'[u] = [secret |-> history'[u].secret,
                                                    expires |-> Expiry(u)']
                    /\ Open(u)' => Stored(u)' \/ Expiry(u)' <= now'
  BY DEF RowsInv
<1>1. /\ Stored(u) => Open(u) /\ rows[u] = [secret |-> history[u].secret, expires |-> Expiry(u)]
      /\ Open(u) => Stored(u) \/ Expiry(u) <= now
      /\ Open(u) => Expiry(u) \in Nat
      /\ now \in Nat
  BY Lifetimes DEF SessionInv, RowsInv, TypeOK, Time, Open, Expiry, Unused, Drawn, Session
<1>2. Stored(u)' => Open(u)' /\ rows'[u] = [secret |-> history'[u].secret, expires |-> Expiry(u)']
  BY <1>1 DEF Stored, Open, Expiry
<1>3. (Stored(u)' <=> Stored(u)) /\ (Open(u)' <=> Open(u)) /\ Expiry(u)' = Expiry(u)
  BY DEF Stored, Open, Expiry
<1> QED BY <1>1, <1>2, <1>3

\* A process goes to another call than an INSERT.
LEMMA CallsKept ==
  ASSUME SessionInv, NEW i \in Server, NEW c \in Call, call' = [call EXCEPT ![i] = c],
         c.pc # "inserting", now' = now,
         c.pc = "selecting" => c.seen <= now /\ history'[c.token] # Unused,
         \A t \in Token : history[t] # Unused => history'[t] # Unused,
         \A j \in Server : j # i /\ Inserting(j) => history'[call[j].token] = Drawn
  PROVE  CallsInv'
<1>0. TypeOK /\ CallsInv
  BY DEF SessionInv
<1>1. call'[i] = c /\ \A j \in Server : j # i => call'[j] = call[j]
  BY <1>0 DEF TypeOK
<1>2. ASSUME NEW j \in Server
      PROVE  /\ Inserting(j)' \/ Selecting(j)' => call'[j].seen <= now'
             /\ Inserting(j)' => history'[call'[j].token] = Drawn
             /\ Selecting(j)' => history'[call'[j].token] # Unused
  <2>1. CASE j = i
    BY <1>1, <2>1 DEF Inserting, Selecting
  <2>2. CASE j # i
    <3>1. call'[j] = call[j] /\ (Selecting(j) => call[j].token \in Token)
      BY <1>0, <1>1, <2>2, CallKinds DEF Verifying, Selecting
    <3> QED BY <1>0, <2>2, <3>1 DEF CallsInv, Inserting, Selecting
  <2> QED BY <2>1, <2>2
<1>3. ASSUME NEW j \in Server, NEW k \in Server,
             Inserting(j)', Inserting(k)', call'[j].token = call'[k].token
      PROVE  j = k
  BY <1>0, <1>1, <1>3 DEF CallsInv, Inserting
<1> QED BY <1>2, <1>3 DEF CallsInv

LEMMA BeginVerifyKeeps ==
  ASSUME SessionInv, NEW i \in Server, NEW t \in Token, BeginVerify(i, t)
  PROVE  SessionInv'
<1>0. /\ TypeOK /\ now \in Time /\ now \in Nat /\ now' = now /\ history[t] # Unused
      /\ history' = history /\ secret' = secret /\ drawn' = drawn
  BY DEF SessionInv, TypeOK, BeginVerify, Time
<1> DEFINE d == [pc |-> "done"]
           s == [pc |-> "selecting", token |-> t, seen |-> now]
<1>1. d \in Call /\ s \in Call
  BY <1>0 DEF Call, Verifying, Done
<1>2. call' = [call EXCEPT ![i] = d] \/ call' = [call EXCEPT ![i] = s]
  BY DEF BeginVerify, Answer
<1>3. d.pc = "done" /\ s.pc = "selecting" /\ s.token = t /\ s.seen <= now
  BY <1>0
<1> HIDE DEF d, s
<1>4. CallsInv'
  <2>1. \A j \in Server : Inserting(j) => history'[call[j].token] = Drawn
    BY <1>0 DEF SessionInv, CallsInv
  <2> QED BY <1>0, <1>1, <1>2, <1>3, <2>1, CallsKept
<1>5. call' \in [Server -> Call]
  BY <1>0, <1>1, <1>2 DEF TypeOK
<1>6. rows' \in [Token -> Row \cup {NoRow}] /\ RowsInv' /\ SecretsInv'
  <2>1. CASE rows' = Purged(now)
    BY <1>0, <2>1, PurgeKeeps DEF SessionInv, SecretsInv
  <2>2. CASE rows' = rows
    BY <1>0, <2>2, RowsLast DEF SessionInv, SecretsInv, Stored, TypeOK
  <2> QED BY <2>1, <2>2 DEF BeginVerify
<1>7. TypeOK'
  BY <1>0, <1>5, <1>6 DEF TypeOK
<1> QED BY <1>4, <1>6, <1>7 DEF SessionInv

LEMMA InsertKeeps ==
  ASSUME SessionInv, NEW i \in Server, Insert(i)
  PROVE  SessionInv'
<1>0. /\ TypeOK /\ now \in Nat /\ now' = now /\ secret' = secret /\ drawn' = drawn
      /\ Inserting(i) /\ call[i] \in Creating /\ call' = [call EXCEPT ![i] = [pc |-> "done"]]
  BY CallKinds DEF SessionInv, TypeOK, Insert, Answer, Inserting, Time
<1>1. PICK t \in Token, m \in Method, r \in Time :
        t = call[i].token /\ m = call[i].method /\ r = call[i].seen
  BY <1>0 DEF Creating
<1>2. history[t] = Drawn /\ Unused # Drawn
  BY <1>0, <1>1 DEF SessionInv, CallsInv, Unused, Drawn
<1>3. [pc |-> "done"] \in Call
  BY DEF Call, Done
<1>4. call' \in [Server -> Call]
  BY <1>0, <1>3 DEF TypeOK
<1>5. CASE rows' = rows /\ history' = history
  <2>1. CallsInv'
    BY <1>0, <1>3, <1>5, CallsKept DEF SessionInv, CallsInv
  <2> QED BY <1>0, <1>4, <1>5, <2>1, RowsLast DEF SessionInv, TypeOK, SecretsInv, Stored
<1> DEFINE row == [secret |-> secret[i], expires |-> r + TTL(m)]
           session == [state |-> "open", secret |-> secret[i], method |-> m, at |-> r]
<1>6. CASE rows' = [rows EXCEPT ![t] = row] /\ history' = [history EXCEPT ![t] = session]
  <2>1. /\ row \in Row /\ session \in Session /\ session # Unused /\ session.state = "open"
        /\ session.secret = secret[i] /\ session.method = m /\ session.at = r
        /\ row.secret = secret[i] /\ row.expires = r + TTL(m)
    BY <1>0, Lifetimes DEF TypeOK, Row, Session, Time, Unused
  <2>2. rows'[t] = row /\ \A u \in Token : u # t => rows'[u] = rows[u]
    BY <1>0, <1>6 DEF TypeOK
  <2>3. history'[t] = session /\ \A u \in Token : u # t => history'[u] = history[u]
    BY <1>0, <1>6 DEF TypeOK
  <2>4. rows' \in [Token -> Row \cup {NoRow}] /\ history' \in [Token -> {Unused, Drawn} \cup Session]
    BY <1>0, <1>6, <2>1 DEF TypeOK
  <2>5. CallsInv'
    <3>1. \A u \in Token : history[u] # Unused => history'[u] # Unused
      BY <2>1, <2>3
    <3>2. ASSUME NEW j \in Server, j # i, Inserting(j) PROVE history'[call[j].token] = Drawn
      <4>1. call[j].token \in Token /\ call[j].token # t /\ history[call[j].token] = Drawn
        BY <1>0, <1>1, <3>2, CallKinds DEF SessionInv, CallsInv, Creating
      <4> QED BY <2>3, <4>1
    <3> QED BY <1>0, <1>3, <3>1, <3>2, CallsKept
  <2>6. RowsInv'
    <3> SUFFICES ASSUME NEW u \in Token
          PROVE  /\ Stored(u)' => /\ Open(u)'
                                  /\ rows'[u] = [secret |-> history'[u].secret, expires |-> Expiry(u)']
                 /\ Open(u)' => Stored(u)' \/ Expiry(u)' <= now'
      BY DEF RowsInv
    <3>1. CASE u = t
      <4>1. row # NoRow
        BY DEF NoRow
      <4> QED BY <2>1, <2>2, <2>3, <3>1, <4>1 DEF Stored, Open, Expiry
    <3>2. CASE u # t
      <4>1. /\ Stored(u) => Open(u) /\ rows[u] = [secret |-> history[u].secret, expires |-> Expiry(u)]
            /\ Open(u) => Stored(u) \/ Expiry(u) <= now
        BY DEF SessionInv, RowsInv
      <4>2. rows'[u] = rows[u] /\ history'[u] = history[u]
        BY <2>2, <2>3, <3>2
      <4>3. Stored(u)' => Open(u)' /\ rows'[u] = [secret |-> history'[u].secret, expires |-> Expiry(u)']
        BY <4>1, <4>2 DEF Stored, Open, Expiry
      <4>4. Open(u)' => Stored(u)' \/ Expiry(u)' <= now'
        BY <1>0, <4>1, <4>2 DEF Stored, Open, Expiry
      <4> QED BY <4>3, <4>4
    <3> QED BY <3>1, <3>2
  <2>7. SecretsInv'
    BY <1>0, <2>1, <2>2 DEF SessionInv, SecretsInv, Stored
  <2>8. TypeOK'
    BY <1>0, <1>4, <2>4 DEF TypeOK
  <2> QED BY <2>5, <2>6, <2>7, <2>8 DEF SessionInv
<1> QED BY <1>1, <1>5, <1>6 DEF Insert

LEMMA SelectKeeps ==
  ASSUME SessionInv, NEW i \in Server, Select(i)
  PROVE  SessionInv'
<1>0. /\ TypeOK /\ now \in Nat /\ now' = now /\ secret' = secret /\ drawn' = drawn
      /\ rows' = rows /\ history' = history /\ call[i] \in Verifying
  BY CallKinds DEF SessionInv, TypeOK, Select, Time
<1>1. PICK c \in Call : call' = [call EXCEPT ![i] = c] /\ c.pc \in {"granted", "refused", "done"}
  <2> DEFINE v(pc) == [pc |-> pc, token |-> call[i].token, seen |-> call[i].seen]
             d == [pc |-> "done"]
  <2>1. v("granted") \in Call /\ v("refused") \in Call /\ d \in Call
    BY <1>0 DEF Call, Verifying, Done
  <2>2. \/ call' = [call EXCEPT ![i] = v("granted")] \/ call' = [call EXCEPT ![i] = v("refused")]
        \/ call' = [call EXCEPT ![i] = d]
    BY DEF Select, Answer
  <2> QED BY <2>1, <2>2
<1>2. CallsInv'
  BY <1>0, <1>1, CallsKept DEF SessionInv, CallsInv
<1> QED BY <1>0, <1>1, <1>2, RowsLast DEF SessionInv, TypeOK, SecretsInv, Stored

LEMMA LogoutKeeps ==
  ASSUME SessionInv, NEW i \in Server, NEW t \in Token, Logout(i, t)
  PROVE  SessionInv'
<1>0. /\ TypeOK /\ now \in Nat /\ now' = now /\ secret' = secret /\ drawn' = drawn
      /\ call' = [call EXCEPT ![i] = [pc |-> "done"]]
  BY DEF SessionInv, TypeOK, Logout, Answer, Time
<1>1. [pc |-> "done"] \in Call
  BY DEF Call, Done
<1>2. call' \in [Server -> Call]
  BY <1>0, <1>1 DEF TypeOK
<1>3. CASE rows' = rows /\ history' = history
  <2>1. CallsInv'
    BY <1>0, <1>1, <1>3, CallsKept DEF SessionInv, CallsInv
  <2> QED BY <1>0, <1>2, <1>3, <2>1, RowsLast DEF SessionInv, TypeOK, SecretsInv, Stored
<1>4. CASE /\ Stored(t) /\ rows' = [rows EXCEPT ![t] = NoRow]
           /\ history' = [history EXCEPT ![t].state = "closed"]
  <2>1. Open(t) /\ history[t] \in Session
    BY <1>0, <1>4, TokenKinds DEF SessionInv, RowsInv
  <2>2. PICK session \in Session : session = [history[t] EXCEPT !.state = "closed"]
    BY <2>1 DEF Session
  <2>3. session.state = "closed" /\ session # Unused /\ history[t] # Drawn
    BY <2>1, <2>2 DEF Session, Unused, Drawn, Open
  <2>4. rows'[t] = NoRow /\ \A u \in Token : u # t => rows'[u] = rows[u]
    BY <1>0, <1>4 DEF TypeOK
  <2>5. history'[t] = session /\ \A u \in Token : u # t => history'[u] = history[u]
    BY <1>0, <1>4, <2>2 DEF TypeOK
  <2>6. rows' \in [Token -> Row \cup {NoRow}] /\ history' \in [Token -> {Unused, Drawn} \cup Session]
    BY <1>0, <1>4, <2>2 DEF TypeOK
  <2>7. CallsInv'
    <3>1. \A u \in Token : history[u] # Unused => history'[u] # Unused
      BY <2>3, <2>5
    <3>2. ASSUME NEW j \in Server, Inserting(j) PROVE history'[call[j].token] = Drawn
      <4>1. call[j].token \in Token /\ history[call[j].token] = Drawn
        BY <1>0, <3>2, CallKinds DEF SessionInv, CallsInv, Creating
      <4> QED BY <2>3, <2>5, <4>1
    <3> QED BY <1>0, <1>1, <3>1, <3>2, CallsKept
  <2>8. RowsInv'
    <3> SUFFICES ASSUME NEW u \in Token
          PROVE  /\ Stored(u)' => /\ Open(u)'
                                  /\ rows'[u] = [secret |-> history'[u].secret, expires |-> Expiry(u)']
                 /\ Open(u)' => Stored(u)' \/ Expiry(u)' <= now'
      BY DEF RowsInv
    <3>1. CASE u = t
      BY <2>3, <2>4, <2>5, <3>1 DEF Stored, Open
    <3>2. CASE u # t
      <4>1. /\ Stored(u) => Open(u) /\ rows[u] = [secret |-> history[u].secret, expires |-> Expiry(u)]
            /\ Open(u) => Stored(u) \/ Expiry(u) <= now
        BY DEF SessionInv, RowsInv
      <4>2. rows'[u] = rows[u] /\ history'[u] = history[u]
        BY <2>4, <2>5, <3>2
      <4>3. Stored(u)' => Open(u)' /\ rows'[u] = [secret |-> history'[u].secret, expires |-> Expiry(u)']
        BY <4>1, <4>2 DEF Stored, Open, Expiry
      <4>4. Open(u)' => Stored(u)' \/ Expiry(u)' <= now'
        BY <1>0, <4>1, <4>2 DEF Stored, Open, Expiry
      <4> QED BY <4>3, <4>4
    <3> QED BY <3>1, <3>2
  <2>9. SecretsInv'
    BY <1>0, <2>4 DEF SessionInv, SecretsInv, Stored
  <2>10. TypeOK'
    BY <1>0, <1>2, <2>6 DEF TypeOK
  <2> QED BY <2>7, <2>8, <2>9, <2>10 DEF SessionInv
<1> QED BY <1>3, <1>4 DEF Logout, Found

LEMMA RestartKeeps ==
  ASSUME SessionInv, NEW i \in Server, Restart(i)
  PROVE  SessionInv'
<1>0. /\ TypeOK /\ now \in Nat /\ now' = now /\ rows' = rows /\ history' = history
      /\ call' = [call EXCEPT ![i] = [pc |-> "done"]]
  BY DEF SessionInv, TypeOK, Restart, Answer, Time
<1>1. [pc |-> "done"] \in Call
  BY DEF Call, Done
<1>2. CallsInv'
  BY <1>0, <1>1, CallsKept DEF SessionInv, CallsInv
<1>3. drawn' >= drawn /\ drawn' \in Secret /\ secret' \in [Server -> Secret]
  BY <1>0 DEF Restart, TypeOK, Secret
<1>4. SecretsInv'
  <2>1. \A j \in Server : secret'[j] <= drawn'
    BY <1>0 DEF SessionInv, SecretsInv, Restart, TypeOK, Secret
  <2>2. ASSUME NEW t \in Token, Stored(t)' PROVE rows'[t].secret <= drawn'
    <3>1. rows'[t] = rows[t] /\ rows[t].secret <= drawn /\ rows[t].secret \in Nat /\ drawn \in Nat
      BY <1>0, <2>2, TokenKinds DEF SessionInv, SecretsInv, Stored, TypeOK, Row, Secret
    <3> QED BY <1>3, <3>1 DEF Secret
  <2> QED BY <2>1, <2>2 DEF SecretsInv
<1>5. TypeOK'
  BY <1>0, <1>1, <1>3 DEF TypeOK
<1> QED BY <1>0, <1>2, <1>4, <1>5, RowsLast DEF SessionInv

LEMMA SessionNext ==
  ASSUME SessionInv, [Next]_sessionVars
  PROVE  SessionInv'
<1>1. CASE UNCHANGED sessionVars
  <2>1. RowsInv'
    BY <1>1, RowsLast DEF sessionVars, SessionInv, TypeOK, Time
  <2> QED BY <1>1, <2>1 DEF sessionVars, SessionInv, TypeOK, CallsInv, Inserting, Selecting, SecretsInv,
                          Stored
<1>2. CASE Tick
  <2>1. now \in Nat /\ now' = now + 1 /\ now' \in Time /\ now' \in Nat
    BY <1>2 DEF SessionInv, TypeOK, Tick, Time
  <2>2. RowsInv'
    BY <1>2, <2>1, RowsLast DEF Tick
  <2>3. CallsInv'
    <3>1. \A i \in Server : Inserting(i) \/ Selecting(i) => call[i].seen \in Nat
      BY CallKinds DEF SessionInv, Selecting, Creating, Verifying, Time
    <3> QED BY <1>2, <2>1, <3>1 DEF Tick, SessionInv, CallsInv, Inserting, Selecting
  <2> QED BY <1>2, <2>1, <2>2, <2>3 DEF Tick, SessionInv, TypeOK, SecretsInv, Stored
<1> QED BY <1>1, <1>2, BeginCreateKeeps, BeginVerifyKeeps, InsertKeeps, SelectKeeps, LogoutKeeps,
           RestartKeeps DEF Next

LEMMA SessionInvariant == Spec => []SessionInv
  BY SessionInit, SessionNext, PTL DEF Spec

\* The secrets, the rows, the calls and the history keep their types.
THEOREM SessionTypeCorrect == Spec => []TypeOK
<1>1. SessionInv => TypeOK
  BY DEF SessionInv
<1> QED BY <1>1, SessionInvariant, PTL
----
(***************************************************************************)
(* Whom a process grants, and whom it turns away.                          *)
(***************************************************************************)
LEMMA VerdictBySelect ==
  ASSUME SessionInv, [Next]_sessionVars, NEW i \in Server, NEW pc \in {"granted", "refused"},
         Verdict(i, pc)
  PROVE  Select(i)
<1>0. call \in [Server -> Call]
  BY DEF SessionInv, TypeOK
<1>1. ASSUME NEW j \in Server, NEW c, Answer(j, c), c.pc \notin {"granted", "refused"} PROVE FALSE
  BY <1>0, <1>1 DEF Answer, Verdict
<1>2. ASSUME NEW j \in Server, NEW t \in Token,
             (\E m \in Method : BeginCreate(j, t, m)) \/ BeginVerify(j, t) \/ Logout(j, t)
      PROVE  FALSE
  BY <1>1, <1>2 DEF BeginCreate, BeginVerify, Logout
<1>3. ASSUME NEW j \in Server, Insert(j) \/ Restart(j) PROVE FALSE
  BY <1>1, <1>3 DEF Insert, Restart
<1>4. ASSUME NEW j \in Server, Select(j) PROVE j = i
  BY <1>0, <1>4 DEF Select, Answer, Verdict
<1>5. call' # call
  BY DEF Verdict
<1> QED BY <1>2, <1>3, <1>4, <1>5 DEF Next, sessionVars, Tick

LEMMA SelectVerdict ==
  ASSUME SessionInv, NEW i \in Server, Select(i), NEW pc \in {"granted", "refused"}, Verdict(i, pc)
  PROVE  \E t \in Token, r \in Time :
           /\ call'[i].token = t /\ call'[i].seen = r /\ r <= now /\ history[t] # Unused
           /\ pc = "granted" <=> Found(i, t) /\ rows[t].expires > r
<1>1. call \in [Server -> Call] /\ call[i] \in Verifying /\ Selecting(i)
  BY CallKinds DEF SessionInv, TypeOK, Select, Selecting
<1>2. PICK t \in Token, r \in Time : t = call[i].token /\ r = call[i].seen
  BY <1>1 DEF Verifying
<1>3. r <= now /\ history[t] # Unused
  BY <1>1, <1>2 DEF SessionInv, CallsInv
<1>4. call'[i].pc = pc
  BY DEF Verdict
<1>5. call'[i] = [pc |-> IF Found(i, t) /\ rows[t].expires > r THEN "granted" ELSE "refused",
                  token |-> t, seen |-> r]
  BY <1>1, <1>2, <1>4 DEF Select, Answer
<1>6. call'[i].token = t /\ call'[i].seen = r
      /\ (pc = "granted" <=> Found(i, t) /\ rows[t].expires > r)
  BY <1>4, <1>5
<1> QED BY <1>3, <1>6

\* No process grants a session that was ended anywhere, in whatever way.
THEOREM GrantsAreLive == Spec => GrantsOnlyLive
<1>1. ASSUME SessionInv, [Next]_sessionVars, NEW i \in Server, Verdict(i, "granted")
      PROVE  Alive(i, call'[i].token, call'[i].seen)
  <2>1. PICK t \in Token, r \in Time :
          /\ call'[i].token = t /\ call'[i].seen = r
          /\ Found(i, t) /\ rows[t].expires > r
    BY <1>1, VerdictBySelect, SelectVerdict
  <2>2. Open(t) /\ rows[t] = [secret |-> history[t].secret, expires |-> Expiry(t)]
    BY <1>1, <2>1 DEF SessionInv, RowsInv, Found
  <2>3. Expiry(t) \in Nat
    BY <1>1, <2>2, TokenKinds DEF SessionInv
  <2>4. Alive(i, t, r)
    BY <2>1, <2>2, <2>3 DEF Alive, Open, Expiry, Found, Time
  <2> QED BY <2>1, <2>4
<1>2. SessionInv /\ [Next]_sessionVars =>
        [\A i \in Server : Verdict(i, "granted") => Alive(i, call'[i].token, call'[i].seen)]_sessionVars
  BY <1>1
<1> QED BY <1>2, SessionInvariant, PTL DEF Spec, GrantsOnlyLive

\* No process turns away a session that lives, whatever the others do meanwhile.
THEOREM LiveAreGranted == Spec => LiveNotTurnedAway
<1>1. ASSUME SessionInv, [Next]_sessionVars, NEW i \in Server, Verdict(i, "refused")
      PROVE  ~Alive(i, call'[i].token, now)
  <2>1. PICK t \in Token, r \in Time :
          /\ call'[i].token = t /\ r <= now
          /\ ~(Found(i, t) /\ rows[t].expires > r)
    BY <1>1, VerdictBySelect, SelectVerdict
  <2>2. ASSUME Alive(i, t, now) PROVE FALSE
    <3>1. Open(t) /\ history[t].secret = secret[i] /\ now < Expiry(t) /\ now \in Nat
      BY <1>1, <2>2 DEF Alive, Open, Expiry, SessionInv, TypeOK, Time
    <3>2. Expiry(t) \in Nat
      BY <1>1, <3>1, TokenKinds DEF SessionInv
    <3>3. Stored(t)
      <4>1. Stored(t) \/ Expiry(t) <= now
        BY <1>1, <3>1 DEF SessionInv, RowsInv
      <4> QED BY <3>1, <3>2, <4>1
    <3>4. rows[t] = [secret |-> history[t].secret, expires |-> Expiry(t)]
      BY <1>1, <3>3 DEF SessionInv, RowsInv
    <3> QED BY <2>1, <3>1, <3>2, <3>3, <3>4 DEF Found, Time
  <2> QED BY <2>1, <2>2
<1>2. SessionInv /\ [Next]_sessionVars =>
        [\A i \in Server : Verdict(i, "refused") => ~Alive(i, call'[i].token, now)]_sessionVars
  BY <1>1
<1> QED BY <1>2, SessionInvariant, PTL DEF Spec, LiveNotTurnedAway
----
(***************************************************************************)
(* The sessions implement SessionLife.                                     *)
(***************************************************************************)
Fresh(t) == history[t] \notin Session
Living(t) == Stored(t) /\ Usable(rows[t].secret) /\ rows[t].expires > now

\* A step that issues no session ends those that it ends, and leaves the others.
LEMMA OnlyEnds ==
  ASSUME \A t \in Token : (Fresh(t)' <=> Fresh(t)) /\ (Living(t)' => Living(t))
  PROVE  [Life!Next]_life
<1> DEFINE S == {t \in Token : LifeOf(t) = "live" /\ LifeOf(t)' = "ended"}
<1>1. \A t \in Token : LifeOf(t)' = IF t \in S THEN "ended" ELSE LifeOf(t)
  BY DEF LifeOf, Fresh, Living
<1>2. life' = [t \in Token |-> IF t \in S THEN "ended" ELSE life[t]]
  BY <1>1 DEF life
<1>3. \A t \in S : life[t] = "live"
  BY DEF life
<1>4. S \in SUBSET Token
  OBVIOUS
<1> HIDE DEF S
<1>5. Life!End(S)
  BY <1>2, <1>3 DEF Life!End
<1> QED BY <1>4, <1>5 DEF Life!Next

LEMMA LifeNext ==
  ASSUME SessionInv, [Next]_sessionVars
  PROVE  [Life!Next]_life
<1>0. TypeOK /\ RowsInv /\ now \in Nat /\ Unused \notin Session /\ Drawn \notin Session
  BY DEF SessionInv, TypeOK, Time, Unused, Drawn, Session
<1>1. CASE UNCHANGED sessionVars
  BY <1>1, OnlyEnds DEF sessionVars, Fresh, Living, Stored, Usable
<1>2. ASSUME NEW i \in Server, NEW t \in Token, (\E m \in Method : BeginCreate(i, t, m)) \/ BeginVerify(i, t)
      PROVE  [Life!Next]_life
  <2>1. (rows' = rows \/ rows' = Purged(now)) /\ secret' = secret /\ now' = now
    BY <1>2 DEF BeginCreate, BeginVerify
  <2>2. \A u \in Token : Stored(u)' => Stored(u) /\ rows'[u] = rows[u]
    BY <2>1 DEF Purged, Stored
  <2>3. \A u \in Token : Living(u)' => Living(u)
    BY <2>1, <2>2 DEF Living, Usable
  <2>4. \A u \in Token : Fresh(u)' <=> Fresh(u)
    BY <1>0, <1>2 DEF BeginCreate, BeginVerify, Fresh, TypeOK
  <2> QED BY <2>3, <2>4, OnlyEnds
<1>3. ASSUME NEW i \in Server, NEW t \in Token, Logout(i, t) PROVE [Life!Next]_life
  <2>1. CASE rows' = rows /\ history' = history
    BY <1>3, <2>1, OnlyEnds DEF Logout, Fresh, Living, Stored, Usable
  <2>2. CASE Stored(t) /\ rows' = [rows EXCEPT ![t] = NoRow]
             /\ history' = [history EXCEPT ![t].state = "closed"]
    <3>1. history[t] \in Session
      BY <1>0, <2>2, TokenKinds DEF RowsInv
    <3>2. [history[t] EXCEPT !.state = "closed"] \in Session
      BY <3>1 DEF Session
    <3>3. \A u \in Token : Fresh(u)' <=> Fresh(u)
      BY <1>0, <2>2, <3>1, <3>2 DEF Fresh, TypeOK
    <3>4. \A u \in Token : Living(u)' => Living(u)
      BY <1>0, <1>3, <2>2 DEF Logout, Living, Stored, Usable, TypeOK
    <3> QED BY <3>3, <3>4, OnlyEnds
  <2> QED BY <1>3, <2>1, <2>2 DEF Logout, Found
<1>4. ASSUME NEW i \in Server, Insert(i) PROVE [Life!Next]_life
  <2>1. CASE rows' = rows /\ history' = history
    BY <1>4, <2>1, OnlyEnds DEF Insert, Fresh, Living, Stored, Usable
  <2>2. CASE ~(rows' = rows /\ history' = history)
    <3>1. PICK t \in Token : t = call[i].token
      BY <1>0, <1>4, CallKinds DEF Insert, Inserting, Creating
    <3>2. history[t] = Drawn
      BY <1>4, <3>1 DEF SessionInv, CallsInv, Insert, Inserting
    <3>3. \A u \in Token : u # t => history'[u] = history[u] /\ rows'[u] = rows[u]
      BY <1>0, <1>4, <2>2, <3>1 DEF Insert, TypeOK
    <3>4. \A u \in Token : u # t => LifeOf(u)' = LifeOf(u)
      BY <1>4, <3>3 DEF Insert, LifeOf, Stored, Usable
    <3>5. LifeOf(t) = "unused"
      BY <1>0, <3>2 DEF LifeOf
    <3>6. LifeOf(t)' \in {"live", "ended"}
      <4>1. call[i] \in Creating
        BY <1>0, <1>4, CallKinds DEF Insert, Inserting
      <4>2. history'[t] = [state |-> "open", secret |-> secret[i], method |-> call[i].method,
                           at |-> call[i].seen]
        BY <1>0, <1>4, <2>2, <3>1 DEF Insert, TypeOK
      <4>3. history'[t] \in Session
        BY <1>0, <4>1, <4>2 DEF Session, Creating, TypeOK
      <4> QED BY <4>3 DEF LifeOf
    <3>7. PICK l \in {"live", "ended"} : life' = [life EXCEPT ![t] = l]
      BY <3>4, <3>6 DEF life
    <3>8. Life!Issue(t)
      BY <3>5, <3>7 DEF Life!Issue, life
    <3> QED BY <3>8 DEF Life!Next
  <2> QED BY <2>1, <2>2
<1>5. ASSUME NEW i \in Server, Select(i) PROVE [Life!Next]_life
  BY <1>5, OnlyEnds DEF Select, Fresh, Living, Stored, Usable
<1>6. CASE Tick
  <2>1. \A u \in Token : Living(u)' => Living(u)
    <3> SUFFICES ASSUME NEW u \in Token, Living(u)' PROVE Living(u)
      OBVIOUS
    <3>1. /\ Stored(u) /\ Usable(rows[u].secret) /\ rows[u].expires > now + 1
      BY <1>6 DEF Tick, Living, Stored, Usable
    <3>2. rows[u].expires \in Nat
      BY <1>0, <3>1, TokenKinds DEF Row
    <3> QED BY <1>0, <3>1, <3>2 DEF Living
  <2> QED BY <1>6, <2>1, OnlyEnds DEF Tick, Fresh
<1>7. ASSUME NEW i \in Server, Restart(i) PROVE [Life!Next]_life
  <2>1. \A u \in Token : Fresh(u)' <=> Fresh(u)
    BY <1>7 DEF Restart, Fresh
  <2>2. ASSUME NEW u \in Token, Living(u)' PROVE Living(u)
    <3>1. Stored(u) /\ Usable(rows[u].secret)' /\ rows[u].expires > now /\ rows'[u] = rows[u]
      BY <1>7, <2>2 DEF Restart, Living, Stored, Usable
    <3>2. PICK k \in Nat : k = rows[u].secret /\ k <= drawn
      BY <1>0, <3>1, TokenKinds DEF Row, Secret, SessionInv, SecretsInv
    <3>3. k = 0 \/ \E j \in Server : secret'[j] = k
      BY <3>1, <3>2 DEF Usable
    <3>4. Usable(k)
      BY <1>0, <1>7, <3>2, <3>3 DEF Usable, Restart, TypeOK, Secret
    <3> QED BY <3>1, <3>2, <3>4 DEF Living, Usable
  <2> QED BY <2>1, <2>2, OnlyEnds
<1>8. \/ \E i \in Server, t \in Token : (\E m \in Method : BeginCreate(i, t, m)) \/ BeginVerify(i, t)
      \/ \E i \in Server, t \in Token : Logout(i, t)
      \/ \E i \in Server : Insert(i) \/ Select(i) \/ Restart(i)
      \/ Tick \/ UNCHANGED sessionVars
  BY DEF Next
<1> QED BY <1>1, <1>2, <1>3, <1>4, <1>5, <1>6, <1>7, <1>8

\* Once ended, in any of the ways, a session has ended for good.
THEOREM SessionsEndForGood == Spec => EndsForGood
<1>1. Init => Life!Init
  <2> SUFFICES ASSUME Init PROVE life = [t \in Token |-> "unused"]
    BY DEF Life!Init
  <2>1. \A t \in Token : history[t] \notin Session
    BY DEF Init, Unused, Session
  <2> QED BY <2>1 DEF life, LifeOf
<1> QED BY <1>1, LifeNext, SessionInvariant, PTL DEF Spec, EndsForGood, Life!Spec
=============================================================================
