----------------------------- MODULE AuthProofs -----------------------------
(***************************************************************************)
(* Proofs about Auth, for any number of requests at the same time, users,  *)
(* passwords and tokens.                                                   *)
(***************************************************************************)
EXTENDS Auth, FiniteSetTheorems, TLAPS

RegisterQueries == {"user exists", "create user"}
RefreshQueries == {"get token", "revoke", "get user by id"}

\* Each handler makes the queries of its request, and has read the row that it
\* works on.
HandlerInv ==
  \A h \in Handlers :
    /\ pc[h] \in Queries => req[h] \in BoundRequests
    /\ pc[h] \in RegisterQueries => req[h].op = "register"
    /\ pc[h] = "get user" => req[h].op = "login"
    /\ pc[h] \in RefreshQueries => req[h].op = "refresh"
    /\ pc[h] = "store token" => req[h].op \in {"login", "refresh"}
    /\ pc[h] \in {"revoke", "get user by id"} => read[h] \in Rows /\ rows[req[h].token] \in Rows
    /\ pc[h] = "store token" /\ req[h].op = "refresh" => read[h] \in Rows

\* A refresh gives out a token when the old one is revoked in the table, whoever has
\* revoked it; so a token that was exchanged is revoked, for good.
RevokedBefore ==
  /\ \A h \in Handlers : pc[h] \in {"get user by id", "store token"} /\ req[h].op = "refresh" =>
       rows[req[h].token] # None /\ rows[req[h].token].revoked
  /\ \A t \in Tokens : redeemed[t] # {} => rows[t] # None /\ rows[t].revoked

\* What came too late gets no further than the row it reads.
DeadStops ==
  \A h \in Handlers : dead[h] =>
    /\ pc[h] \in Answers \cup {"get token"}
    /\ pc[h] # "ok"
    /\ pc[h] = "get token" =>
         rows[req[h].token] # None /\ (rows[req[h].token].revoked \/ rows[req[h].token].expired)

IInv == TypeOK /\ HandlerInv /\ RevokedBefore /\ DeadStops /\ ToldIsRegistered /\ HeldIsStored

LEMMA RequestFields ==
  ASSUME NEW q \in BoundRequests
  PROVE  /\ q.op \in {"register", "login", "refresh"}
         /\ q.op \in {"register", "login"} => q.email \in Emails /\ q.password \in Passwords
         /\ q.op = "refresh" => q.token \in Tokens
<1>1. CASE q \in [op : {"register", "login"}, email : Emails, password : Passwords]
  BY <1>1
<1>2. CASE q \in [op : {"refresh"}, token : Tokens]
  BY <1>2
<1> QED
  BY <1>1, <1>2 DEF BoundRequests

\* What a handler binds has its fields.
LEMMA BoundFields ==
  ASSUME NEW q \in Requests, Binds(q)
  PROVE  q \in BoundRequests
<1>1. CASE q \in [op : {"register", "login"}, email : Emails \cup {None}, password : Passwords]
  <2>1. q.op \in {"register", "login"} /\ q.email \in Emails
    BY <1>1 DEF Binds
  <2>2. q \in [op : {"register", "login"}, email : Emails, password : Passwords]
    BY <1>1, <2>1
  <2> QED
    BY <2>2 DEF BoundRequests
<1>2. CASE q \in [op : {"refresh"}, token : Tokens \cup {None}]
  <2>1. q.op = "refresh" /\ q.token \in Tokens
    BY <1>2 DEF Binds
  <2>2. q \in [op : {"refresh"}, token : Tokens]
    BY <1>2, <2>1
  <2> QED
    BY <2>2 DEF BoundRequests
<1> QED
  BY <1>1, <1>2 DEF Requests

LEMMA InitInv == Init => IInv
<1> SUFFICES ASSUME Init
             PROVE  IInv
  OBVIOUS
<1> USE DEF Init
<1>1. TypeOK
  BY DEF TypeOK, Answers
<1>2. HandlerInv /\ RevokedBefore /\ DeadStops
  BY DEF HandlerInv, RevokedBefore, DeadStops, Answers, Queries, RegisterQueries, RefreshQueries
<1>3. ToldIsRegistered /\ HeldIsStored
  BY DEF ToldIsRegistered, HeldIsStored
<1> QED
  BY <1>1, <1>2, <1>3 DEF IInv

LEMMA NextInv == IInv /\ [Next]_vars => IInv'
<1> SUFFICES ASSUME IInv, [Next]_vars
             PROVE  IInv'
  OBVIOUS
<1> USE DEF tables, handlerVars, history
<1>t. TypeOK /\ HandlerInv /\ RevokedBefore /\ DeadStops /\ ToldIsRegistered /\ HeldIsStored
  BY DEF IInv
<1>p. \A h \in Handlers : pc[h] \in Answers \cup Queries
  BY <1>t DEF TypeOK
<1>d. Answers \cap Queries = {} /\ "get token" \in Queries
  BY DEF Answers, Queries
\* A step of one handler that only goes on to a query.
<1>g. ASSUME NEW h \in Handlers, NEW s \in Queries, pc[h] \in Queries,
             pc' = [pc EXCEPT ![h] = s], UNCHANGED <<tables, req, dead, history>>,
             ~dead[h],
             \A x \in Handlers : x # h => read'[x] = read[x],
             read' \in [Handlers -> Rows \cup {None}],
             s \in RegisterQueries => req[h].op = "register",
             s = "get user" => req[h].op = "login",
             s \in RefreshQueries => req[h].op = "refresh",
             s = "store token" => req[h].op \in {"login", "refresh"},
             s \in {"revoke", "get user by id"} => read'[h] \in Rows /\ rows[req[h].token] \in Rows,
             s = "store token" /\ req[h].op = "refresh" => read'[h] \in Rows,
             s \in {"get user by id", "store token"} /\ req[h].op = "refresh" =>
               rows[req[h].token] # None /\ rows[req[h].token].revoked
      PROVE  IInv'
  <2>1. TypeOK'
    BY <1>g, <1>t DEF TypeOK
  <2>2. HandlerInv'
    BY <1>g, <1>t DEF HandlerInv, TypeOK
  <2>3. RevokedBefore'
    BY <1>g, <1>t DEF RevokedBefore, TypeOK
  <2>4. DeadStops'
    BY <1>g, <1>t DEF DeadStops, TypeOK
  <2>5. ToldIsRegistered' /\ HeldIsStored'
    BY <1>g, <1>t DEF ToldIsRegistered, HeldIsStored
  <2> QED
    BY <2>1, <2>2, <2>3, <2>4, <2>5 DEF IInv
\* What holds of the handlers holds when one of them answers.
<1>a. ASSUME NEW h \in Handlers, NEW s \in Answers, Answer(h, s)
      PROVE  /\ pc' \in [Handlers -> Answers \cup Queries]
             /\ req' \in [Handlers -> BoundRequests \cup {None}]
             /\ read' \in [Handlers -> Rows \cup {None}]
             /\ \A x \in Handlers : x # h => pc'[x] = pc[x] /\ req'[x] = req[x] /\ read'[x] = read[x]
             /\ pc'[h] = s /\ pc'[h] \notin Queries
  BY <1>a, <1>t, <1>d DEF Answer, TypeOK
\* A step of one handler that answers, but for 201 and 200, and changes nothing else.
<1>b. ASSUME NEW h \in Handlers, NEW s \in Answers, Answer(h, s), s # "ok",
             dead' = dead \/ dead' = [dead EXCEPT ![h] = FALSE],
             UNCHANGED <<tables, history>>
      PROVE  IInv'
  <2>1. dead' \in [Handlers -> BOOLEAN] /\ \A x \in Handlers : dead'[x] => dead[x]
    BY <1>b, <1>t DEF TypeOK
  <2>2. TypeOK'
    BY <1>a, <1>b, <2>1, <1>t DEF TypeOK
  <2>3. HandlerInv'
    <3>1. \A x \in Handlers : x # h => pc'[x] = pc[x] /\ req'[x] = req[x] /\ read'[x] = read[x]
      BY <1>a, <1>b
    <3>2. pc'[h] \notin Queries
      BY <1>a, <1>b
    <3> QED
      BY <1>b, <3>1, <3>2, <1>t DEF HandlerInv, Queries, RegisterQueries, RefreshQueries
  <2>4. RevokedBefore'
    <3>1. \A x \in Handlers : x # h => pc'[x] = pc[x] /\ req'[x] = req[x]
      BY <1>a, <1>b
    <3>2. pc'[h] \notin {"get user by id", "store token"}
      BY <1>a, <1>b DEF Queries
    <3> QED
      BY <1>b, <3>1, <3>2, <1>t DEF RevokedBefore
  <2>5. DeadStops'
    <3>1. \A x \in Handlers : x # h => pc'[x] = pc[x] /\ req'[x] = req[x]
      BY <1>a, <1>b
    <3>2. pc'[h] = s /\ s # "get token"
      BY <1>a, <1>b, <1>d
    <3> QED
      BY <1>b, <2>1, <3>1, <3>2, <1>t DEF DeadStops
  <2>6. ToldIsRegistered' /\ HeldIsStored'
    BY <1>b, <1>t DEF ToldIsRegistered, HeldIsStored
  <2> QED
    BY <2>2, <2>3, <2>4, <2>5, <2>6 DEF IInv
<1>1. ASSUME NEW h \in Handlers, NEW q \in Requests, Receive(h, q)
      PROVE  IInv'
  <2>0. UNCHANGED <<tables, history>>
    BY <1>1 DEF Receive
  <2>1. CASE Binds(q)
    <3>1. /\ req' = [req EXCEPT ![h] = q] /\ pc' = [pc EXCEPT ![h] = FirstQuery(q.op)]
          /\ UNCHANGED read
          /\ dead' = [dead EXCEPT ![h] =
               q.op = "refresh" /\ (redeemed[q.token] # {} \/ (rows[q.token] # None /\ rows[q.token].expired))]
      BY <1>1, <2>1 DEF Receive
    <3>2. q \in BoundRequests
      BY <2>1, BoundFields
    <3>3. /\ q.op = "register" => FirstQuery(q.op) = "user exists"
          /\ q.op = "login" => FirstQuery(q.op) = "get user"
          /\ q.op = "refresh" => FirstQuery(q.op) = "get token" /\ q.token \in Tokens
          /\ q.op \in {"register", "login", "refresh"}
      BY <3>2, RequestFields DEF FirstQuery
    <3>4. FirstQuery(q.op) \in Queries
      BY <3>3 DEF Queries
    <3>5. TypeOK'
      <4>1. req' \in [Handlers -> BoundRequests \cup {None}]
        BY <3>1, <3>2, <1>t DEF TypeOK
      <4>2. pc' \in [Handlers -> Answers \cup Queries]
        BY <3>1, <3>4, <1>t DEF TypeOK
      <4>3. dead' \in [Handlers -> BOOLEAN]
        BY <3>1, <1>t, Zenon DEF TypeOK
      <4> QED
        BY <2>0, <3>1, <4>1, <4>2, <4>3, <1>t DEF TypeOK
    <3>6. HandlerInv'
      <4> SUFFICES ASSUME NEW x \in Handlers
                   PROVE  /\ pc'[x] \in Queries => req'[x] \in BoundRequests
                          /\ pc'[x] \in RegisterQueries => req'[x].op = "register"
                          /\ pc'[x] = "get user" => req'[x].op = "login"
                          /\ pc'[x] \in RefreshQueries => req'[x].op = "refresh"
                          /\ pc'[x] = "store token" => req'[x].op \in {"login", "refresh"}
                          /\ pc'[x] \in {"revoke", "get user by id"} => read[x] \in Rows /\ rows[req'[x].token] \in Rows
                          /\ pc'[x] = "store token" /\ req'[x].op = "refresh" => read[x] \in Rows
        BY <2>0, <3>1 DEF HandlerInv
      <4>1. CASE x = h
        <5>1. pc'[x] = FirstQuery(q.op) /\ req'[x] = q
          BY <3>1, <4>1, <1>t DEF TypeOK
        <5> QED
          BY <5>1, <3>2, <3>3 DEF RegisterQueries, RefreshQueries
      <4>2. CASE x # h
        BY <3>1, <4>2, <1>t DEF TypeOK, HandlerInv
      <4> QED
        BY <4>1, <4>2
    <3>7. RevokedBefore'
      <4>1. FirstQuery(q.op) \notin {"get user by id", "store token"}
        BY <3>3
      <4> QED
        BY <2>0, <3>1, <4>1, <1>t DEF TypeOK, RevokedBefore
    <3>8. DeadStops'
      <4> SUFFICES ASSUME NEW x \in Handlers, dead'[x]
                   PROVE  /\ pc'[x] \in Answers \cup {"get token"} /\ pc'[x] # "ok"
                          /\ pc'[x] = "get token" =>
                               rows[req'[x].token] # None /\ (rows[req'[x].token].revoked \/ rows[req'[x].token].expired)
        BY <2>0 DEF DeadStops
      <4>1. CASE x = h
        <5>1. /\ q.op = "refresh" /\ req'[x] = q
              /\ redeemed[q.token] # {} \/ (rows[q.token] # None /\ rows[q.token].expired)
          BY <3>1, <4>1, <1>t DEF TypeOK
        <5>2. pc'[x] = "get token" /\ q.token \in Tokens
          BY <3>1, <3>3, <4>1, <5>1, <1>t DEF TypeOK
        <5> QED
          BY <5>1, <5>2, <1>t DEF RevokedBefore
      <4>2. CASE x # h
        BY <3>1, <4>2, <1>t DEF TypeOK, DeadStops
      <4> QED
        BY <4>1, <4>2
    <3>9. ToldIsRegistered' /\ HeldIsStored'
      BY <2>0, <1>t DEF ToldIsRegistered, HeldIsStored
    <3> QED
      BY <3>5, <3>6, <3>7, <3>8, <3>9 DEF IInv
  <2>2. CASE ~Binds(q)
    <3>1. Answer(h, "bad request") /\ dead' = [dead EXCEPT ![h] = FALSE]
      BY <1>1, <2>2 DEF Receive
    <3>2. "bad request" \in Answers
      BY DEF Answers
    <3> QED
      BY <2>0, <3>1, <3>2, <1>b
  <2> QED
    BY <2>1, <2>2
<1>2. ASSUME NEW h \in Handlers, Fail(h)
      PROVE  IInv'
  <2>1. "error" \in Answers
    BY DEF Answers
  <2> QED
    BY <1>2, <2>1, <1>b DEF Fail
<1>3. ASSUME NEW h \in Handlers, UserExists(h)
      PROVE  IInv'
  <2>1. pc[h] = "user exists" /\ req[h].op = "register" /\ pc[h] \in Queries /\ ~dead[h]
    BY <1>3, <1>t DEF UserExists, HandlerInv, DeadStops, RegisterQueries, Queries, Answers
  <2>2. "conflict" \in Answers /\ "create user" \in Queries
    BY DEF Answers, Queries
  <2>3. CASE Answer(h, "conflict")
    BY <1>3, <2>2, <2>3, <1>b DEF UserExists
  <2>4. CASE Goto(h, "create user") /\ UNCHANGED read
    BY <1>3, <2>1, <2>2, <2>4, <1>g, <1>t DEF UserExists, Goto, TypeOK, RegisterQueries, RefreshQueries
  <2> QED
    BY <1>3, <2>3, <2>4 DEF UserExists
<1>4. ASSUME NEW h \in Handlers, CreateUserTaken(h)
      PROVE  IInv'
  <2>1. "error" \in Answers
    BY DEF Answers
  <2> QED
    BY <1>4, <2>1, <1>b DEF CreateUserTaken
<1>5. ASSUME NEW h \in Handlers, GetUser(h)
      PROVE  IInv'
  <2>1. pc[h] = "get user" /\ req[h].op = "login" /\ pc[h] \in Queries /\ ~dead[h]
    BY <1>5, <1>t DEF GetUser, HandlerInv, DeadStops, Queries, Answers
  <2>2. "unauthorized" \in Answers /\ "store token" \in Queries
    BY DEF Answers, Queries
  <2>3. CASE Answer(h, "unauthorized")
    BY <1>5, <2>2, <2>3, <1>b DEF GetUser
  <2>4. CASE Goto(h, "store token") /\ UNCHANGED read
    BY <1>5, <2>1, <2>2, <2>4, <1>g, <1>t DEF GetUser, Goto, TypeOK, RegisterQueries, RefreshQueries
  <2> QED
    BY <1>5, <2>3, <2>4 DEF GetUser
<1>6. ASSUME NEW h \in Handlers, GetRefreshToken(h)
      PROVE  IInv'
  <2> DEFINE row == rows[req[h].token]
  <2>1. /\ pc[h] = "get token" /\ req[h].op = "refresh" /\ pc[h] \in Queries
        /\ req[h] \in BoundRequests
    BY <1>6, <1>t DEF GetRefreshToken, HandlerInv, Queries, RefreshQueries
  <2>2. req[h].token \in Tokens
    BY <2>1, RequestFields
  <2>3. row \in Rows \cup {None}
    BY <2>2, <1>t DEF TypeOK
  <2>4. CASE Usable(row)
    <3>1. /\ Goto(h, "revoke") /\ read' = [read EXCEPT ![h] = row]
          /\ row \in Rows /\ ~row.revoked /\ ~row.expired
      BY <1>6, <2>3, <2>4 DEF GetRefreshToken, Usable
    <3>2. ~dead[h]
      BY <2>1, <3>1, <1>t DEF DeadStops
    <3>3. "revoke" \in Queries
      BY DEF Queries
    <3>4. /\ read' \in [Handlers -> Rows \cup {None}] /\ read'[h] = row
          /\ \A x \in Handlers : x # h => read'[x] = read[x]
      BY <2>3, <3>1, <1>t DEF TypeOK
    <3> QED
      BY <1>6, <2>1, <3>1, <3>2, <3>3, <3>4, <1>g DEF GetRefreshToken, Goto, RegisterQueries, RefreshQueries
  <2>5. CASE ~Usable(row)
    <3>1. Answer(h, "unauthorized") /\ "unauthorized" \in Answers
      BY <1>6, <2>5 DEF GetRefreshToken, Answers
    <3> QED
      BY <1>6, <3>1, <1>b DEF GetRefreshToken
  <2> QED
    BY <2>4, <2>5
<1>7. ASSUME NEW h \in Handlers, GetUserByID(h)
      PROVE  IInv'
  <2>1. /\ pc[h] = "get user by id" /\ req[h].op = "refresh" /\ pc[h] \in Queries
        /\ read[h] \in Rows /\ rows[req[h].token] # None /\ rows[req[h].token].revoked
    BY <1>7, <1>t DEF GetUserByID, HandlerInv, RevokedBefore, Queries, RefreshQueries
  <2>2. ~dead[h]
    BY <2>1, <1>t DEF DeadStops, Answers
  <2>3. "store token" \in Queries
    BY DEF Queries
  <2> QED
    BY <1>7, <2>1, <2>2, <2>3, <1>g, <1>t DEF GetUserByID, Goto, TypeOK, RegisterQueries, RefreshQueries
<1>8. ASSUME NEW h \in Handlers, CreateUser(h)
      PROVE  IInv'
  <2>1. /\ pc[h] = "create user" /\ req[h].op = "register" /\ req[h] \in BoundRequests
        /\ users[req[h].email] = None
        /\ users' = [users EXCEPT ![req[h].email] = req[h].password]
        /\ UNCHANGED <<rows, dead, holder, redeemed>>
    BY <1>8, <1>t DEF CreateUser, InsertUser, HandlerInv, RegisterQueries, Queries
  <2>2. req[h].email \in Emails /\ req[h].password \in Passwords
    BY <2>1, RequestFields
  <2>3. PICK s \in {"created", "error"} : Answer(h, s)
    BY <1>8 DEF CreateUser
  <2>a. /\ pc' \in [Handlers -> Answers \cup Queries]
        /\ req' \in [Handlers -> BoundRequests \cup {None}]
        /\ read' \in [Handlers -> Rows \cup {None}]
        /\ \A x \in Handlers : x # h => pc'[x] = pc[x] /\ req'[x] = req[x] /\ read'[x] = read[x]
        /\ pc'[h] = s /\ pc'[h] \notin Queries
    <3>1. s \in Answers
      BY DEF Answers
    <3> QED
      BY <3>1, <2>3, <1>a
  <2>4. /\ told' \in [Emails -> SUBSET Passwords]
        /\ told'[req[h].email] \subseteq told[req[h].email] \cup {req[h].password}
        /\ \A e \in Emails : e # req[h].email => told'[e] = told[e]
    <3>1. CASE told' = [told EXCEPT ![req[h].email] = @ \cup {req[h].password}]
      BY <2>2, <3>1, <1>t DEF TypeOK
    <3>2. CASE UNCHANGED told
      BY <2>2, <3>2, <1>t DEF TypeOK
    <3> QED
      BY <1>8, <3>1, <3>2 DEF CreateUser
  <2>5. TypeOK'
    BY <2>1, <2>2, <2>a, <2>4, <1>t DEF TypeOK
  <2>b. pc'[h] \notin Queries \cup RegisterQueries \cup RefreshQueries
          /\ pc'[h] \notin {"get user", "store token", "revoke", "get user by id"}
    BY <2>a DEF Queries, RegisterQueries, RefreshQueries
  <2>c. HandlerInv'
    BY <2>1, <2>a, <2>b, <1>t DEF HandlerInv
  <2>d. RevokedBefore'
    BY <2>1, <2>a, <2>b, <1>t DEF RevokedBefore
  <2>6. HandlerInv' /\ RevokedBefore'
    BY <2>c, <2>d
  <2>7. DeadStops'
    <3>1. ~dead[h]
      BY <2>1, <1>t DEF DeadStops, Answers
    <3> QED
      BY <2>1, <2>a, <3>1, <1>t DEF DeadStops
  <2>8. ToldIsRegistered'
    <3> SUFFICES ASSUME NEW e \in Emails
                 PROVE  told'[e] \subseteq {users'[e]}
      BY DEF ToldIsRegistered
    <3>1. CASE e = req[h].email
      \* Nobody has been told before: there was no user, and a password is not None.
      <4>1. told[e] \subseteq Passwords /\ told[e] \subseteq {None} /\ None \notin Passwords
        BY <2>1, <3>1, <1>t, ConstantsAssumption DEF TypeOK, ToldIsRegistered
      <4>2. told[e] = {}
        BY <4>1
      <4>3. users'[e] = req[h].password
        BY <2>1, <2>2, <3>1, <1>t DEF TypeOK
      <4> QED
        BY <2>4, <3>1, <4>2, <4>3
    <3>2. CASE e # req[h].email
      <4>1. users'[e] = users[e]
        BY <2>1, <3>2, <1>t DEF TypeOK
      <4> QED
        BY <2>4, <3>2, <4>1, <1>t DEF ToldIsRegistered
    <3> QED
      BY <3>1, <3>2
  <2>9. HeldIsStored'
    BY <2>1, <1>t DEF HeldIsStored
  <2> QED
    BY <2>5, <2>6, <2>7, <2>8, <2>9 DEF IInv
<1>9. ASSUME NEW h \in Handlers, RevokeRefreshToken(h)
      PROVE  IInv'
  <2>1. /\ pc[h] = "revoke" /\ req[h].op = "refresh" /\ req[h] \in BoundRequests
        /\ read[h] \in Rows /\ rows[req[h].token] \in Rows
        /\ UNCHANGED <<users, dead, history>>
    BY <1>9, <1>t DEF RevokeRefreshToken, HandlerInv, RefreshQueries, Queries
  <2>2. req[h].token \in Tokens
    BY <2>1, RequestFields
  \* The handler goes on with its request, or answers.
  <2>3. /\ pc' \in [Handlers -> Answers \cup Queries]
        /\ req' \in [Handlers -> BoundRequests \cup {None}]
        /\ read' \in [Handlers -> Rows \cup {None}]
        /\ \A x \in Handlers : x # h => pc'[x] = pc[x] /\ req'[x] = req[x] /\ read'[x] = read[x]
        /\ \/ pc'[h] = "get user by id" /\ req'[h] = req[h] /\ read'[h] = read[h]
           \/ pc'[h] \notin Queries
    <3>1. CASE Goto(h, "get user by id") /\ UNCHANGED read
      BY <3>1, <1>t DEF Goto, TypeOK, Queries
    <3>2. CASE Answer(h, "error")
      <4>1. "error" \in Answers
        BY DEF Answers
      <4> QED
        BY <3>2, <4>1, <1>a
    <3> QED
      BY <1>9, <3>1, <3>2 DEF RevokeRefreshToken
  <2>4. /\ rows' \in [Tokens -> Rows \cup {None}]
        /\ rows'[req[h].token] \in Rows
        /\ rows'[req[h].token].revoked
        /\ rows'[req[h].token].user = rows[req[h].token].user
        /\ rows'[req[h].token].expired = rows[req[h].token].expired
        /\ \A t \in Tokens : t # req[h].token => rows'[t] = rows[t]
    <3>1. rows' = [rows EXCEPT ![req[h].token].revoked = TRUE]
      BY <1>9 DEF RevokeRefreshToken
    <3> QED
      BY <2>1, <2>2, <3>1, <1>t DEF TypeOK, Rows
  <2>n. None \notin Rows
    BY ConstantsAssumption
  <2>5. TypeOK'
    BY <2>1, <2>3, <2>4, <1>t DEF TypeOK
  <2>m. \A x \in Handlers : pc[x] \in Queries /\ req[x].op = "refresh" => req[x].token \in Tokens
    BY <1>t, RequestFields DEF HandlerInv
  \* What is revoked or expired stays so.
  <2>k. \A t \in Tokens : rows[t] # None =>
          /\ rows'[t] # None
          /\ rows[t].revoked => rows'[t].revoked
          /\ rows[t].expired => rows'[t].expired
    BY <2>2, <2>4, <2>n
  <2>6. HandlerInv'
    <3> SUFFICES ASSUME NEW x \in Handlers, pc'[x] \in Queries
                 PROVE  /\ req'[x] \in BoundRequests
                        /\ pc'[x] \in RegisterQueries => req'[x].op = "register"
                        /\ pc'[x] = "get user" => req'[x].op = "login"
                        /\ pc'[x] \in RefreshQueries => req'[x].op = "refresh"
                        /\ pc'[x] = "store token" => req'[x].op \in {"login", "refresh"}
                        /\ pc'[x] \in {"revoke", "get user by id"} => read'[x] \in Rows /\ rows'[req'[x].token] \in Rows
                        /\ pc'[x] = "store token" /\ req'[x].op = "refresh" => read'[x] \in Rows
      BY DEF HandlerInv, Queries, RegisterQueries, RefreshQueries
    <3>1. \A t \in Tokens : rows[t] \in Rows => rows'[t] \in Rows
      BY <2>4
    <3>2. CASE x = h
      BY <2>1, <2>3, <2>4, <3>2 DEF RegisterQueries, RefreshQueries
    <3>3. CASE x # h
      <4>1. pc'[x] = pc[x] /\ req'[x] = req[x] /\ read'[x] = read[x]
        BY <2>3, <3>3
      <4>2. pc[x] \in {"revoke", "get user by id"} => rows'[req[x].token] \in Rows
        BY <3>1, <4>1, <2>m, <1>t DEF HandlerInv, RefreshQueries
      <4> QED
        BY <4>1, <4>2, <1>t DEF HandlerInv
    <3> QED
      BY <3>2, <3>3
  <2>7. RevokedBefore'
    <3>1. ASSUME NEW x \in Handlers, pc'[x] \in {"get user by id", "store token"}, req'[x].op = "refresh"
          PROVE  rows'[req'[x].token] # None /\ rows'[req'[x].token].revoked
      <4>1. CASE x = h
        BY <2>3, <2>4, <2>n, <3>1, <4>1 DEF Queries
      <4>2. CASE x # h
        <5>1. pc'[x] = pc[x] /\ req'[x] = req[x]
          BY <2>3, <4>2
        <5>2. req[x].token \in Tokens
          BY <3>1, <5>1, <2>m DEF Queries
        <5> QED
          BY <3>1, <5>1, <5>2, <2>k, <1>t DEF RevokedBefore
      <4> QED
        BY <4>1, <4>2
    <3>2. \A t \in Tokens : redeemed[t] # {} => rows'[t] # None /\ rows'[t].revoked
      BY <2>k, <1>t DEF RevokedBefore
    <3> QED
      BY <2>1, <3>1, <3>2 DEF RevokedBefore
  <2>8. DeadStops'
    <3> SUFFICES ASSUME NEW x \in Handlers, dead[x]
                 PROVE  /\ pc'[x] \in Answers \cup {"get token"} /\ pc'[x] # "ok"
                        /\ pc'[x] = "get token" =>
                             rows'[req'[x].token] # None /\ (rows'[req'[x].token].revoked \/ rows'[req'[x].token].expired)
      BY <2>1 DEF DeadStops
    <3>1. x # h
      BY <2>1, <1>t DEF DeadStops, Answers
    <3>2. pc'[x] = pc[x] /\ req'[x] = req[x]
      BY <2>3, <3>1
    <3>3. pc[x] = "get token" => req[x].op = "refresh" /\ req[x].token \in Tokens
      BY <2>m, <1>t DEF HandlerInv, Queries, RefreshQueries
    <3> QED
      BY <3>2, <3>3, <2>k, <1>t DEF DeadStops
  <2>9. ToldIsRegistered' /\ HeldIsStored'
    BY <2>1, <2>4, <2>n, <1>t DEF ToldIsRegistered, HeldIsStored
  <2> QED
    BY <2>5, <2>6, <2>7, <2>8, <2>9 DEF IInv
<1>10. ASSUME NEW h \in Handlers, NEW t \in Tokens, StoreRefreshToken(h, t)
      PROVE  IInv'
  <2> DEFINE stored == [user |-> TokenUser(h), revoked |-> FALSE, expired |-> FALSE]
  <2>1. /\ pc[h] = "store token" /\ req[h].op \in {"login", "refresh"} /\ req[h] \in BoundRequests
        /\ rows[t] = None
        /\ rows' = [rows EXCEPT ![t] = stored]
        /\ UNCHANGED <<users, dead, told>>
    BY <1>10, <1>t DEF StoreRefreshToken, Fresh, HandlerInv, Queries
  <2>2. TokenUser(h) \in Emails
    BY <2>1, <1>t, RequestFields DEF TokenUser, HandlerInv, Rows
  <2>3. /\ pc' \in [Handlers -> Answers \cup Queries]
        /\ req' \in [Handlers -> BoundRequests \cup {None}]
        /\ read' \in [Handlers -> Rows \cup {None}]
        /\ \A x \in Handlers : x # h => pc'[x] = pc[x] /\ req'[x] = req[x] /\ read'[x] = read[x]
        /\ pc'[h] \notin Queries
    <3>1. PICK s \in {"ok", "error"} : Answer(h, s)
      BY <1>10 DEF StoreRefreshToken, AnswerToken, LoseAnswer
    <3>2. s \in Answers
      BY DEF Answers
    <3> QED
      BY <3>1, <3>2, <1>a
  <2>n. None \notin Rows
    BY ConstantsAssumption
  <2>4. stored \in Rows
    BY <2>2 DEF Rows
  <2>5. /\ rows' \in [Tokens -> Rows \cup {None}]
        /\ rows'[t] = stored
        /\ \A u \in Tokens : rows[u] # None => rows'[u] = rows[u]
    BY <2>1, <2>4, <1>t DEF TypeOK
  <2>m. \A x \in Handlers : pc[x] \in Queries /\ req[x].op = "refresh" => req[x].token \in Tokens
    BY <1>t, RequestFields DEF HandlerInv
  <2>o. \A x \in Handlers : pc'[x] \in Queries =>
          pc'[x] = pc[x] /\ req'[x] = req[x] /\ read'[x] = read[x]
    BY <2>3
  \* Only a token whose row is revoked has been exchanged.
  <2>6. /\ holder' \in [Tokens -> Emails \cup {None}]
        /\ holder'[t] \in {holder[t], TokenUser(h)}
        /\ \A u \in Tokens : u # t => holder'[u] = holder[u]
        /\ redeemed' \in [Tokens -> SUBSET Tokens]
        /\ \A u \in Tokens : redeemed'[u] # {} => redeemed[u] # {} \/ (req[h].op = "refresh" /\ u = req[h].token)
    <3>1. /\ holder' \in [Tokens -> Emails \cup {None}]
          /\ holder'[t] \in {holder[t], TokenUser(h)}
          /\ \A u \in Tokens : u # t => holder'[u] = holder[u]
      <4>1. CASE LoseAnswer(h)
        BY <4>1, <1>t DEF LoseAnswer, TypeOK
      <4>2. CASE AnswerToken(h, t)
        BY <4>2, <2>2, <1>t DEF AnswerToken, TypeOK
      <4> QED
        BY <1>10, <4>1, <4>2 DEF StoreRefreshToken
    <3>2. /\ redeemed' \in [Tokens -> SUBSET Tokens]
          /\ \A u \in Tokens : redeemed'[u] # {} => redeemed[u] # {} \/ (req[h].op = "refresh" /\ u = req[h].token)
      BY <1>10, <1>t DEF StoreRefreshToken, Redeem, TypeOK
    <3> QED
      BY <3>1, <3>2
  <2>7. TypeOK'
    BY <2>1, <2>3, <2>5, <2>6, <1>t DEF TypeOK
  <2>8. HandlerInv'
    <3> SUFFICES ASSUME NEW x \in Handlers, pc'[x] \in Queries
                 PROVE  /\ req[x] \in BoundRequests
                        /\ pc'[x] \in RegisterQueries => req[x].op = "register"
                        /\ pc'[x] = "get user" => req[x].op = "login"
                        /\ pc'[x] \in RefreshQueries => req[x].op = "refresh"
                        /\ pc'[x] = "store token" => req[x].op \in {"login", "refresh"}
                        /\ pc'[x] \in {"revoke", "get user by id"} => read[x] \in Rows /\ rows'[req[x].token] \in Rows
                        /\ pc'[x] = "store token" /\ req[x].op = "refresh" => read[x] \in Rows
      BY <2>o DEF HandlerInv, Queries, RegisterQueries, RefreshQueries
    <3>1. pc'[x] = pc[x]
      BY <2>o
    <3>2. pc[x] \in {"revoke", "get user by id"} => rows'[req[x].token] \in Rows
      <4> SUFFICES ASSUME pc[x] \in {"revoke", "get user by id"}
                   PROVE  rows'[req[x].token] \in Rows
        OBVIOUS
      <4>1. req[x].op = "refresh" /\ rows[req[x].token] \in Rows
        BY <1>t DEF HandlerInv, RefreshQueries
      <4>2. req[x].token \in Tokens
        BY <4>1, <3>1, <2>m
      <4> QED
        BY <4>1, <4>2, <2>5, <2>n
    <3> QED
      BY <3>1, <3>2, <1>t DEF HandlerInv
  <2>9. RevokedBefore'
    <3>1. ASSUME NEW x \in Handlers, pc'[x] \in {"get user by id", "store token"}, req'[x].op = "refresh"
          PROVE  rows'[req'[x].token] # None /\ rows'[req'[x].token].revoked
      <4>1. pc'[x] = pc[x] /\ req'[x] = req[x] /\ req[x].token \in Tokens
        BY <3>1, <2>o, <2>m DEF Queries
      <4>2. rows[req[x].token] # None /\ rows[req[x].token].revoked
        BY <3>1, <4>1, <1>t DEF RevokedBefore
      <4> QED
        BY <4>1, <4>2, <2>5
    <3>2. ASSUME NEW u \in Tokens, redeemed'[u] # {}
          PROVE  rows'[u] # None /\ rows'[u].revoked
      <4>1. rows[u] # None /\ rows[u].revoked
        BY <3>2, <2>1, <2>6, <1>t DEF RevokedBefore
      <4> QED
        BY <4>1, <2>5
    <3> QED
      BY <2>1, <3>1, <3>2 DEF RevokedBefore
  <2>10. DeadStops'
    <3> SUFFICES ASSUME NEW x \in Handlers, dead[x]
                 PROVE  /\ pc'[x] \in Answers \cup {"get token"} /\ pc'[x] # "ok"
                        /\ pc'[x] = "get token" =>
                             rows'[req'[x].token] # None /\ (rows'[req'[x].token].revoked \/ rows'[req'[x].token].expired)
      BY <2>1 DEF DeadStops
    <3>1. x # h
      BY <2>1, <1>t DEF DeadStops, Answers
    <3>2. pc'[x] = pc[x] /\ req'[x] = req[x]
      BY <2>3, <3>1
    <3>3. pc[x] = "get token" => req[x].op = "refresh" /\ req[x].token \in Tokens
      BY <2>m, <1>t DEF HandlerInv, Queries, RefreshQueries
    <3> QED
      BY <3>2, <3>3, <2>5, <1>t DEF DeadStops
  <2>11. ToldIsRegistered'
    BY <2>1, <1>t DEF ToldIsRegistered
  <2>12. HeldIsStored'
    <3> SUFFICES ASSUME NEW u \in Tokens, holder'[u] # None
                 PROVE  rows'[u] # None /\ rows'[u].user = holder'[u]
      BY DEF HeldIsStored
    <3>1. CASE u = t
      <4>1. holder[u] = None
        BY <2>1, <3>1, <1>t DEF HeldIsStored
      <4>2. holder'[u] = TokenUser(h)
        BY <2>6, <3>1, <4>1
      <4>3. stored # None /\ stored.user = TokenUser(h)
        BY <2>4, <2>n
      <4> QED
        BY <2>5, <3>1, <4>2, <4>3
    <3>2. CASE u # t
      <4>1. holder'[u] = holder[u]
        BY <2>6, <3>2
      <4> QED
        BY <2>5, <4>1, <1>t DEF HeldIsStored
    <3> QED
      BY <3>1, <3>2
  <2> QED
    BY <2>7, <2>8, <2>9, <2>10, <2>11, <2>12 DEF IInv
<1>11. ASSUME NEW t \in Tokens, Expire(t)
       PROVE  IInv'
  <2>1. /\ rows' \in [Tokens -> Rows \cup {None}]
        /\ \A u \in Tokens : rows[u] # None =>
             /\ rows'[u] # None /\ rows'[u] \in Rows
             /\ rows'[u].user = rows[u].user
             /\ rows'[u].revoked = rows[u].revoked
             /\ rows[u].expired => rows'[u].expired
    <3>1. rows[t] \in Rows /\ rows' = [rows EXCEPT ![t].expired = TRUE] /\ None \notin Rows
      BY <1>11, <1>t, ConstantsAssumption DEF Expire, TypeOK
    <3> QED
      BY <3>1, <1>t DEF TypeOK, Rows
  <2>2. UNCHANGED <<users, pc, req, read, dead, told, holder, redeemed>>
    BY <1>11 DEF Expire
  <2>m. \A x \in Handlers : pc[x] \in Queries /\ req[x].op = "refresh" => req[x].token \in Tokens
    BY <1>t, RequestFields DEF HandlerInv
  <2>n. None \notin Rows
    BY ConstantsAssumption
  <2>3. TypeOK'
    BY <2>1, <2>2, <1>t DEF TypeOK
  <2>4. HandlerInv'
    <3>1. ASSUME NEW x \in Handlers, pc[x] \in {"revoke", "get user by id"}
          PROVE  rows'[req[x].token] \in Rows
      <4>1. req[x].op = "refresh" /\ rows[req[x].token] \in Rows /\ pc[x] \in Queries
        BY <3>1, <1>t DEF HandlerInv, RefreshQueries, Queries
      <4> QED
        BY <4>1, <2>1, <2>m, <2>n
    <3> QED
      BY <2>2, <3>1, <1>t DEF HandlerInv
  <2>5. RevokedBefore'
    <3>1. ASSUME NEW x \in Handlers, pc[x] \in {"get user by id", "store token"}, req[x].op = "refresh"
          PROVE  rows'[req[x].token] # None /\ rows'[req[x].token].revoked
      <4>1. pc[x] \in Queries
        BY <3>1 DEF Queries
      <4> QED
        BY <3>1, <4>1, <2>1, <2>m, <1>t DEF RevokedBefore
    <3> QED
      BY <2>1, <2>2, <3>1, <1>t DEF RevokedBefore
  <2>6. DeadStops'
    <3>1. ASSUME NEW x \in Handlers, pc[x] = "get token"
          PROVE  req[x].token \in Tokens
      BY <3>1, <2>m, <1>t DEF HandlerInv, Queries, RefreshQueries
    <3> QED
      BY <2>1, <2>2, <3>1, <1>t DEF DeadStops
  <2>7. ToldIsRegistered' /\ HeldIsStored'
    BY <2>1, <2>2, <1>t DEF ToldIsRegistered, HeldIsStored
  <2> QED
    BY <2>3, <2>4, <2>5, <2>6, <2>7 DEF IInv
<1>12. CASE UNCHANGED vars
  BY <1>12, <1>t DEF vars, IInv, TypeOK, HandlerInv, RevokedBefore, DeadStops, ToldIsRegistered, HeldIsStored
<1> QED
  BY <1>1, <1>2, <1>3, <1>4, <1>5, <1>6, <1>7, <1>8, <1>9, <1>10, <1>11, <1>12
     DEF Next, Handle, Register, Refresh

----------------------------------------------------------------------------
(* How many tokens one is exchanged for.                                   *)

\* The requests that have read the row of t while it could be used, and have not
\* stored a token for it yet.
Exchanging(t) ==
  {h \in Handlers : pc[h] \in {"revoke", "get user by id", "store token"} /\ req[h].op = "refresh" /\ req[h].token = t}

FewInv ==
  \A t \in Tokens :
    /\ IsFiniteSet(redeemed[t])
    /\ Cardinality(redeemed[t]) + Cardinality(Exchanging(t)) <= Cardinality(Handlers)

\* The requests are finitely many, those that exchange t among them.
LEMMA ExchangingFinite ==
  ASSUME NEW S, S \subseteq Handlers
  PROVE  /\ IsFiniteSet(S) /\ Cardinality(S) \in Nat /\ Cardinality(Handlers) \in Nat
         /\ Cardinality(S) <= Cardinality(Handlers)
BY ConstantsAssumption, FS_Subset, FS_CardinalityType

LEMMA InitFew == Init => FewInv
<1> SUFFICES ASSUME Init, NEW t \in Tokens
             PROVE  /\ IsFiniteSet(redeemed[t])
                    /\ Cardinality(redeemed[t]) + Cardinality(Exchanging(t)) <= Cardinality(Handlers)
  BY DEF FewInv
<1>1. redeemed[t] = {} /\ Exchanging(t) = {}
  BY DEF Init, Exchanging
<1>2. IsFiniteSet({}) /\ Cardinality({}) = 0
  BY FS_EmptySet
<1>3. Cardinality(Handlers) \in Nat
  BY ExchangingFinite
<1> QED
  BY <1>1, <1>2, <1>3

\* The bound is kept where t is exchanged for no other token and by no other request.
LEMMA FewKept ==
  ASSUME FewInv, NEW t \in Tokens, redeemed'[t] = redeemed[t], Exchanging(t)' \subseteq Exchanging(t)
  PROVE  /\ IsFiniteSet(redeemed'[t])
         /\ Cardinality(redeemed'[t]) + Cardinality(Exchanging(t)') <= Cardinality(Handlers)
<1>1. Exchanging(t) \subseteq Handlers
  BY DEF Exchanging
<1>2. Cardinality(Exchanging(t)') <= Cardinality(Exchanging(t)) /\ Cardinality(Exchanging(t)') \in Nat
  BY <1>1, ExchangingFinite, FS_Subset, FS_CardinalityType
<1>3. Cardinality(Exchanging(t)) \in Nat /\ Cardinality(Handlers) \in Nat
  BY <1>1, ExchangingFinite
<1>4. IsFiniteSet(redeemed[t]) /\ Cardinality(redeemed[t]) + Cardinality(Exchanging(t)) <= Cardinality(Handlers)
  BY DEF FewInv
<1>5. Cardinality(redeemed[t]) \in Nat
  BY <1>4, FS_CardinalityType
<1> QED
  BY <1>2, <1>3, <1>4, <1>5

LEMMA NextFew == IInv /\ FewInv /\ [Next]_vars => FewInv'
<1> SUFFICES ASSUME IInv, FewInv, [Next]_vars, NEW t \in Tokens
             PROVE  /\ IsFiniteSet(redeemed'[t])
                    /\ Cardinality(redeemed'[t]) + Cardinality(Exchanging(t)') <= Cardinality(Handlers)
  BY DEF FewInv
<1> USE DEF tables, handlerVars, history
<1>t. TypeOK /\ HandlerInv /\ RevokedBefore
  BY DEF IInv
<1>n. \A S \in SUBSET Handlers :
        /\ IsFiniteSet(S) /\ Cardinality(S) \in Nat /\ Cardinality(Handlers) \in Nat
        /\ Cardinality(S) <= Cardinality(Handlers)
  BY ExchangingFinite
<1>1. ASSUME NEW h \in Handlers, GetRefreshToken(h), Usable(rows[req[h].token])
      PROVE  /\ IsFiniteSet(redeemed'[t])
             /\ Cardinality(redeemed'[t]) + Cardinality(Exchanging(t)') <= Cardinality(Handlers)
  <2>1. pc' = [pc EXCEPT ![h] = "revoke"] /\ UNCHANGED <<req, redeemed>>
    BY <1>1 DEF GetRefreshToken, Goto
  <2>2. CASE req[h].token = t
    <3>1. redeemed[t] = {}
      BY <1>1, <1>t, <2>2 DEF Usable, RevokedBefore
    <3>2. IsFiniteSet(redeemed'[t]) /\ Cardinality(redeemed'[t]) = 0
      BY <2>1, <3>1, FS_EmptySet
    <3>3. Exchanging(t)' \subseteq Handlers
      BY DEF Exchanging
    <3> QED
      BY <1>n, <3>2, <3>3
  <2>3. CASE req[h].token # t
    <3>1. Exchanging(t)' \subseteq Exchanging(t)
      BY <1>t, <2>1, <2>3 DEF Exchanging, TypeOK
    <3> QED
      BY <2>1, <3>1, FewKept
  <2> QED
    BY <2>2, <2>3
<1>2. ASSUME NEW h \in Handlers, NEW u \in Tokens, StoreRefreshToken(h, u)
      PROVE  /\ IsFiniteSet(redeemed'[t])
             /\ Cardinality(redeemed'[t]) + Cardinality(Exchanging(t)') <= Cardinality(Handlers)
  <2>1. PICK s \in {"ok", "error"} : Answer(h, s)
    BY <1>2 DEF StoreRefreshToken, AnswerToken, LoseAnswer
  <2>2. Exchanging(t)' \subseteq Exchanging(t) \ {h}
    BY <1>t, <2>1 DEF Answer, Exchanging, TypeOK
  <2>3. CASE req[h].op = "refresh" /\ req[h].token = t
    <3>1. redeemed'[t] = redeemed[t] \cup {u}
      BY <1>2, <1>t, <2>3 DEF StoreRefreshToken, Redeem, TypeOK
    <3>2. h \in Exchanging(t)
      BY <1>2, <2>3 DEF StoreRefreshToken, Exchanging
    <3>3. IsFiniteSet(redeemed[t]) /\ Cardinality(redeemed[t]) + Cardinality(Exchanging(t)) <= Cardinality(Handlers)
      BY DEF FewInv
    <3>4. /\ IsFiniteSet(redeemed'[t]) /\ Cardinality(redeemed'[t]) \in Nat /\ Cardinality(redeemed[t]) \in Nat
          /\ Cardinality(redeemed'[t]) <= Cardinality(redeemed[t]) + 1
      <4>1. Cardinality(redeemed[t]) \in Nat
        BY <3>3, FS_CardinalityType
      <4>2. /\ IsFiniteSet(redeemed[t] \cup {u})
            /\ Cardinality(redeemed[t] \cup {u}) \in {Cardinality(redeemed[t]), Cardinality(redeemed[t]) + 1}
        BY <3>3, FS_AddElement
      <4> QED
        BY <3>1, <4>1, <4>2
    <3>5. /\ IsFiniteSet(Exchanging(t) \ {h})
          /\ Cardinality(Exchanging(t) \ {h}) = Cardinality(Exchanging(t)) - 1
      <4>1. IsFiniteSet(Exchanging(t))
        BY <1>n DEF Exchanging
      <4> QED
        BY <3>2, <4>1, FS_RemoveElement
    <3>6. Cardinality(Exchanging(t)') <= Cardinality(Exchanging(t) \ {h})
      BY <2>2, <3>5, FS_Subset
    <3>7. Exchanging(t) \subseteq Handlers /\ Exchanging(t)' \subseteq Handlers
      BY DEF Exchanging
    <3> QED
      BY <1>n, <3>3, <3>4, <3>5, <3>6, <3>7
  <2>4. CASE ~(req[h].op = "refresh" /\ req[h].token = t)
    <3>1. redeemed'[t] = redeemed[t]
      BY <1>2, <1>t, <2>4 DEF StoreRefreshToken, Redeem, TypeOK
    <3> QED
      BY <2>2, <3>1, FewKept
  <2> QED
    BY <2>3, <2>4
\* No other step reads the row of a token or stores one.
<1>3. ASSUME UNCHANGED redeemed, NEW h \in Handlers,
             \A x \in Handlers : x # h => pc'[x] = pc[x] /\ req'[x] = req[x],
             \/ pc'[h] \notin {"revoke", "get user by id", "store token"}
             \/ h \in Exchanging(t) /\ UNCHANGED req
             \/ req'[h].op # "refresh"
      PROVE  /\ IsFiniteSet(redeemed'[t])
             /\ Cardinality(redeemed'[t]) + Cardinality(Exchanging(t)') <= Cardinality(Handlers)
  <2>1. Exchanging(t)' \subseteq Exchanging(t)
    BY <1>3 DEF Exchanging
  <2> QED
    BY <1>3, <2>1, FewKept
<1>a. ASSUME NEW h \in Handlers, NEW s \in Answers, Answer(h, s), UNCHANGED redeemed
      PROVE  /\ IsFiniteSet(redeemed'[t])
             /\ Cardinality(redeemed'[t]) + Cardinality(Exchanging(t)') <= Cardinality(Handlers)
  <2>1. /\ \A x \in Handlers : x # h => pc'[x] = pc[x] /\ req'[x] = req[x]
        /\ pc'[h] \notin {"revoke", "get user by id", "store token"}
    BY <1>a, <1>t DEF Answer, Answers, TypeOK
  <2> QED
    BY <1>3, <1>a, <2>1
<1>w. {"bad request", "created", "conflict", "unauthorized", "error"} \subseteq Answers
  BY DEF Answers
<1>4. ASSUME NEW h \in Handlers, NEW q \in Requests, Receive(h, q)
      PROVE  /\ IsFiniteSet(redeemed'[t])
             /\ Cardinality(redeemed'[t]) + Cardinality(Exchanging(t)') <= Cardinality(Handlers)
  <2>1. CASE Binds(q)
    <3>1. pc' = [pc EXCEPT ![h] = FirstQuery(q.op)] /\ req' = [req EXCEPT ![h] = q] /\ UNCHANGED redeemed
      BY <1>4, <2>1 DEF Receive
    <3>2. FirstQuery(q.op) \in {"user exists", "get user", "get token"}
      BY <2>1, BoundFields, RequestFields DEF FirstQuery
    <3> QED
      BY <1>3, <1>t, <3>1, <3>2 DEF TypeOK
  <2>2. CASE ~Binds(q)
    BY <1>4, <1>a, <1>w, <2>2 DEF Receive
  <2> QED
    BY <2>1, <2>2
<1>5. ASSUME NEW h \in Handlers, Fail(h) \/ Register(h) \/ GetUser(h)
      PROVE  /\ IsFiniteSet(redeemed'[t])
             /\ Cardinality(redeemed'[t]) + Cardinality(Exchanging(t)') <= Cardinality(Handlers)
  <2>1. CASE \E s \in {"created", "conflict", "unauthorized", "error"} : Answer(h, s)
    BY <1>5, <1>a, <1>w, <2>1 DEF Fail, Register, UserExists, CreateUser, CreateUserTaken, GetUser
  <2>2. CASE UserExists(h) /\ Goto(h, "create user")
    BY <1>3, <1>t, <2>2 DEF UserExists, Goto, TypeOK
  <2>3. CASE GetUser(h) /\ Goto(h, "store token")
    <3>1. req[h].op = "login"
      BY <1>t, <2>3 DEF GetUser, HandlerInv
    <3> QED
      BY <1>3, <1>t, <2>3, <3>1 DEF GetUser, Goto, TypeOK
  <2> QED
    BY <1>5, <2>1, <2>2, <2>3 DEF Fail, Register, UserExists, CreateUser, CreateUserTaken, GetUser
<1>6. ASSUME NEW h \in Handlers, RevokeRefreshToken(h) \/ GetUserByID(h)
      PROVE  /\ IsFiniteSet(redeemed'[t])
             /\ Cardinality(redeemed'[t]) + Cardinality(Exchanging(t)') <= Cardinality(Handlers)
  <2>1. CASE Answer(h, "error")
    BY <1>6, <1>a, <1>w, <2>1 DEF RevokeRefreshToken, GetUserByID
  <2>2. ASSUME NEW s, Goto(h, s)
        PROVE  /\ IsFiniteSet(redeemed'[t])
               /\ Cardinality(redeemed'[t]) + Cardinality(Exchanging(t)') <= Cardinality(Handlers)
    <3>1. UNCHANGED <<req, redeemed>> /\ pc[h] \in {"revoke", "get user by id"}
      BY <1>6, <2>2 DEF RevokeRefreshToken, GetUserByID, Goto
    <3>2. Exchanging(t)' \subseteq Exchanging(t)
      BY <1>t, <2>2, <3>1 DEF Goto, Exchanging, TypeOK
    <3> QED
      BY <3>1, <3>2, FewKept
  <2> QED
    BY <1>6, <2>1, <2>2 DEF RevokeRefreshToken, GetUserByID
<1>7. ASSUME NEW h \in Handlers, GetRefreshToken(h), ~Usable(rows[req[h].token])
      PROVE  /\ IsFiniteSet(redeemed'[t])
             /\ Cardinality(redeemed'[t]) + Cardinality(Exchanging(t)') <= Cardinality(Handlers)
  BY <1>7, <1>a, <1>w DEF GetRefreshToken
<1>8. CASE (\E u \in Tokens : Expire(u)) \/ UNCHANGED vars
  <2>1. UNCHANGED <<pc, req, redeemed>>
    BY <1>8 DEF Expire, vars
  <2>2. Exchanging(t)' \subseteq Exchanging(t)
    BY <2>1 DEF Exchanging
  <2> QED
    BY <2>1, <2>2, FewKept
<1> QED
  BY <1>1, <1>2, <1>4, <1>5, <1>6, <1>7, <1>8 DEF Next, Handle, Refresh

----------------------------------------------------------------------------
LEMMA Invariance == Spec => []IInv
<1> QED
  BY InitInv, NextInv, PTL DEF Spec

\* Every handler is at one of its queries or has answered, with a request that it
\* bound, and the tables hold whole rows.
THEOREM AuthTypeCorrect == Spec => []TypeOK
<1>1. IInv => TypeOK
  BY DEF IInv
<1> QED
  BY <1>1, Invariance, PTL

\* However many registrations of an email run at once, who was answered 201 finds its
\* own password in the table: the insertion that fails on the UNIQUE email, not the
\* query before it, decides.
THEOREM ToldCanLogIn == Spec => []ToldIsRegistered
<1>1. IInv => ToldIsRegistered
  BY DEF IInv
<1> QED
  BY <1>1, Invariance, PTL

\* No failure between the queries of login and refresh leaves a client with a token
\* that the table does not know, or knows of another user.
THEOREM HeldTokensStored == Spec => []HeldIsStored
<1>1. IInv => HeldIsStored
  BY DEF IInv
<1> QED
  BY <1>1, Invariance, PTL

\* A token that was exchanged, or that has expired, buys no other from a refresh that
\* starts afterwards, whatever other refreshes are under way.
THEOREM LateRefreshRefused == Spec => []DeadTokenRefused
<1>1. IInv => DeadTokenRefused
  BY DEF IInv, DeadStops, DeadTokenRefused, Answers
<1> QED
  BY <1>1, Invariance, PTL

\* What was read before a token was revoked may be used after it, but clients cannot
\* multiply a token by asking again.
FewSuccessors == \A t \in Tokens : Cardinality(redeemed[t]) <= Cardinality(Handlers)

\* One refresh token is exchanged for as many tokens as requests are served at the
\* same time, and for no more: a request that read its row before it was revoked
\* exchanges it once, and none that reads it later does.
THEOREM ExchangesBounded == Spec => []FewSuccessors
<1>1. IInv /\ FewInv => FewSuccessors
  <2> SUFFICES ASSUME FewInv, NEW t \in Tokens
               PROVE  Cardinality(redeemed[t]) <= Cardinality(Handlers)
    BY DEF FewSuccessors
  <2>1. IsFiniteSet(redeemed[t]) /\ Cardinality(redeemed[t]) + Cardinality(Exchanging(t)) <= Cardinality(Handlers)
    BY DEF FewInv
  <2>2. Cardinality(Exchanging(t)) \in Nat /\ Cardinality(Handlers) \in Nat
    BY ExchangingFinite DEF Exchanging
  <2>3. Cardinality(redeemed[t]) \in Nat
    BY <2>1, FS_CardinalityType
  <2> QED
    BY <2>1, <2>2, <2>3
<1>2. Spec => [](IInv /\ FewInv)
  BY InitInv, NextInv, InitFew, NextFew, PTL DEF Spec
<1> QED
  BY <1>1, <1>2, PTL
=============================================================================
