-------------------------------- MODULE Auth --------------------------------
(***************************************************************************)
(* The authentication service (services/auth): the handlers of register,   *)
(* login and refresh, which run concurrently, and the two tables they      *)
(* share.  Each query is a step of its own; no transaction spans two.      *)
(*                                                                         *)
(* A user is its email, a password hash the password, and a refresh token, *)
(* its hash and the id of its row are one; they are injective.  The clock  *)
(* is the step after which a row's expires_at has passed.                  *)
(***************************************************************************)
EXTENDS Naturals, FiniteSets

CONSTANTS
  Handlers,    \* requests that are served at the same time
  Emails,      \* those of users
  Passwords,
  Tokens,      \* bound: the raw refresh tokens ever generated
  None

Rows == [user : Emails, revoked : BOOLEAN, expired : BOOLEAN]

ASSUME ConstantsAssumption ==
  /\ IsFiniteSet(Handlers)
  /\ None \notin Emails \cup Passwords \cup Tokens \cup Rows

\* What the handlers bind; None stands for a field that is missing or malformed.
Requests ==
  [op : {"register", "login"}, email : Emails \cup {None}, password : Passwords]
    \cup [op : {"refresh"}, token : Tokens \cup {None}]

VARIABLES
  users,       \* table users: the password of each email
  rows,        \* table refresh_tokens
  pc,          \* the query each handler is about to make, or how it answered
  req,         \* its request
  read,        \* the row that it read
  told,        \* history: passwords for which a user was told that it registered
  holder,      \* history: the user that was given each token
  redeemed,    \* history: the tokens that were stored in exchange for each
  dead         \* history: whether the last request was a refresh whose token had been
               \*          exchanged or had expired before it came

tables == <<users, rows>>
handlerVars == <<pc, req, read, dead>>
history == <<told, holder, redeemed>>
vars == <<tables, handlerVars, history>>

Answers == {"idle", "bad request", "created", "ok", "conflict", "unauthorized", "error"}

Init ==
  /\ users = [e \in Emails |-> None]
  /\ rows = [t \in Tokens |-> None]
  /\ pc = [h \in Handlers |-> "idle"]
  /\ req = [h \in Handlers |-> None]
  /\ read = [h \in Handlers |-> None]
  /\ told = [e \in Emails |-> {}]
  /\ holder = [t \in Tokens |-> None]
  /\ redeemed = [t \in Tokens |-> {}]
  /\ dead = [h \in Handlers |-> FALSE]

Goto(h, query) == pc' = [pc EXCEPT ![h] = query] /\ UNCHANGED req

\* The handler answers and returns.
Answer(h, a) ==
  /\ pc' = [pc EXCEPT ![h] = a]
  /\ req' = [req EXCEPT ![h] = None]
  /\ read' = [read EXCEPT ![h] = None]

\* The handler answers 400 to what it cannot bind.
Binds_Unchecked(q) == TRUE
Binds(q) == IF q.op = "refresh" THEN q.token # None ELSE q.email # None

FirstQuery(op) ==
  CASE op = "register" -> "user exists"
    [] op = "login" -> "get user"
    [] op = "refresh" -> "get token"

Receive(h, q) ==
  /\ pc[h] \in Answers
  /\ IF Binds(q)
       THEN /\ req' = [req EXCEPT ![h] = q]
            /\ pc' = [pc EXCEPT ![h] = FirstQuery(q.op)]
            /\ dead' = [dead EXCEPT ![h] =
                 q.op = "refresh" /\ (redeemed[q.token] # {} \/ (rows[q.token] # None /\ rows[q.token].expired))]
            /\ UNCHANGED read
       ELSE Answer(h, "bad request") /\ dead' = [dead EXCEPT ![h] = FALSE]
  /\ UNCHANGED <<tables, history>>

\* A query, the hashing or the signing fails before it had an effect, or the client
\* went away and cancelled the context: 500.
Fail(h) ==
  /\ pc[h] \notin Answers
  /\ Answer(h, "error")
  /\ UNCHANGED <<tables, dead, history>>

----------------------------------------------------------------------------
(* Register.                                                               *)

UserExists(h) ==
  /\ pc[h] = "user exists"
  /\ IF users[req[h].email] # None
       THEN Answer(h, "conflict")
       ELSE Goto(h, "create user") /\ UNCHANGED read
  /\ UNCHANGED <<tables, dead, history>>

InsertUser_Overwrites(q) == users' = [users EXCEPT ![q.email] = q.password]
InsertUser(q) == users[q.email] = None /\ users' = [users EXCEPT ![q.email] = q.password]

\* The answer of the database may be lost when the row is in.
CreateUser(h) ==
  /\ pc[h] = "create user"
  /\ InsertUser(req[h])
  /\ \/ Answer(h, "created") /\ told' = [told EXCEPT ![req[h].email] = @ \cup {req[h].password}]
     \/ Answer(h, "error") /\ UNCHANGED told
  /\ UNCHANGED <<rows, dead, holder, redeemed>>

\* The email is UNIQUE: another handler inserted it since UserExists.  It is an error
\* like any other to the handler: 500.
CreateUserTaken(h) ==
  /\ pc[h] = "create user"
  /\ users[req[h].email] # None
  /\ Answer(h, "error")
  /\ UNCHANGED <<tables, dead, history>>

----------------------------------------------------------------------------
(* Login and Refresh.                                                      *)

GetUser(h) ==
  /\ pc[h] = "get user"
  /\ IF users[req[h].email] = req[h].password
       THEN Goto(h, "store token") /\ UNCHANGED read
       ELSE Answer(h, "unauthorized")
  /\ UNCHANGED <<tables, dead, history>>

\* The three checks are of the row that was read.
Usable_RevokedToo(row) == row # None /\ ~row.expired
Usable(row) == row # None /\ ~row.revoked /\ ~row.expired

GetRefreshToken(h) ==
  LET row == rows[req[h].token]
  IN  /\ pc[h] = "get token"
      /\ IF Usable(row)
           THEN Goto(h, "revoke") /\ read' = [read EXCEPT ![h] = row]
           ELSE Answer(h, "unauthorized")
      /\ UNCHANGED <<tables, dead, history>>

\* The UPDATE of the row does not ask whether it was revoked by then.
RevokeRefreshToken(h) ==
  /\ pc[h] = "revoke"
  /\ rows' = [rows EXCEPT ![req[h].token].revoked = TRUE]
  /\ (Goto(h, "get user by id") /\ UNCHANGED read) \/ Answer(h, "error")
  /\ UNCHANGED <<users, dead, history>>

\* Users are never deleted, so the one that the row names is there.
GetUserByID(h) ==
  /\ pc[h] = "get user by id"
  /\ users[read[h].user] # None
  /\ Goto(h, "store token")
  /\ UNCHANGED <<tables, read, dead, history>>

TokenUser(h) == IF req[h].op = "refresh" THEN read[h].user ELSE req[h].email

Fresh(t) == rows[t] = None

\* Outcomes of the last query once its row is in.
AnswerToken(h, t) ==
  /\ Answer(h, "ok")
  /\ holder' = [holder EXCEPT ![t] = TokenUser(h)]

LoseAnswer(h) == Answer(h, "error") /\ UNCHANGED holder

\* Bookkeeping: the new row takes the place of that of the request, whoever learns of it.
Redeem(h, t) ==
  redeemed' = IF req[h].op = "refresh" THEN [redeemed EXCEPT ![req[h].token] = @ \cup {t}] ELSE redeemed

StoreRefreshToken_Unstored(h, t) ==
  /\ pc[h] = "store token"
  /\ Fresh(t)
  /\ AnswerToken(h, t)
  /\ Redeem(h, t)
  /\ UNCHANGED <<tables, dead, told>>

\* A new token: 32 random bytes, which no other token has.
StoreRefreshToken(h, t) ==
  /\ pc[h] = "store token"
  /\ Fresh(t)
  /\ rows' = [rows EXCEPT ![t] = [user |-> TokenUser(h), revoked |-> FALSE, expired |-> FALSE]]
  /\ AnswerToken(h, t) \/ LoseAnswer(h)
  /\ Redeem(h, t)
  /\ UNCHANGED <<users, dead, told>>

\* Seven days after the row was stored.
Expire(t) ==
  /\ rows[t] # None
  /\ ~rows[t].expired
  /\ rows' = [rows EXCEPT ![t].expired = TRUE]
  /\ UNCHANGED <<users, handlerVars, history>>

----------------------------------------------------------------------------
Register(h) == UserExists(h) \/ CreateUser(h) \/ CreateUserTaken(h)

Refresh(h) == GetRefreshToken(h) \/ RevokeRefreshToken(h) \/ GetUserByID(h)

Handle(h) ==
  \/ \E q \in Requests : Receive(h, q)
  \/ Fail(h)
  \/ Register(h) \/ GetUser(h) \/ Refresh(h)
  \/ \E t \in Tokens : StoreRefreshToken(h, t)

Next ==
  \/ \E h \in Handlers : Handle(h)
  \/ \E t \in Tokens : Expire(t)

Spec == Init /\ [][Next]_vars

----------------------------------------------------------------------------
(* What the service promises.                                              *)

Queries == {"user exists", "create user", "get user", "get token", "revoke", "get user by id", "store token"}

BoundRequests ==
  [op : {"register", "login"}, email : Emails, password : Passwords]
    \cup [op : {"refresh"}, token : Tokens]

TypeOK ==
  /\ users \in [Emails -> Passwords \cup {None}]
  /\ rows \in [Tokens -> Rows \cup {None}]
  /\ pc \in [Handlers -> Answers \cup Queries]
  /\ req \in [Handlers -> BoundRequests \cup {None}]
  /\ read \in [Handlers -> Rows \cup {None}]
  /\ told \in [Emails -> SUBSET Passwords]
  /\ holder \in [Tokens -> Emails \cup {None}]
  /\ redeemed \in [Tokens -> SUBSET Tokens]
  /\ dead \in [Handlers -> BOOLEAN]

\* Who was told that it registered can log in with its password, though the check
\* for the email and the insertion are two queries: no other registration of that
\* email, before or after, was accepted or has overwritten it.
ToldIsRegistered == \A e \in Emails : told[e] \subseteq {users[e]}

\* A token that a client holds is in the table, for the user that it was given to,
\* whichever of the steps between failed.
HeldIsStored ==
  \A t \in Tokens : holder[t] # None => rows[t] # None /\ rows[t].user = holder[t]

\* A refresh that comes after its token was exchanged, or after it expired, is
\* refused by the row that it reads, whatever was under way when it came.
DeadTokenRefused ==
  \A h \in Handlers : dead[h] => pc[h] \notin {"revoke", "get user by id", "store token", "ok"}
=============================================================================
