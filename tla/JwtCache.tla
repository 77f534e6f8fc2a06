------------------------------ MODULE JwtCache ------------------------------
(***************************************************************************)
(* The check of access tokens: the requests of all instances, which run    *)
(* JWTMiddleware at the same time, and the cache of claims in Redis that   *)
(* they share.  A token is its hash, and its claims are those that it was  *)
(* issued with (SHA-256 and the signature are injective), so what matters  *)
(* of an entry is how long it is there.                                    *)
(*                                                                         *)
(* Time is that of Redis; an instance reads a clock of its own.            *)
(***************************************************************************)
EXTENDS Integers

CONSTANTS
  Requests,   \* requests that are served at the same time
  Tokens,
  Forged,     \* tokens that the private key did not sign
  Life,       \* of a token: 15 minutes in the code
  Skew,       \* how far a clock is from that of Redis, at most
  Lag,        \* how long a SET takes from the reading of the clock, at most, resent or not
  MaxTime,    \* bound
  None

ASSUME ConstantsAssumption ==
  /\ Life \in Nat \ {0} /\ Skew \in Nat /\ Lag \in Nat /\ MaxTime \in Nat
  /\ None \notin Tokens

VARIABLES
  now,
  issued,     \* tokens that TokenService has made
  exp,        \* the exp claim of each
  until,      \* when Redis drops the claims of each token: cached while now < until
  pc,         \* the next call of each request, or how it ended
  token,      \* the token it came with, None when the header holds none
  ttl,        \* what it read for the claims that it is about to cache
  sendBy,     \* when that SET has reached Redis, at the latest
  decided     \* history: when the token of a request was accepted or refused

requestVars == <<pc, token, ttl, sendBy, decided>>
vars == <<now, issued, exp, until, requestVars>>

Ended == {"next", "refused"}
Calls == {"get", "parse", "read ttl", "set"}
Forever == MaxTime + Life + 2 * Skew + Lag + 1

\* What an instance may read as the time.
Clock == (now - Skew)..(now + Skew)

Init ==
  /\ now = 0
  /\ issued = {}
  /\ exp = [t \in Tokens |-> 0]
  /\ until = [t \in Tokens |-> 0]
  /\ pc = [r \in Requests |-> "refused"]
  /\ token = [r \in Requests |-> None]
  /\ ttl = [r \in Requests |-> 0]
  /\ sendBy = [r \in Requests |-> 0]
  /\ decided = [r \in Requests |-> 0]

Goto(r, call) == pc' = [pc EXCEPT ![r] = call]
Decide(r) == decided' = [decided EXCEPT ![r] = now]

----------------------------------------------------------------------------
\* TokenService.GenerateAccessToken, in Login and Refresh.
GenerateAccessToken(t) ==
  /\ t \notin issued \cup Forged
  /\ issued' = issued \cup {t}
  /\ \E c \in Clock : exp' = [exp EXCEPT ![t] = c + Life]
  /\ UNCHANGED <<now, until, requestVars>>

\* A request with a header of the form "Bearer <token>", or without.
Receive(r, t) ==
  /\ pc[r] \in Ended
  /\ t \in issued \cup Forged
  /\ token' = [token EXCEPT ![r] = t]
  /\ decided' = [decided EXCEPT ![r] = 0]
  /\ Goto(r, "get")
  /\ UNCHANGED <<now, issued, exp, until, ttl, sendBy>>

ReceiveMalformed(r) ==
  /\ pc[r] \in Ended
  /\ token' = [token EXCEPT ![r] = None]
  /\ Goto(r, "refused") /\ Decide(r)
  /\ UNCHANGED <<now, issued, exp, until, ttl, sendBy>>

\* JwtCache.Get.
Hit(r) ==
  /\ pc[r] = "get"
  /\ now < until[token[r]]
  /\ Goto(r, "next") /\ Decide(r)
  /\ UNCHANGED <<now, issued, exp, until, token, ttl, sendBy>>

Miss(r) ==
  /\ pc[r] = "get"
  /\ now >= until[token[r]]
  /\ Goto(r, "parse")
  /\ UNCHANGED <<now, issued, exp, until, token, ttl, sendBy, decided>>

\* An error of the cache is a miss.
GetError_Refuses(r) == pc[r] = "get" /\ Goto(r, "refused") /\ Decide(r)
GetErrorGoesOn(r) == pc[r] = "get" /\ Goto(r, "parse") /\ UNCHANGED decided

GetError(r) ==
  /\ GetErrorGoesOn(r)
  /\ UNCHANGED <<now, issued, exp, until, token, ttl, sendBy>>

\* ParseWithClaims: the signature and the exp claim.
Valid_SignedOnly(t, c) == t \in issued
Valid(t, c) == t \in issued /\ c < exp[t]

Parse(r) ==
  /\ pc[r] = "parse"
  /\ \E c \in Clock : Goto(r, IF Valid(token[r], c) THEN "read ttl" ELSE "refused")
  /\ Decide(r)
  /\ UNCHANGED <<now, issued, exp, until, token, ttl, sendBy>>

\* time.Until reads the clock again; a token that ended meanwhile is not cached.
Ttl_Full(t, c) == Life
Ttl(t, c) == exp[t] - c

Caches_AtZero(d) == d >= 0
Caches(d) == d > 0

ReadTtl(r) ==
  /\ pc[r] = "read ttl"
  /\ \E c \in Clock :
       IF Caches(Ttl(token[r], c))
         THEN /\ Goto(r, "set")
              /\ ttl' = [ttl EXCEPT ![r] = Ttl(token[r], c)]
              /\ sendBy' = [sendBy EXCEPT ![r] = now + Lag]
         ELSE Goto(r, "next") /\ UNCHANGED <<ttl, sendBy>>
  /\ UNCHANGED <<now, issued, exp, until, token, decided>>

AfterSet(r) ==
  /\ Goto(r, "next")
  /\ ttl' = [ttl EXCEPT ![r] = 0]
  /\ sendBy' = [sendBy EXCEPT ![r] = 0]

\* JwtCache.Set; a duration that is not positive means for ever to Redis.
Lasts(d) == IF d > 0 THEN now + d ELSE Forever

Set(r) ==
  /\ pc[r] = "set"
  /\ until' = [until EXCEPT ![token[r]] = Lasts(ttl[r])]
  /\ AfterSet(r)
  /\ UNCHANGED <<now, issued, exp, token, decided>>

\* Dropped: the request goes on, with the claims cached or not.
SetError(r) ==
  /\ pc[r] = "set"
  /\ AfterSet(r)
  /\ UNCHANGED <<now, issued, exp, until, token, decided>>

\* A unit of time.  No SET is under way for longer than Lag, the times included that the
\* client of Redis sends it again: each repetition leaves the same claims for as long.
Tick ==
  /\ now < MaxTime
  /\ \A r \in Requests : pc[r] = "set" => now < sendBy[r]
  /\ now' = now + 1
  /\ UNCHANGED <<issued, exp, until, requestVars>>

----------------------------------------------------------------------------
JWTMiddleware(r) ==
  \/ \E t \in Tokens : Receive(r, t)
  \/ ReceiveMalformed(r)
  \/ Hit(r) \/ Miss(r) \/ GetError(r)
  \/ Parse(r) \/ ReadTtl(r) \/ Set(r) \/ SetError(r)

Next ==
  \/ \E r \in Requests : JWTMiddleware(r)
  \/ \E t \in Tokens : GenerateAccessToken(t)
  \/ Tick

Spec == Init /\ [][Next]_vars

----------------------------------------------------------------------------
(* What the middleware promises.                                           *)

TypeOK ==
  /\ now \in 0..MaxTime
  /\ issued \subseteq Tokens \ Forged
  /\ exp \in [Tokens -> Int]
  /\ until \in [Tokens -> Nat]
  /\ pc \in [Requests -> Ended \cup Calls]
  /\ token \in [Requests -> Tokens \cup {None}]
  /\ ttl \in [Requests -> Nat]
  /\ sendBy \in [Requests -> Nat]
  /\ decided \in [Requests -> 0..MaxTime]
  /\ \A r \in Requests : pc[r] = "set" => ttl[r] > 0

\* A token is accepted, from the cache or by its signature, only when it was issued and
\* before it ended, but for the skew of one clock and the time that one SET takes: no
\* number of hits, misses and SETs of several instances adds up to more.
AcceptedIsValid ==
  \A r \in Requests : pc[r] \in {"next", "read ttl", "set"} =>
    token[r] \in issued /\ decided[r] < exp[token[r]] + Skew + Lag

\* A token that was issued is refused only at its end, but for the skew: no error of the
\* cache and nothing that other requests do to it refuses a valid one.
RefusedIsOver ==
  \A r \in Requests : pc[r] = "refused" /\ token[r] \in issued => decided[r] >= exp[token[r]] - Skew
=============================================================================
