----------------------------- MODULE RateLimiter -----------------------------
(***************************************************************************)
(* The rate limiter of ingestion: the sorted set of one vehicle in Redis,  *)
(* and the calls of Allow for it, of all streams and all instances.  Each  *)
(* reads its own clock and makes a uuid, then runs the script in Redis.    *)
(* The script is atomic, but calls reach it in any order, and one whose    *)
(* answer was lost is sent again with the same arguments.                  *)
(*                                                                         *)
(* Time is that of Redis; Skew is how far the time that a call carries is  *)
(* from it when the script runs: the skew of the clock and the way.        *)
(***************************************************************************)
EXTENDS Integers, FiniteSets, Functions

CONSTANTS
  Callers,    \* calls of Allow that are served at the same time
  Limit,      \* pings, and
  Window,     \* units of time: RATE_LIMIT_MAX_PINGS, RATE_LIMIT_WINDOW_SECS
  Skew,
  MaxTime,    \* bound
  MaxCalls    \* bound: calls that were started

ASSUME ConstantsAssumption ==
  Limit \in Nat /\ Window \in Nat /\ Skew \in Nat /\ MaxTime \in Nat /\ MaxCalls \in Nat

VARIABLES
  now,
  score,      \* the sorted set: the score of each member
  expireAt,   \* when its key expires
  calls,      \* calls that were started, which is the uuid of the next
  pc,         \* "eval" while a call is under way, or how the last one ended
  uuid,       \* of that call, or of the last one
  stamp,      \* the time that it carries
  at,         \* history: when the script admitted each call that it admitted
  decided     \* history: when it refused the last call of each caller

vars == <<now, score, expireAt, calls, pc, uuid, stamp, at, decided>>

Results == {"idle", "allowed", "refused", "error"}

Init ==
  /\ now = 0
  /\ score = << >>
  /\ expireAt = 0
  /\ calls = 0
  /\ pc = [c \in Callers |-> "idle"]
  /\ uuid = [c \in Callers |-> 0]
  /\ stamp = [c \in Callers |-> 0]
  /\ at = << >>
  /\ decided = [c \in Callers |-> 0]

\* Allow takes the time, and then a uuid.
Allow(c) ==
  /\ pc[c] # "eval"
  /\ calls < MaxCalls
  /\ calls' = calls + 1
  /\ pc' = [pc EXCEPT ![c] = "eval"]
  /\ uuid' = [uuid EXCEPT ![c] = calls + 1]
  /\ \E s \in (now - Skew)..(now + Skew) : stamp' = [stamp EXCEPT ![c] = s]
  /\ decided' = [decided EXCEPT ![c] = 0]
  /\ UNCHANGED <<now, score, expireAt, at>>

----------------------------------------------------------------------------
(* The script.                                                             *)

With(f, x, y) == [z \in DOMAIN f \cup {x} |-> IF z = x THEN y ELSE f[z]]

\* ZREMRANGEBYSCORE, on what is left when the key has expired.
Purged(s) == Restrict(score, {m \in DOMAIN score : now < expireAt /\ score[m] > s - Window})

\* ZCARD against the limit.
Full_OffByOne(set) == Cardinality(DOMAIN set) > Limit
Full(set) == Cardinality(DOMAIN set) >= Limit

Member_Time(c) == stamp[c]
Member(c) == uuid[c]

\* What the set is when a call was refused.
AfterRefusal_Counted(c) == With(Purged(stamp[c]), Member(c), stamp[c])
AfterRefusal(c) == Purged(stamp[c])

Refuse(c) ==
  /\ Full(Purged(stamp[c]))
  /\ score' = AfterRefusal(c)
  /\ UNCHANGED <<expireAt, at>>

\* ZADD and EXPIRE.
Admit(c) ==
  /\ ~Full(Purged(stamp[c]))
  /\ score' = With(Purged(stamp[c]), Member(c), stamp[c])
  /\ expireAt' = now + Window
  /\ at' = IF uuid[c] \in DOMAIN at THEN at ELSE With(at, uuid[c], now)

----------------------------------------------------------------------------
End(c, result) ==
  /\ pc' = [pc EXCEPT ![c] = result]
  /\ stamp' = [stamp EXCEPT ![c] = 0]
  /\ UNCHANGED uuid

Allowed(c) ==
  /\ pc[c] = "eval"
  /\ Admit(c)
  /\ End(c, "allowed")
  /\ UNCHANGED <<now, calls, decided>>

Refused(c) ==
  /\ pc[c] = "eval"
  /\ Refuse(c)
  /\ End(c, "refused")
  /\ decided' = [decided EXCEPT ![c] = now]
  /\ UNCHANGED <<now, calls>>

\* The script ran and its answer is lost: the client of Redis sends it again, or gives up.
AnswerLost(c) ==
  /\ pc[c] = "eval"
  /\ Admit(c) \/ Refuse(c)
  /\ UNCHANGED <<pc, uuid, stamp>> \/ End(c, "error")
  /\ UNCHANGED <<now, calls, decided>>

\* Redis was not reached.  The handler lets the ping pass that got an error.
EvalError(c) ==
  /\ pc[c] = "eval"
  /\ End(c, "error")
  /\ UNCHANGED <<now, score, expireAt, calls, at, decided>>

\* A unit of time.  No call is under way until the time that it carries is off by more.
Tick ==
  /\ now < MaxTime
  /\ \A c \in Callers : pc[c] = "eval" => now < stamp[c] + Skew
  /\ now' = now + 1
  /\ UNCHANGED <<score, expireAt, calls, pc, uuid, stamp, at, decided>>

Next ==
  \/ \E c \in Callers : Allow(c) \/ Allowed(c) \/ Refused(c) \/ AnswerLost(c) \/ EvalError(c)
  \/ Tick

Spec == Init /\ [][Next]_vars

----------------------------------------------------------------------------
(* What the limiter promises.                                              *)

TypeOK ==
  /\ now \in 0..MaxTime
  /\ score \in [DOMAIN score -> Int]
  /\ DOMAIN score \subseteq 1..calls
  /\ expireAt \in Nat
  /\ calls \in 0..MaxCalls
  /\ pc \in [Callers -> Results \cup {"eval"}]
  /\ uuid \in [Callers -> 0..calls]
  /\ stamp \in [Callers -> Int]
  /\ at \in [DOMAIN at -> Nat]
  /\ DOMAIN at \subseteq 1..calls
  /\ decided \in [Callers -> Nat]

AdmittedSince(t) == {i \in DOMAIN at : at[i] > t}

\* In no window, by the one clock of Redis, does the script admit more than Limit pings
\* (those that the handler lets pass on an error are not counted), whichever instances ask
\* at once, with clocks that differ, in whatever order, and however often a call is
\* repeated: the window is shorter than the configured one by twice the skew.
WindowBound == Cardinality(AdmittedSince(now - (Window - 2 * Skew))) <= Limit

\* What was admitted in the window before a call was refused, longer by twice the skew,
\* itself left out: its script may have admitted it when its answer was lost.
OthersBefore(c) == AdmittedSince(decided[c] - (Window + 2 * Skew)) \ {uuid[c]}

\* A ping is refused only when Limit others were admitted in that window, or Limit - 1
\* and itself: a call that is sent again may find its own entry and be refused for it,
\* although its ping is the last that the limit has room for.  Nothing else takes from a
\* vehicle that keeps to the rate: not the calls that were refused, not those of others
\* that are sent again, not the clocks of other instances.
RefusedOnlyIfFull ==
  \A c \in Callers : pc[c] = "refused" =>
    \/ Cardinality(OthersBefore(c)) >= Limit
    \/ uuid[c] \in DOMAIN at /\ Cardinality(OthersBefore(c)) >= Limit - 1
=============================================================================
