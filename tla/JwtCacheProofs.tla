--------------------------- MODULE JwtCacheProofs ---------------------------
(***************************************************************************)
(* Proofs about JwtCache, for any number of requests and tokens, any life, *)
(* skew and lag, and any length of time.                                   *)
(***************************************************************************)
EXTENDS JwtCache, TLAPS

\* What Redis holds of a token ends with the token, but for the skew and the lag.
CachedEnds ==
  \A t \in Tokens : until[t] > 0 => t \in issued /\ until[t] <= exp[t] + Skew + Lag

\* And so does what a SET under way is about to leave there.
SetEnds ==
  \A r \in Requests : pc[r] = "set" =>
    /\ token[r] \in issued
    /\ ttl[r] > 0 /\ now <= sendBy[r]
    /\ sendBy[r] + ttl[r] <= exp[token[r]] + Skew + Lag

\* A request past the header has a token, which was issued or forged.
KnownTokens ==
  \A r \in Requests :
    /\ token[r] \in issued \cup Forged \cup {None}
    /\ pc[r] \in Calls => token[r] \in Tokens

IInv == TypeOK /\ KnownTokens /\ CachedEnds /\ SetEnds /\ AcceptedIsValid /\ RefusedIsOver

LEMMA InitInv == Init => IInv
BY ConstantsAssumption
DEF Init, IInv, TypeOK, KnownTokens, CachedEnds, SetEnds, AcceptedIsValid, RefusedIsOver, Ended, Calls

\* A clock is an integer near the time.
LEMMA ClockRange ==
  ASSUME now \in Nat, NEW c \in Clock
  PROVE  c \in Int /\ now - Skew <= c /\ c <= now + Skew
BY ConstantsAssumption DEF Clock

LEMMA EndsAndCalls == {"next", "refused", "get", "parse", "read ttl", "set"} \subseteq Ended \cup Calls
BY DEF Ended, Calls

LEMMA CallFacts ==
  ASSUME IInv, NEW r \in Requests, pc[r] \in Calls
  PROVE  /\ token[r] \in Tokens
         /\ exp[token[r]] \in Int /\ until[token[r]] \in Nat /\ now \in Nat
BY DEF IInv, KnownTokens, TypeOK

LEMMA GenerateInv ==
  ASSUME IInv, NEW t \in Tokens, GenerateAccessToken(t)
  PROVE  IInv'
<1> USE DEF IInv, GenerateAccessToken, requestVars
<1>1. PICK c \in Clock : exp' = [exp EXCEPT ![t] = c + Life]
  OBVIOUS
<1>2. TypeOK'
  BY <1>1, ClockRange, ConstantsAssumption DEF TypeOK
<1>3. \A u \in issued : u # t /\ exp'[u] = exp[u]
  BY <1>1 DEF TypeOK
<1>4. CachedEnds'
  BY <1>3 DEF CachedEnds, TypeOK
<1>5. SetEnds' /\ AcceptedIsValid'
  BY <1>3 DEF SetEnds, AcceptedIsValid, TypeOK
<1>6. RefusedIsOver' /\ KnownTokens'
  <2>1. \A r \in Requests : token[r] \in issued' => token[r] \in issued
    BY ConstantsAssumption DEF KnownTokens
  <2> QED
    BY <1>3, <2>1 DEF RefusedIsOver, KnownTokens
<1> QED
  BY <1>2, <1>4, <1>5, <1>6

\* A request touches only its own variables; what is cached changes in Set alone.
LEMMA MiddlewareInv ==
  ASSUME IInv, NEW r \in Requests, JWTMiddleware(r)
  PROVE  IInv'
<1> USE DEF IInv, Goto, Decide
<1>1. ASSUME NEW t \in Tokens, Receive(r, t)
      PROVE  IInv'
  <2>1. TypeOK' /\ KnownTokens' /\ CachedEnds'
    <3>1. TypeOK'
      <4>1. pc' = [pc EXCEPT ![r] = "get"] /\ "get" \in Ended \cup Calls
        BY <1>1, EndsAndCalls DEF Receive
      <4>2. pc' \in [Requests -> Ended \cup Calls]
        BY <4>1 DEF TypeOK
      <4>3. token' \in [Requests -> Tokens \cup {None}]
        BY <1>1 DEF Receive, TypeOK
      <4>4. decided' \in [Requests -> 0..MaxTime]
        BY <1>1, ConstantsAssumption DEF Receive, TypeOK
      <4> QED
        BY <1>1, <4>2, <4>3, <4>4 DEF Receive, TypeOK
    <3>2. KnownTokens'
      BY <1>1 DEF Receive, TypeOK, KnownTokens, Calls
    <3>3. CachedEnds'
      BY <1>1 DEF Receive, TypeOK, CachedEnds
    <3> QED
      BY <3>1, <3>2, <3>3
  <2>2. SetEnds' /\ AcceptedIsValid' /\ RefusedIsOver'
    BY <1>1 DEF Receive, TypeOK, SetEnds, AcceptedIsValid, RefusedIsOver
  <2> QED
    BY <2>1, <2>2
<1>2. CASE ReceiveMalformed(r)
  <2>1. TypeOK' /\ KnownTokens' /\ CachedEnds'
    <3>1. TypeOK'
      BY <1>2 DEF ReceiveMalformed, TypeOK, Ended, Calls
    <3>2. KnownTokens'
      BY <1>2 DEF ReceiveMalformed, TypeOK, KnownTokens, Calls
    <3>3. CachedEnds'
      BY <1>2 DEF ReceiveMalformed, TypeOK, CachedEnds
    <3> QED
      BY <3>1, <3>2, <3>3
  <2>2. SetEnds' /\ AcceptedIsValid'
    BY <1>2 DEF ReceiveMalformed, TypeOK, SetEnds, AcceptedIsValid
  <2>3. RefusedIsOver'
    BY <1>2, ConstantsAssumption DEF ReceiveMalformed, TypeOK, RefusedIsOver
  <2> QED
    BY <2>1, <2>2, <2>3
<1>3. CASE Hit(r)
  <2>1. TypeOK' /\ KnownTokens' /\ CachedEnds'
    <3>1. TypeOK'
      BY <1>3 DEF Hit, TypeOK, Ended, Calls
    <3>2. KnownTokens'
      BY <1>3 DEF Hit, TypeOK, KnownTokens, Calls
    <3>3. CachedEnds'
      BY <1>3 DEF Hit, TypeOK, CachedEnds
    <3> QED
      BY <3>1, <3>2, <3>3
  <2>2. token[r] \in issued /\ now < exp[token[r]] + Skew + Lag
    <3>1. token[r] \in Tokens /\ now < until[token[r]]
      BY <1>3, CallFacts DEF Hit, Calls
    <3>2. until[token[r]] > 0 /\ until[token[r]] \in Nat /\ now \in Nat
      BY <3>1 DEF TypeOK
    <3>3. token[r] \in issued /\ until[token[r]] <= exp[token[r]] + Skew + Lag
      BY <3>1, <3>2 DEF CachedEnds
    <3>4. exp[token[r]] \in Int
      BY <3>1 DEF TypeOK
    <3> QED
      BY <3>1, <3>2, <3>3, <3>4, ConstantsAssumption
  <2>3. SetEnds' /\ RefusedIsOver'
    BY <1>3 DEF Hit, TypeOK, SetEnds, RefusedIsOver
  <2>4. AcceptedIsValid'
    BY <1>3, <2>2 DEF Hit, TypeOK, AcceptedIsValid
  <2> QED
    BY <2>1, <2>3, <2>4
<1>4. CASE Miss(r) \/ GetError(r)
  <2>1. TypeOK' /\ KnownTokens' /\ CachedEnds'
    <3>1. TypeOK'
      BY <1>4 DEF Miss, GetError, GetErrorGoesOn, TypeOK, Ended, Calls
    <3>2. KnownTokens'
      BY <1>4 DEF Miss, GetError, GetErrorGoesOn, TypeOK, KnownTokens, Calls
    <3>3. CachedEnds'
      BY <1>4 DEF Miss, GetError, GetErrorGoesOn, TypeOK, CachedEnds
    <3> QED
      BY <3>1, <3>2, <3>3
  <2>2. SetEnds' /\ AcceptedIsValid' /\ RefusedIsOver'
    BY <1>4 DEF Miss, GetError, GetErrorGoesOn, TypeOK, SetEnds, AcceptedIsValid, RefusedIsOver
  <2> QED
    BY <2>1, <2>2
<1>5. CASE Parse(r)
  <2>1. PICK c \in Clock : Goto(r, IF Valid(token[r], c) THEN "read ttl" ELSE "refused")
    BY <1>5 DEF Parse
  <2>2. /\ c \in Int /\ now - Skew <= c /\ c <= now + Skew
        /\ token[r] \in Tokens /\ exp[token[r]] \in Int
    BY <1>5, ClockRange, CallFacts DEF Parse, Calls
  <2>3. TypeOK' /\ KnownTokens' /\ CachedEnds'
    <3>1. TypeOK'
      BY <1>5, <2>1 DEF Parse, TypeOK, Ended, Calls
    <3>2. KnownTokens'
      BY <1>5, <2>1 DEF Parse, TypeOK, KnownTokens, Calls
    <3>3. CachedEnds'
      BY <1>5, <2>1 DEF Parse, TypeOK, CachedEnds
    <3> QED
      BY <3>1, <3>2, <3>3
  <2>4. SetEnds'
    BY <1>5, <2>1 DEF Parse, TypeOK, SetEnds
  <2>5. AcceptedIsValid'
    <3>1. Valid(token[r], c) => token[r] \in issued /\ now < exp[token[r]] + Skew + Lag
      BY <2>2, ConstantsAssumption DEF Valid, TypeOK
    <3> QED
      BY <1>5, <2>1, <3>1 DEF Parse, TypeOK, AcceptedIsValid
  <2>6. RefusedIsOver'
    <3>1. token[r] \in issued /\ ~Valid(token[r], c) => now >= exp[token[r]] - Skew
      BY <2>2, ConstantsAssumption DEF Valid, TypeOK
    <3> QED
      BY <1>5, <2>1, <3>1 DEF Parse, TypeOK, RefusedIsOver
  <2> QED
    BY <2>3, <2>4, <2>5, <2>6
<1>6. CASE ReadTtl(r)
  <2>1. PICK c \in Clock :
          IF Caches(Ttl(token[r], c))
            THEN /\ Goto(r, "set")
                 /\ ttl' = [ttl EXCEPT ![r] = Ttl(token[r], c)]
                 /\ sendBy' = [sendBy EXCEPT ![r] = now + Lag]
            ELSE Goto(r, "next") /\ UNCHANGED <<ttl, sendBy>>
    BY <1>6 DEF ReadTtl
  <2>2. /\ c \in Int /\ now - Skew <= c /\ now \in Nat
        /\ token[r] \in Tokens /\ exp[token[r]] \in Int
        /\ token[r] \in issued
    BY <1>6, ClockRange, CallFacts DEF ReadTtl, Calls, AcceptedIsValid
  <2>3. TypeOK' /\ KnownTokens' /\ CachedEnds'
    <3>1. TypeOK'
      <4>1. now + Lag \in Nat /\ (Caches(Ttl(token[r], c)) => Ttl(token[r], c) \in Nat)
        BY <2>2, ConstantsAssumption DEF Caches, Ttl
      <4>2. /\ pc' = [pc EXCEPT ![r] = IF Caches(Ttl(token[r], c)) THEN "set" ELSE "next"]
            /\ ttl' = IF Caches(Ttl(token[r], c)) THEN [ttl EXCEPT ![r] = Ttl(token[r], c)] ELSE ttl
            /\ sendBy' = IF Caches(Ttl(token[r], c)) THEN [sendBy EXCEPT ![r] = now + Lag] ELSE sendBy
        BY <2>1
      <4>3. pc' \in [Requests -> Ended \cup Calls]
        BY <4>2, EndsAndCalls DEF TypeOK
      <4>4. ttl' \in [Requests -> Nat] /\ sendBy' \in [Requests -> Nat]
        BY <4>1, <4>2 DEF TypeOK
      <4>5. \A q \in Requests : pc'[q] = "set" => ttl'[q] > 0
        BY <2>2, <4>1, <4>2 DEF TypeOK, Caches
      <4> QED
        BY <1>6, <4>3, <4>4, <4>5 DEF ReadTtl, TypeOK
    <3>2. KnownTokens'
      BY <1>6, <2>1, <2>2, ConstantsAssumption DEF ReadTtl, Caches, Ttl, TypeOK, KnownTokens, Calls
    <3>3. CachedEnds'
      BY <1>6, <2>1, <2>2, ConstantsAssumption DEF ReadTtl, Caches, Ttl, TypeOK, CachedEnds
    <3> QED
      BY <3>1, <3>2, <3>3
  <2>4. SetEnds'
    <3>1. CASE Caches(Ttl(token[r], c))
      <4>1. /\ ttl'[r] > 0 /\ now <= sendBy'[r]
            /\ sendBy'[r] + ttl'[r] <= exp[token[r]] + Skew + Lag
        BY <2>1, <2>2, <3>1, ConstantsAssumption DEF Caches, Ttl, TypeOK
      <4> QED
        BY <1>6, <2>1, <2>2, <3>1, <4>1 DEF ReadTtl, TypeOK, SetEnds
    <3>2. CASE ~Caches(Ttl(token[r], c))
      BY <1>6, <2>1, <3>2 DEF ReadTtl, TypeOK, SetEnds
    <3> QED
      BY <3>1, <3>2
  <2>5. AcceptedIsValid' /\ RefusedIsOver'
    BY <1>6, <2>1 DEF ReadTtl, TypeOK, AcceptedIsValid, RefusedIsOver
  <2> QED
    BY <2>3, <2>4, <2>5
<1>7. CASE Set(r) \/ SetError(r)
  <2>1. /\ token[r] \in Tokens /\ exp[token[r]] \in Int /\ token[r] \in issued
        /\ ttl[r] \in Nat /\ sendBy[r] \in Nat /\ now \in Nat
        /\ ttl[r] > 0 /\ now <= sendBy[r]
        /\ sendBy[r] + ttl[r] <= exp[token[r]] + Skew + Lag
    <3>1. pc[r] = "set" /\ pc[r] \in Calls
      BY <1>7 DEF Set, SetError, Calls
    <3>2. ttl[r] \in Nat /\ sendBy[r] \in Nat
      BY DEF TypeOK
    <3> QED
      BY <3>1, <3>2, CallFacts DEF SetEnds
  <2>2. Lasts(ttl[r]) \in Nat /\ Lasts(ttl[r]) <= exp[token[r]] + Skew + Lag
    BY <2>1, ConstantsAssumption DEF Lasts
  <2>3. until' = [until EXCEPT ![token[r]] = Lasts(ttl[r])] \/ until' = until
    BY <1>7 DEF Set, SetError
  <2>4. TypeOK' /\ KnownTokens'
    <3>1. TypeOK'
      BY <1>7, <2>2, <2>3 DEF Set, SetError, AfterSet, TypeOK, Ended
    <3>2. KnownTokens'
      BY <1>7 DEF Set, SetError, AfterSet, TypeOK, KnownTokens, Calls
    <3> QED
      BY <3>1, <3>2
  <2>5. CachedEnds'
    BY <1>7, <2>1, <2>2, <2>3 DEF Set, SetError, TypeOK, CachedEnds
  <2>6. SetEnds' /\ AcceptedIsValid' /\ RefusedIsOver'
    BY <1>7 DEF Set, SetError, AfterSet, TypeOK, SetEnds, AcceptedIsValid, RefusedIsOver
  <2> QED
    BY <2>4, <2>5, <2>6
<1> QED
  BY <1>1, <1>2, <1>3, <1>4, <1>5, <1>6, <1>7 DEF JWTMiddleware

LEMMA StepInv == IInv /\ [Next]_vars => IInv'
<1> SUFFICES ASSUME IInv, [Next]_vars
             PROVE  IInv'
  OBVIOUS
<1> USE DEF IInv, requestVars
<1>1. CASE Tick
  <2>1. TypeOK' /\ KnownTokens' /\ CachedEnds'
    <3>1. TypeOK'
      BY <1>1, ConstantsAssumption DEF Tick, TypeOK
    <3>2. KnownTokens'
      BY <1>1, ConstantsAssumption DEF Tick, TypeOK, KnownTokens, Calls
    <3>3. CachedEnds'
      BY <1>1, ConstantsAssumption DEF Tick, TypeOK, CachedEnds
    <3> QED
      BY <3>1, <3>2, <3>3
  <2>2. SetEnds'
    BY <1>1 DEF Tick, TypeOK, SetEnds
  <2>3. AcceptedIsValid' /\ RefusedIsOver'
    BY <1>1 DEF Tick, AcceptedIsValid, RefusedIsOver
  <2> QED
    BY <2>1, <2>2, <2>3
<1>2. CASE UNCHANGED vars
  BY <1>2 DEF vars, TypeOK, KnownTokens, CachedEnds, SetEnds, AcceptedIsValid, RefusedIsOver
<1> QED
  BY <1>1, <1>2, GenerateInv, MiddlewareInv DEF Next

\* The variables keep their types: no request sends claims to the cache for no time or
\* for less than none, which Redis would keep for ever.
THEOREM TypeCorrect == Spec => []TypeOK
<1>1. IInv => TypeOK
  BY DEF IInv
<1> QED
  BY <1>1, InitInv, StepInv, PTL DEF Spec

\* Whatever the instances do with the shared cache, no forged token is accepted, and
\* none after its end by more than one skew and one lag.
THEOREM OnlyValidAccepted == Spec => []AcceptedIsValid
<1>1. IInv => AcceptedIsValid
  BY DEF IInv
<1> QED
  BY <1>1, InitInv, StepInv, PTL DEF Spec

\* No token is refused before its end by more than one skew, whatever calls of the
\* cache fail.
THEOREM ValidNotRefused == Spec => []RefusedIsOver
<1>1. IInv => RefusedIsOver
  BY DEF IInv
<1> QED
  BY <1>1, InitInv, StepInv, PTL DEF Spec
=============================================================================
