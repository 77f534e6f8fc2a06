-------------------------- MODULE RateLimiterProofs --------------------------
(***************************************************************************)
(* Proofs about RateLimiter, for any number of callers and calls, any      *)
(* limit, window and skew, and any length of time.                         *)
(***************************************************************************)
EXTENDS RateLimiter, FiniteSetTheorems, TLAPS

\* A call under way carries a time near that of Redis, and near the time when it was
\* admitted, if it was and its answer was lost; its uuid is its own.
CallTimes ==
  \A c \in Callers : pc[c] = "eval" =>
    /\ uuid[c] \in 1..calls
    /\ now <= stamp[c] + Skew /\ stamp[c] <= now + Skew
    /\ uuid[c] \in DOMAIN at => at[uuid[c]] <= stamp[c] + Skew /\ stamp[c] <= at[uuid[c]] + Skew
OwnUuid ==
  \A c, d \in Callers : pc[c] = "eval" /\ pc[d] = "eval" /\ uuid[c] = uuid[d] => c = d

\* The members are calls that were admitted, with scores near the time of that, and
\* outlive the key in no case.
MemberTimes ==
  \A i \in DOMAIN score :
    /\ i \in DOMAIN at
    /\ at[i] <= score[i] + Skew /\ score[i] <= at[i] + Skew
    /\ at[i] + Window <= expireAt
Past == \A i \in DOMAIN at : at[i] <= now

\* What is not in the set any more was admitted before the window.
Gone == \A i \in DOMAIN at : i \in DOMAIN score \/ at[i] <= now - (Window - 2 * Skew)

SetBound == Cardinality(DOMAIN score) <= Limit

\* What RefusedOnlyIfFull says of a call that was refused at time t: the limit was reached
\* by others, or by others and the call itself.
FullBefore(c, t) ==
  LET others == AdmittedSince(t - (Window + 2 * Skew)) \ {uuid[c]} IN
    \/ Cardinality(others) >= Limit
    \/ uuid[c] \in DOMAIN at /\ Cardinality(others) >= Limit - 1

IInv ==
  /\ TypeOK /\ CallTimes /\ OwnUuid /\ MemberTimes /\ Past /\ Gone /\ SetBound
  /\ RefusedOnlyIfFull

LEMMA FiniteSets ==
  ASSUME TypeOK
  PROVE  /\ IsFiniteSet(DOMAIN score) /\ IsFiniteSet(DOMAIN at)
         /\ \A t : IsFiniteSet(AdmittedSince(t))
<1>1. IsFiniteSet(1..calls)
  <2>1. 1 \in Int /\ calls \in Int
    BY DEF TypeOK
  <2> QED
    BY <2>1, FS_Interval
<1>2. IsFiniteSet(DOMAIN score) /\ IsFiniteSet(DOMAIN at)
  BY <1>1, FS_Subset DEF TypeOK
<1>3. \A t : AdmittedSince(t) \subseteq DOMAIN at
  BY DEF AdmittedSince
<1> QED
  BY <1>2, <1>3, FS_Subset

LEMMA InitInv == Init => IInv
<1> SUFFICES ASSUME Init
             PROVE  IInv
  OBVIOUS
<1>1. DOMAIN score = {} /\ DOMAIN at = {}
  BY DEF Init
<1>2. TypeOK
  BY <1>1, ConstantsAssumption DEF Init, TypeOK, Results
<1>3. Cardinality({}) = 0
  BY FS_EmptySet
<1> QED
  BY <1>1, <1>2, <1>3, ConstantsAssumption
  DEF Init, IInv, CallTimes, OwnUuid, MemberTimes, Past, Gone, SetBound, RefusedOnlyIfFull, OthersBefore

----------------------------------------------------------------------------
\* What the script finds in the set when it has purged it.
LEMMA PurgedFacts ==
  ASSUME IInv, NEW c \in Callers, pc[c] = "eval",
         NEW P, P = Purged(stamp[c])
  PROVE  /\ P \in [DOMAIN P -> Int] /\ DOMAIN P \subseteq DOMAIN score
         /\ \A i \in DOMAIN P : P[i] = score[i] /\ P[i] > stamp[c] - Window
         /\ \A i \in DOMAIN at : i \in DOMAIN P \/ at[i] <= now - (Window - 2 * Skew)
<1> DEFINE D == {m \in DOMAIN score : now < expireAt /\ score[m] > stamp[c] - Window}
<1>1. P = [i \in D |-> score[i]]
  BY DEF Purged, Restrict
<1>2. DOMAIN P = D /\ \A i \in D : P[i] = score[i]
  BY <1>1
<1>3. \A i \in DOMAIN score : score[i] \in Int
  BY DEF IInv, TypeOK
<1>4. ASSUME NEW i \in DOMAIN at, i \notin D
      PROVE  at[i] <= now - (Window - 2 * Skew)
  <2>0. /\ at[i] \in Nat /\ now \in Nat /\ expireAt \in Nat /\ stamp[c] \in Int
        /\ stamp[c] <= now + Skew
    BY DEF IInv, TypeOK, CallTimes
  <2>1. CASE i \notin DOMAIN score
    BY <2>1 DEF IInv, Gone
  <2>2. CASE i \in DOMAIN score /\ ~(now < expireAt)
    BY <2>0, <2>2, ConstantsAssumption DEF IInv, MemberTimes
  <2>3. CASE i \in DOMAIN score /\ ~(score[i] > stamp[c] - Window)
    BY <2>0, <2>3, <1>3, ConstantsAssumption DEF IInv, MemberTimes
  <2> QED
    BY <1>4, <2>1, <2>2, <2>3
<1> QED
  BY <1>1, <1>2, <1>3, <1>4

LEMMA RefusedAreFull == RefusedOnlyIfFull <=> \A c \in Callers : pc[c] = "refused" => FullBefore(c, decided[c])
BY DEF RefusedOnlyIfFull, OthersBefore, FullBefore

\* A call that finds the set full finds in it as many pings, admitted in the window
\* that is longer by twice the skew; one of them may be its own.
LEMMA RefuseFacts ==
  ASSUME IInv, NEW c \in Callers, pc[c] = "eval", Refuse(c), UNCHANGED <<now, calls>>
  PROVE  /\ FullBefore(c, now)
         /\ score' \in [DOMAIN score' -> Int] /\ DOMAIN score' \subseteq DOMAIN score
         /\ MemberTimes' /\ Gone' /\ SetBound'
<1> DEFINE P == Purged(stamp[c])
<1>1. /\ P \in [DOMAIN P -> Int] /\ DOMAIN P \subseteq DOMAIN score
      /\ \A i \in DOMAIN P : P[i] = score[i] /\ P[i] > stamp[c] - Window
      /\ \A i \in DOMAIN at : i \in DOMAIN P \/ at[i] <= now - (Window - 2 * Skew)
  BY PurgedFacts
<1>2. score' = P /\ expireAt' = expireAt /\ at' = at /\ Cardinality(DOMAIN P) >= Limit
  BY DEF Refuse, AfterRefusal, Full
<1> HIDE DEF P
<1>3. DOMAIN P \subseteq AdmittedSince(now - (Window + 2 * Skew))
  <2> SUFFICES ASSUME NEW i \in DOMAIN P
               PROVE  i \in DOMAIN at /\ at[i] > now - (Window + 2 * Skew)
    BY DEF AdmittedSince
  <2>1. /\ i \in DOMAIN at /\ score[i] <= at[i] + Skew
        /\ score[i] > stamp[c] - Window /\ now <= stamp[c] + Skew
    BY <1>1 DEF IInv, MemberTimes, CallTimes
  <2>2. score[i] \in Int /\ at[i] \in Nat /\ now \in Nat /\ stamp[c] \in Int
    BY <1>1, <2>1 DEF IInv, TypeOK
  <2> QED
    BY <2>1, <2>2, ConstantsAssumption
<1>4. FullBefore(c, now)
  <2> DEFINE others == AdmittedSince(now - (Window + 2 * Skew)) \ {uuid[c]}
             found == DOMAIN P \ {uuid[c]}
  <2>1. IsFiniteSet(others) /\ IsFiniteSet(DOMAIN P)
    BY <1>1, FiniteSets, FS_Subset DEF IInv
  <2>2. Cardinality(found) <= Cardinality(others) /\ IsFiniteSet(found)
    BY <1>3, <2>1, FS_Subset
  <2>3. /\ Cardinality(found) \in Nat /\ Cardinality(others) \in Nat
        /\ Cardinality(DOMAIN P) \in Nat
    BY <2>1, <2>2, FS_CardinalityType
  <2>4. CASE uuid[c] \in DOMAIN P
    <3>1. Cardinality(found) = Cardinality(DOMAIN P) - 1
      BY <2>1, <2>4, FS_RemoveElement
    <3>2. uuid[c] \in DOMAIN at
      BY <1>3, <2>4 DEF AdmittedSince
    <3>3. Cardinality(others) >= Limit - 1
      BY <1>2, <2>2, <2>3, <3>1, ConstantsAssumption
    <3> QED
      BY <3>2, <3>3 DEF FullBefore
  <2>5. CASE uuid[c] \notin DOMAIN P
    <3>1. found = DOMAIN P
      BY <2>5
    <3>2. Cardinality(others) >= Limit
      BY <1>2, <2>2, <2>3, <3>1, ConstantsAssumption
    <3> QED
      BY <3>2 DEF FullBefore
  <2> QED
    BY <2>4, <2>5
<1>5. MemberTimes' /\ Gone'
  BY <1>1, <1>2 DEF IInv, MemberTimes, Gone
<1>6. SetBound'
  <2>1. IsFiniteSet(DOMAIN score) /\ Cardinality(DOMAIN score) <= Limit
    BY FiniteSets DEF IInv, SetBound
  <2>2. Cardinality(DOMAIN P) <= Cardinality(DOMAIN score) /\ IsFiniteSet(DOMAIN P)
    BY <1>1, <2>1, FS_Subset
  <2>3. Cardinality(DOMAIN P) \in Nat /\ Cardinality(DOMAIN score) \in Nat
    BY <2>1, <2>2, FS_CardinalityType
  <2> QED
    BY <1>2, <2>1, <2>2, <2>3, ConstantsAssumption DEF SetBound
<1> QED
  BY <1>1, <1>2, <1>4, <1>5, <1>6

\* A call that is admitted adds one member to fewer than Limit.
LEMMA AdmitFacts ==
  ASSUME IInv, NEW c \in Callers, pc[c] = "eval", Admit(c), UNCHANGED <<now, calls>>
  PROVE  /\ score' \in [DOMAIN score' -> Int] /\ DOMAIN score' \subseteq 1..calls
         /\ expireAt' \in Nat
         /\ at' \in [DOMAIN at' -> Nat] /\ DOMAIN at' = DOMAIN at \cup {uuid[c]}
         /\ \A i \in DOMAIN at : at'[i] = at[i]
         /\ at'[uuid[c]] <= stamp[c] + Skew /\ stamp[c] <= at'[uuid[c]] + Skew
         /\ MemberTimes' /\ Gone' /\ Past' /\ SetBound'
<1> DEFINE P == Purged(stamp[c])
           u == uuid[c]
<1>1. /\ P \in [DOMAIN P -> Int] /\ DOMAIN P \subseteq DOMAIN score
      /\ \A i \in DOMAIN P : P[i] = score[i] /\ P[i] > stamp[c] - Window
      /\ \A i \in DOMAIN at : i \in DOMAIN P \/ at[i] <= now - (Window - 2 * Skew)
  BY PurgedFacts
<1>2. /\ ~(Cardinality(DOMAIN P) >= Limit)
      /\ score' = [i \in DOMAIN P \cup {u} |-> IF i = u THEN stamp[c] ELSE P[i]]
      /\ expireAt' = now + Window
      /\ at' = IF u \in DOMAIN at THEN at ELSE [i \in DOMAIN at \cup {u} |-> IF i = u THEN now ELSE at[i]]
  BY DEF Admit, Full, With, Member
<1> HIDE DEF P
<1>3. /\ now \in Nat /\ calls \in Nat /\ stamp[c] \in Int /\ u \in 1..calls
      /\ now <= stamp[c] + Skew /\ stamp[c] <= now + Skew
      /\ at \in [DOMAIN at -> Nat] /\ DOMAIN at \subseteq 1..calls /\ DOMAIN score \subseteq 1..calls
  BY DEF IInv, TypeOK, CallTimes
<1> HIDE DEF u
<1>4. score' \in [DOMAIN score' -> Int] /\ DOMAIN score' \subseteq 1..calls /\ DOMAIN score' = DOMAIN P \cup {u}
  BY <1>1, <1>2, <1>3
<1>5. expireAt' \in Nat
  BY <1>2, <1>3, ConstantsAssumption
<1>6. /\ at' \in [DOMAIN at' -> Nat] /\ DOMAIN at' = DOMAIN at \cup {u}
      /\ \A i \in DOMAIN at : at'[i] = at[i]
  BY <1>2, <1>3
<1>7. at'[u] <= stamp[c] + Skew /\ stamp[c] <= at'[u] + Skew
  <2>1. CASE u \in DOMAIN at
    BY <1>2, <2>1 DEF IInv, CallTimes, u
  <2>2. CASE u \notin DOMAIN at
    BY <1>2, <1>3, <2>2
  <2> QED
    BY <2>1, <2>2
<1>8. Past'
  BY <1>2, <1>6 DEF IInv, Past
<1>9. MemberTimes'
  <2> SUFFICES ASSUME NEW i \in DOMAIN score'
               PROVE  /\ i \in DOMAIN at'
                      /\ at'[i] <= score'[i] + Skew /\ score'[i] <= at'[i] + Skew
                      /\ at'[i] + Window <= expireAt'
    BY DEF MemberTimes
  <2>1. CASE i = u
    <3>1. score'[u] = stamp[c]
      BY <1>2
    <3>2. u \in DOMAIN at' /\ at'[u] \in Nat /\ at'[u] <= now
      BY <1>6, <1>8 DEF Past
    <3>3. at'[u] + Window <= expireAt'
      BY <1>2, <1>3, <3>2, ConstantsAssumption
    <3> QED
      BY <1>7, <2>1, <3>1, <3>2, <3>3
  <2>2. CASE i # u
    <3>1. i \in DOMAIN P /\ i \in DOMAIN score /\ score'[i] = score[i]
      BY <1>1, <1>2, <1>4, <2>2
    <3>2. i \in DOMAIN at /\ at[i] <= score[i] + Skew /\ score[i] <= at[i] + Skew
      BY <3>1 DEF IInv, MemberTimes
    <3>3. at[i] <= now /\ at[i] \in Nat
      BY <1>3, <3>2 DEF IInv, Past
    <3> QED
      BY <1>2, <1>3, <1>6, <3>1, <3>2, <3>3, ConstantsAssumption
  <2> QED
    BY <2>1, <2>2
<1>10. Gone'
  BY <1>1, <1>4, <1>6 DEF Gone
<1>11. SetBound'
  <2>1. IsFiniteSet(DOMAIN P)
    BY <1>1, FiniteSets, FS_Subset DEF IInv
  <2>2. Cardinality(DOMAIN P) \in Nat /\ Cardinality(DOMAIN P) < Limit
    BY <1>2, <2>1, FS_CardinalityType, ConstantsAssumption
  <2>3. Cardinality(DOMAIN score') \in {Cardinality(DOMAIN P), Cardinality(DOMAIN P) + 1}
    BY <1>4, <2>1, FS_AddElement
  <2> QED
    BY <2>2, <2>3, ConstantsAssumption DEF SetBound
<1> QED
  BY <1>4, <1>5, <1>6, <1>7, <1>8, <1>9, <1>10, <1>11 DEF u

\* What was refused rightly stays so: the history only grows.
LEMMA RefusedStays ==
  ASSUME TypeOK, TypeOK', DOMAIN at \subseteq DOMAIN at', \A i \in DOMAIN at : at'[i] = at[i],
         NEW c \in Callers, NEW t, FullBefore(c, t), uuid'[c] = uuid[c]
  PROVE  FullBefore(c, t)'
<1> DEFINE s == t - (Window + 2 * Skew)
           A == AdmittedSince(s) \ {uuid[c]}
           B == {i \in DOMAIN at' : at'[i] > s} \ {uuid[c]}
<1>1. A \subseteq B
  BY DEF AdmittedSince
<1>2. IsFiniteSet(B)
  <2>1. IsFiniteSet(1..calls')
    <3>1. 1 \in Int /\ calls' \in Int
      BY DEF TypeOK
    <3> QED
      BY <3>1, FS_Interval
  <2>2. B \subseteq 1..calls'
    BY DEF TypeOK
  <2> QED
    BY <2>1, <2>2, FS_Subset
<1>3. Cardinality(A) <= Cardinality(B) /\ IsFiniteSet(A)
  BY <1>1, <1>2, FS_Subset
<1>4. Cardinality(A) \in Nat /\ Cardinality(B) \in Nat
  BY <1>2, <1>3, FS_CardinalityType
<1>5. \/ Cardinality(A) >= Limit
      \/ uuid[c] \in DOMAIN at /\ Cardinality(A) >= Limit - 1
  BY DEF FullBefore
<1>6. \/ Cardinality(B) >= Limit
      \/ uuid[c] \in DOMAIN at' /\ Cardinality(B) >= Limit - 1
  BY <1>3, <1>4, <1>5, ConstantsAssumption
<1> QED
  BY <1>6 DEF FullBefore, AdmittedSince

----------------------------------------------------------------------------
\* A call that ends, or is sent again, leaves the others as they are.
LEMMA CallsAfter ==
  ASSUME IInv, NEW c \in Callers, pc[c] = "eval", UNCHANGED <<now, calls>>,
         NEW result \in Results, End(c, result) \/ UNCHANGED <<pc, uuid, stamp>>,
         \A i \in DOMAIN at : at'[i] = at[i],
         \/ at' = at
         \/ /\ DOMAIN at' = DOMAIN at \cup {uuid[c]}
            /\ at'[uuid[c]] <= stamp[c] + Skew /\ stamp[c] <= at'[uuid[c]] + Skew
  PROVE  CallTimes' /\ OwnUuid'
<1>1. ASSUME NEW d \in Callers, pc'[d] = "eval"
      PROVE  pc[d] = "eval" /\ uuid'[d] = uuid[d] /\ stamp'[d] = stamp[d]
  <2>1. CASE End(c, result)
    BY <1>1, <2>1 DEF End, IInv, TypeOK, Results
  <2>2. CASE UNCHANGED <<pc, uuid, stamp>>
    BY <1>1, <2>2
  <2> QED
    BY <2>1, <2>2
<1>2. OwnUuid'
  BY <1>1 DEF IInv, OwnUuid
<1>3. ASSUME NEW d \in Callers, pc'[d] = "eval", uuid'[d] \in DOMAIN at'
      PROVE  at'[uuid'[d]] <= stamp'[d] + Skew /\ stamp'[d] <= at'[uuid'[d]] + Skew
  <2>1. pc[d] = "eval" /\ uuid'[d] = uuid[d] /\ stamp'[d] = stamp[d]
    BY <1>1, <1>3
  <2>2. CASE uuid[d] \in DOMAIN at
    BY <2>1, <2>2 DEF IInv, CallTimes
  <2>3. CASE uuid[d] \notin DOMAIN at
    <3>1. uuid[d] = uuid[c]
      BY <1>3, <2>1, <2>3
    <3>2. d = c
      BY <2>1, <3>1 DEF IInv, OwnUuid
    <3> QED
      BY <1>3, <2>1, <2>3, <3>2
  <2> QED
    BY <2>2, <2>3
<1> QED
  BY <1>1, <1>2, <1>3 DEF IInv, CallTimes

LEMMA EndTypes ==
  ASSUME TypeOK, NEW c \in Callers, NEW result \in Results, calls' = calls,
         End(c, result) \/ UNCHANGED <<pc, uuid, stamp>>
  PROVE  /\ pc' \in [Callers -> Results \cup {"eval"}]
         /\ uuid' \in [Callers -> 0..calls'] /\ stamp' \in [Callers -> Int]
         /\ \A d \in Callers \ {c} : pc'[d] = pc[d]
         /\ pc'[c] \in {pc[c], result}
BY DEF End, TypeOK

LEMMA AllowInv ==
  ASSUME IInv, NEW c \in Callers, Allow(c)
  PROVE  IInv'
<1> USE DEF IInv
<1>1. PICK s \in (now - Skew)..(now + Skew) : stamp' = [stamp EXCEPT ![c] = s]
  BY DEF Allow
<1>2. s \in Int /\ now <= s + Skew /\ s <= now + Skew /\ calls \in Nat /\ now \in Nat
  BY ConstantsAssumption DEF TypeOK
<1>3. TypeOK'
  <2>1. calls' \in 0..MaxCalls /\ calls' = calls + 1
    BY <1>2, ConstantsAssumption DEF Allow
  <2>2. 1..calls \subseteq 1..calls' /\ 0..calls \subseteq 0..calls'
    BY <1>2, <2>1
  <2>3. uuid' \in [Callers -> 0..calls'] /\ stamp' \in [Callers -> Int]
    BY <1>1, <1>2, <2>1, <2>2 DEF Allow, TypeOK
  <2>4. decided' \in [Callers -> Nat] /\ pc' \in [Callers -> Results \cup {"eval"}]
    BY DEF Allow, TypeOK
  <2> QED
    BY <2>1, <2>2, <2>3, <2>4 DEF Allow, TypeOK
<1>4. CallTimes' /\ OwnUuid'
  <2>1. calls + 1 \notin DOMAIN at
    BY <1>2 DEF TypeOK
  <2>2. \A d \in Callers : pc[d] = "eval" => uuid[d] # calls + 1
    BY <1>2 DEF CallTimes
  <2>3. CallTimes'
    BY <1>1, <1>2, <2>1 DEF Allow, TypeOK, CallTimes
  <2>4. OwnUuid'
    BY <2>2 DEF Allow, TypeOK, OwnUuid
  <2> QED
    BY <2>3, <2>4
<1>5. MemberTimes' /\ Past' /\ Gone' /\ SetBound'
  BY DEF Allow, MemberTimes, Past, Gone, SetBound
<1>6. RefusedOnlyIfFull'
  <2>1. \A d \in Callers : pc'[d] = "refused" =>
          pc[d] = "refused" /\ decided'[d] = decided[d] /\ uuid'[d] = uuid[d]
    BY DEF Allow, TypeOK
  <2> QED
    BY <2>1 DEF Allow, RefusedOnlyIfFull, OthersBefore, AdmittedSince
<1> QED
  BY <1>3, <1>4, <1>5, <1>6

\* Allowed, or AnswerLost after the call was admitted.
LEMMA AdmitInv ==
  ASSUME IInv, NEW c \in Callers, pc[c] = "eval", Admit(c), UNCHANGED <<now, calls, decided>>,
         NEW result \in Results \ {"refused"}, End(c, result) \/ UNCHANGED <<pc, uuid, stamp>>
  PROVE  IInv'
<1>1. TypeOK
  BY DEF IInv
<1>2. TypeOK'
  <2>1. uuid[c] \in 1..calls
    BY DEF IInv, CallTimes
  <2>2. /\ score' \in [DOMAIN score' -> Int] /\ DOMAIN score' \subseteq 1..calls
        /\ expireAt' \in Nat
        /\ at' \in [DOMAIN at' -> Nat] /\ DOMAIN at' = DOMAIN at \cup {uuid[c]}
    BY AdmitFacts
  <2>3. DOMAIN at' \subseteq 1..calls
    BY <1>1, <2>1, <2>2 DEF TypeOK
  <2>4. /\ pc' \in [Callers -> Results \cup {"eval"}]
        /\ uuid' \in [Callers -> 0..calls'] /\ stamp' \in [Callers -> Int]
    BY <1>1, EndTypes
  <2> QED
    BY <1>1, <2>2, <2>3, <2>4 DEF TypeOK
<1>3. CallTimes' /\ OwnUuid'
  BY AdmitFacts, CallsAfter
<1>4. RefusedOnlyIfFull'
  <2> SUFFICES ASSUME NEW d \in Callers, pc'[d] = "refused"
               PROVE  FullBefore(d, decided[d])'
    BY DEF RefusedOnlyIfFull, OthersBefore, FullBefore
  <2>1. pc[d] = "refused" /\ FullBefore(d, decided[d])
    BY <1>1, EndTypes, RefusedAreFull DEF IInv, TypeOK
  <2>2. uuid'[d] = uuid[d] /\ decided'[d] = decided[d]
    BY DEF End
  <2> QED
    BY <1>1, <1>2, <2>1, <2>2, AdmitFacts, RefusedStays DEF FullBefore
<1> QED
  BY <1>2, <1>3, <1>4, AdmitFacts DEF IInv

\* Refused, or AnswerLost after the call was refused.
LEMMA RefuseInv ==
  ASSUME IInv, NEW c \in Callers, pc[c] = "eval", Refuse(c), UNCHANGED <<now, calls>>,
         NEW result \in Results, End(c, result) \/ UNCHANGED <<pc, uuid, stamp>>,
         decided' = IF result = "refused" THEN [decided EXCEPT ![c] = now] ELSE decided
  PROVE  IInv'
<1>1. TypeOK /\ UNCHANGED <<expireAt, at>>
  BY DEF IInv, Refuse
<1>2. TypeOK'
  <2>1. decided' \in [Callers -> Nat]
    BY <1>1 DEF TypeOK
  <2> QED
    BY <1>1, <2>1, RefuseFacts, EndTypes DEF TypeOK
<1>3. CallTimes' /\ OwnUuid'
  BY <1>1, CallsAfter
<1>4. RefusedOnlyIfFull'
  <2>1. UNCHANGED uuid
    BY DEF End
  <2> SUFFICES ASSUME NEW d \in Callers, pc'[d] = "refused"
               PROVE  FullBefore(d, decided'[d])
    BY <1>1, <2>1 DEF RefusedOnlyIfFull, OthersBefore, FullBefore, AdmittedSince
  <2>2. CASE d = c
    <3>1. result = "refused"
      BY <1>1, <2>2, EndTypes
    <3>2. decided'[d] = now
      BY <1>1, <2>2, <3>1 DEF TypeOK
    <3> QED
      BY <2>2, <3>2, RefuseFacts
  <2>3. CASE d # c
    <3>1. pc[d] = "refused" /\ decided'[d] = decided[d]
      BY <1>1, <2>3, EndTypes DEF TypeOK
    <3> QED
      BY <3>1, RefusedAreFull DEF IInv
  <2> QED
    BY <2>2, <2>3
<1>5. Past'
  BY <1>1 DEF IInv, Past
<1> QED
  BY <1>2, <1>3, <1>4, <1>5, RefuseFacts DEF IInv

LEMMA EvalErrorInv ==
  ASSUME IInv, NEW c \in Callers, EvalError(c)
  PROVE  IInv'
<1> USE DEF IInv, EvalError
<1>1. "error" \in Results
  BY DEF Results
<1>2. TypeOK'
  BY <1>1, EndTypes DEF TypeOK
<1>3. CallTimes' /\ OwnUuid'
  BY <1>1, CallsAfter
<1>4. MemberTimes' /\ Past' /\ Gone' /\ SetBound'
  BY DEF MemberTimes, Past, Gone, SetBound
<1>5. RefusedOnlyIfFull'
  <2>1. \A d \in Callers : pc'[d] = "refused" => pc[d] = "refused"
    BY DEF End, TypeOK
  <2> QED
    BY <2>1 DEF End, RefusedOnlyIfFull, OthersBefore, AdmittedSince
<1> QED
  BY <1>2, <1>3, <1>4, <1>5

LEMMA TickInv ==
  ASSUME IInv, Tick
  PROVE  IInv'
<1> USE DEF IInv, Tick
<1>1. now \in Nat /\ now' = now + 1
  BY DEF TypeOK
<1>2. TypeOK'
  BY <1>1, ConstantsAssumption DEF TypeOK
<1>3. CallTimes' /\ OwnUuid'
  <2>1. \A c \in Callers : stamp[c] \in Int
    BY DEF TypeOK
  <2> QED
    BY <1>1, <2>1, ConstantsAssumption DEF CallTimes, OwnUuid
<1>4. Past' /\ Gone'
  <2>1. \A i \in DOMAIN at : at[i] \in Nat
    BY DEF TypeOK
  <2> QED
    BY <1>1, <2>1, ConstantsAssumption DEF Past, Gone
<1>5. MemberTimes' /\ SetBound' /\ RefusedOnlyIfFull'
  BY DEF MemberTimes, SetBound, RefusedOnlyIfFull, OthersBefore, AdmittedSince
<1> QED
  BY <1>2, <1>3, <1>4, <1>5

LEMMA StepInv == IInv /\ [Next]_vars => IInv'
<1> SUFFICES ASSUME IInv, [Next]_vars
             PROVE  IInv'
  OBVIOUS
<1>1. {"allowed", "refused", "error"} \subseteq Results
  BY DEF Results
<1>2. ASSUME NEW c \in Callers, Allowed(c)
      PROVE  IInv'
  BY <1>1, <1>2, AdmitInv DEF Allowed
<1>3. ASSUME NEW c \in Callers, Refused(c)
      PROVE  IInv'
  BY <1>1, <1>3, RefuseInv DEF Refused
<1>4. ASSUME NEW c \in Callers, AnswerLost(c)
      PROVE  IInv'
  <2>1. End(c, "error") \/ UNCHANGED <<pc, uuid, stamp>>
    BY <1>4 DEF AnswerLost
  <2>2. CASE Admit(c)
    BY <1>1, <1>4, <2>1, <2>2, AdmitInv DEF AnswerLost
  <2>3. CASE Refuse(c)
    BY <1>1, <1>4, <2>1, <2>3, RefuseInv DEF AnswerLost
  <2> QED
    BY <1>4, <2>2, <2>3 DEF AnswerLost
<1>5. CASE UNCHANGED vars
  BY <1>5 DEF vars, IInv, TypeOK, CallTimes, OwnUuid, MemberTimes, Past, Gone, SetBound,
              RefusedOnlyIfFull, OthersBefore, AdmittedSince
<1> QED
  BY <1>2, <1>3, <1>4, <1>5, AllowInv, EvalErrorInv, TickInv DEF Next

\* The variables keep their types: whatever is repeated or lost, only calls are members.
THEOREM TypeCorrect == Spec => []TypeOK
<1>1. IInv => TypeOK
  BY DEF IInv
<1> QED
  BY <1>1, InitInv, StepInv, PTL DEF Spec

\* No window that is shorter than the configured one by twice the skew has more than
\* Limit admitted pings: those that are gone from the set were admitted before it.
THEOREM WindowIsBound == Spec => []WindowBound
<1>1. IInv => WindowBound
  <2> SUFFICES ASSUME IInv
               PROVE  WindowBound
    OBVIOUS
  <2> DEFINE A == AdmittedSince(now - (Window - 2 * Skew))
  <2>1. A \subseteq DOMAIN score
    <3> SUFFICES ASSUME NEW i \in DOMAIN at, at[i] > now - (Window - 2 * Skew)
                 PROVE  i \in DOMAIN score
      BY DEF AdmittedSince
    <3>1. at[i] \in Int /\ now - (Window - 2 * Skew) \in Int
      BY ConstantsAssumption DEF IInv, TypeOK
    <3> QED
      BY <3>1 DEF IInv, Gone
  <2>2. IsFiniteSet(DOMAIN score) /\ Cardinality(DOMAIN score) <= Limit
    BY FiniteSets DEF IInv, SetBound
  <2>3. Cardinality(A) <= Cardinality(DOMAIN score) /\ IsFiniteSet(A)
    BY <2>1, <2>2, FS_Subset
  <2>4. Cardinality(A) \in Nat /\ Cardinality(DOMAIN score) \in Nat
    BY <2>2, <2>3, FS_CardinalityType
  <2>5. Cardinality(A) <= Limit
    BY <2>2, <2>3, <2>4, ConstantsAssumption
  <2> QED
    BY <2>5 DEF WindowBound
<1> QED
  BY <1>1, InitInv, StepInv, PTL DEF Spec

\* A ping is refused only when, in the window before it that is longer by twice the skew,
\* others used up the limit, or all of it but one, and a call of this ping that lost its
\* answer was admitted.
THEOREM RefusedIsFull == Spec => []RefusedOnlyIfFull
<1>1. IInv => RefusedOnlyIfFull
  BY DEF IInv
<1> QED
  BY <1>1, InitInv, StepInv, PTL DEF Spec
=============================================================================
