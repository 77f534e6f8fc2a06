--------------------------- MODULE GeoStoreProofs ---------------------------
(***************************************************************************)
(* Proofs about GeoStore, for any number of vehicles, loops and pruners.   *)
(***************************************************************************)
EXTENDS GeoStore, TLAPS

\* A vehicle that nothing clouded and that is about to be removed, or is missing from
\* the index, has no key, and no upsert that is about to set one.
Out(v) == index[v] = None \/ BeingRemoved(v)
OutIsDead == \A v \in Vehicles \ clouded : Out(v) => key[v] = 0 /\ ~BeingUpserted(v)

IInv == TypeOK /\ OutIsDead

LEMMA InitInv == Init => IInv
BY ConstantsAssumption DEF Init, IInv, TypeOK, OutIsDead, Out, BeingUpserted, BeingRemoved


\* The end of an upsert starts none.
LEMMA UpsertEnds ==
  ASSUME TypeOK, NEW u \in Loops, upsert' = [upsert EXCEPT ![u] = None],
         NEW w \in Vehicles, BeingUpserted(w)'
  PROVE  BeingUpserted(w)
<1>1. PICK x \in Loops : upsert'[x] = w
  BY DEF BeingUpserted
<1>2. x # u
  BY <1>1, ConstantsAssumption DEF TypeOK
<1> QED
  BY <1>1, <1>2 DEF BeingUpserted, TypeOK

LEMMA UpsertInv ==
  ASSUME IInv, NEW u \in Loops, UpsertVehicle(u)
  PROVE  IInv'
<1> USE DEF IInv, redis, prunerVars
<1>1. ASSUME NEW v \in Vehicles, NEW place \in Places, GeoAdd(u, v, place)
      PROVE  IInv'
  <2>1. TypeOK'
    BY <1>1 DEF GeoAdd, TypeOK, Added, GeoAddTakes, AfterAdd
  <2>2. ASSUME NEW w \in Vehicles \ clouded', Out(w)'
        PROVE  key'[w] = 0 /\ ~BeingUpserted(w)'
    <3>1. w # v
      BY <1>1, <2>2 DEF GeoAdd, TypeOK, Added, AfterAdd, Out, BeingRemoved
    <3>2. w \notin clouded /\ Out(w)
      BY <1>1, <2>2, <3>1 DEF GeoAdd, TypeOK, Added, AfterAdd, Out, BeingRemoved
    <3> QED
      BY <1>1, <3>1, <3>2 DEF GeoAdd, TypeOK, OutIsDead, BeingUpserted
  <2> QED
    BY <2>1, <2>2 DEF OutIsDead
<1>2. ASSUME NEW v \in Vehicles, NEW place \in Places, GeoAddError(u, v, place)
      PROVE  IInv'
  <2>1. TypeOK'
    BY <1>2 DEF GeoAddError, TypeOK, Added, GeoAddTakes, AfterAdd
  <2>2. ASSUME NEW w \in Vehicles \ clouded', Out(w)'
        PROVE  key'[w] = 0 /\ ~BeingUpserted(w)'
    <3>1. w # v
      BY <1>2, <2>2 DEF GeoAddError, TypeOK, Added, AfterAdd, Out, BeingRemoved
    <3>2. w \notin clouded /\ Out(w)
      BY <1>2, <2>2, <3>1 DEF GeoAddError, TypeOK, Added, AfterAdd, Out, BeingRemoved
    <3> QED
      BY <1>2, <3>1, <3>2 DEF GeoAddError, TypeOK, OutIsDead, BeingUpserted
  <2> QED
    BY <2>1, <2>2 DEF OutIsDead
<1>3. CASE Set(u)
  <2>1. TypeOK'
    BY <1>3, ConstantsAssumption DEF Set, TypeOK
  <2>2. upsert[u] \in Vehicles /\ BeingUpserted(upsert[u])
    BY <1>3 DEF Set, TypeOK, BeingUpserted
  <2>3. ASSUME NEW w \in Vehicles \ clouded', Out(w)'
        PROVE  key'[w] = 0 /\ ~BeingUpserted(w)'
    <3>1. w \notin clouded /\ Out(w)
      BY <1>3, <2>3 DEF Set, Out, BeingRemoved
    <3>2. key[w] = 0 /\ ~BeingUpserted(w)
      BY <3>1, <2>3 DEF OutIsDead
    <3>3. w # upsert[u]
      BY <2>2, <3>2
    <3> QED
      BY <1>3, <2>3, <3>2, <3>3, UpsertEnds DEF Set, TypeOK
  <2> QED
    BY <2>1, <2>3 DEF OutIsDead
<1>4. CASE SetError(u)
  <2>1. TypeOK'
    BY <1>4 DEF SetError, TypeOK
  <2>2. \A w \in Vehicles : BeingUpserted(w)' => BeingUpserted(w)
    BY <1>4, UpsertEnds DEF SetError
  <2> QED
    BY <1>4, <2>1, <2>2 DEF SetError, OutIsDead, Out, BeingRemoved
<1> QED
  BY <1>1, <1>2, <1>3, <1>4 DEF UpsertVehicle

LEMMA PrunerInv ==
  ASSUME IInv, NEW p \in Pruners, Pruner(p)
  PROVE  IInv'
<1> USE DEF IInv, redis, prunerVars
<1>1. CASE StartPruner(p)
  BY <1>1 DEF StartPruner, TypeOK, OutIsDead, Out, BeingRemoved, BeingUpserted
<1>2. CASE GeoSearch(p)
  BY <1>2 DEF GeoSearch, Resting, TypeOK, OutIsDead, Out, BeingRemoved, BeingUpserted
<1>3. ASSUME NEW v \in Vehicles, Exists(p, v)
      PROVE  IInv'
  <2>1. TypeOK'
    BY <1>3 DEF Exists, TypeOK
  <2>2. ASSUME NEW w \in Vehicles \ clouded', Out(w)'
        PROVE  key[w] = 0 /\ ~BeingUpserted(w)
    <3>1. w \notin clouded
      BY <1>3, <2>2 DEF Exists
    <3>2. CASE Out(w)
      BY <3>1, <3>2 DEF OutIsDead
    <3>3. CASE ~Out(w)
      <4>1. w = v /\ Gone(v)
        BY <1>3, <2>2, <3>3 DEF Exists, Out, BeingRemoved, TypeOK
      <4> QED
        BY <1>3, <2>2, <4>1 DEF Exists, Gone
    <3> QED
      BY <3>2, <3>3
  <2>3. \A w \in Vehicles : BeingUpserted(w)' <=> BeingUpserted(w)
    BY <1>3 DEF Exists, BeingUpserted
  <2> QED
    BY <1>3, <2>1, <2>2, <2>3 DEF OutIsDead, Exists
<1>4. ASSUME NEW v \in Vehicles, ExistsError(p, v)
      PROVE  IInv'
  <2>1. TypeOK'
    BY <1>4 DEF ExistsError, TypeOK
  <2>2. ASSUME NEW w \in Vehicles \ clouded', Out(w)'
        PROVE  w \notin clouded /\ Out(w)
    BY <1>4, <2>2 DEF ExistsError, Out, BeingRemoved, TypeOK
  <2>3. \A w \in Vehicles : BeingUpserted(w)' <=> BeingUpserted(w)
    BY <1>4 DEF ExistsError, BeingUpserted
  <2> QED
    BY <1>4, <2>1, <2>2, <2>3 DEF OutIsDead, ExistsError
<1>5. ASSUME NEW v \in Vehicles, ZRem(p, v)
      PROVE  IInv'
  <2>1. TypeOK'
    BY <1>5 DEF ZRem, TypeOK
  <2>2. BeingRemoved(v)
    BY <1>5 DEF ZRem, BeingRemoved
  <2>3. ASSUME NEW w \in Vehicles \ clouded', Out(w)'
        PROVE  w \notin clouded /\ Out(w)
    BY <1>5, <2>2, <2>3, ConstantsAssumption DEF ZRem, Out, BeingRemoved, TypeOK
  <2> QED
    BY <1>5, <2>1, <2>3 DEF OutIsDead, ZRem, BeingUpserted
<1>6. ASSUME ZRemError(p) \/ StopPruner(p)
      PROVE  IInv'
  <2>1. TypeOK'
    BY <1>6 DEF ZRemError, StopPruner, TypeOK
  <2>2. ASSUME NEW w \in Vehicles \ clouded', Out(w)'
        PROVE  w \notin clouded /\ Out(w)
    BY <1>6, <2>2, ConstantsAssumption DEF ZRemError, StopPruner, Out, BeingRemoved, TypeOK
  <2> QED
    BY <1>6, <2>1, <2>2 DEF OutIsDead, ZRemError, StopPruner, BeingUpserted
<1> QED
  BY <1>1, <1>2, <1>3, <1>4, <1>5, <1>6 DEF Pruner, Lookup, Removal

LEMMA StepInv == IInv /\ [Next]_vars => IInv'
<1> SUFFICES ASSUME IInv, [Next]_vars
             PROVE  IInv'
  OBVIOUS
<1>1. CASE Tick
  BY <1>1, ConstantsAssumption
  DEF Tick, IInv, prunerVars, TypeOK, OutIsDead, Out, BeingRemoved, BeingUpserted
<1>2. CASE UNCHANGED vars
  BY <1>2 DEF vars, redis, prunerVars, IInv, TypeOK, OutIsDead, Out, BeingRemoved, BeingUpserted
<1> QED
  BY <1>1, <1>2, UpsertInv, PrunerInv DEF Next

\* Loops and pruners write only what their types allow: the index holds no place that
\* GEOADD refuses, and a pruner that stopped leaves nothing half done behind.
THEOREM TypeCorrect == Spec => []TypeOK
<1>1. IInv => TypeOK
  BY DEF IInv
<1> QED
  BY <1>1, InitInv, StepInv, PTL DEF Spec

\* With any number of loops and pruners at once, a vehicle with a live key is missing
\* from the index only after a removal overlapped with an upsert or a look-up failed.
THEOREM HiddenIsRaced == Spec => []HiddenOnlyByRace
<1>1. IInv => HiddenOnlyByRace
  <2> SUFFICES ASSUME IInv, NEW v \in Vehicles, Hidden(v), v \notin clouded
               PROVE  FALSE
    BY DEF HiddenOnlyByRace
  <2>1. key[v] = 0
    BY DEF IInv, OutIsDead, Out, Hidden
  <2>2. key[v] > 0
    BY DEF Hidden
  <2> QED
    BY <2>1, <2>2
<1> QED
  BY <1>1, InitInv, StepInv, PTL DEF Spec
=============================================================================
