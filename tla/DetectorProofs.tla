--------------------------- MODULE DetectorProofs ---------------------------
(***************************************************************************)
(* Proofs about Detector, for any sets of vehicles, pings and leaderships  *)
(* and any length of the silence.                                          *)
(***************************************************************************)
EXTENDS Detector, SequenceTheorems, TLAPS

----------------------------------------------------------------------------
(* What Check computes.                                                    *)

LEMMA PositiveLength ==
  ASSUME NEW x, Len(x) = 3
  PROVE  x # <<>>
<1>1. Len(<<>>) = 0
  BY EmptySeq
<1>2. 0 # 3
  OBVIOUS
<1> QED
  BY <1>1, <1>2, Zenon

\* The window on a vehicle's pings holds the last three at most, and ends with the
\* ping before and the new one.
LEMMA LastThreeAppend ==
  ASSUME NEW S, NEW s \in Seq(S), NEW p \in S, Len(s) <= 3
  PROVE  LET t == LastThree(Append(s, p))
         IN  /\ t \in Seq(S) /\ t # <<>> /\ Len(t) <= 3
             /\ Last(t) = p
             /\ Len(t) >= 2 => s # <<>> /\ Previous(t) = Last(s)
<1> DEFINE a == Append(s, p)
           t == LastThree(a)
<1> SUFFICES /\ t \in Seq(S) /\ t # <<>> /\ Len(t) <= 3
             /\ Last(t) = p
             /\ Len(t) >= 2 => s # <<>> /\ Previous(t) = Last(s)
  OBVIOUS
<1>1. /\ a \in Seq(S) /\ Len(a) = Len(s) + 1 /\ Len(s) \in Nat
      /\ \A n \in 1..Len(s) : a[n] = s[n]
      /\ a[Len(s) + 1] = p
  OBVIOUS
<1>2. CASE Len(s) < 3
  <2>1. t = a /\ Len(t) = Len(s) + 1
    BY <1>1, <1>2 DEF LastThree
  <2>2. t # <<>>
    BY <2>1, <1>1, EmptySeq
  <2> QED
    BY <1>1, <1>2, <2>1, <2>2 DEF Last, Previous
<1>3. CASE Len(s) = 3
  <2>1. t = SubSeq(a, 2, 4)
    BY <1>1, <1>3 DEF LastThree
  <2>2. \A n \in 2..4 : a[n] \in S
    BY <1>1, <1>3, ElementOfSeq
  <2> HIDE DEF a
  <2>3. /\ SubSeq(a, 2, 4) \in Seq(S)
        /\ Len(SubSeq(a, 2, 4)) = 4 - 2 + 1
        /\ \A n \in 1..(4 - 2 + 1) : SubSeq(a, 2, 4)[n] = a[2 + n - 1]
    BY <2>2, SubSeqProperties, SMTT(30)
  <2>4. t \in Seq(S) /\ Len(t) = 3
    BY <2>1, <2>3
  <2>6. t[3] = p /\ t[2] = s[3]
    BY <2>1, <2>3, <1>1, <1>3
  <2> HIDE DEF t
  <2>5. t # <<>>
    BY <2>4, PositiveLength, Zenon
  <2> QED
    BY <1>3, <2>4, <2>5, <2>6 DEF Last, Previous
<1>4. Len(s) < 3 \/ Len(s) = 3
  OBVIOUS
<1> QED
  BY <1>2, <1>3, <1>4, Zenon

\* What Check has to publish is a sequence of anomalies.
LEMMA AnomaliesType ==
  ASSUME NEW pings
  PROVE  Anomalies(pings) \in Seq(AnomalyTypes)
<1> DEFINE a == IF Len(pings) >= 3 /\ checkZeroSpeed(pings) THEN <<"ZERO_SPEED">> ELSE <<>>
           b == IF OverSpeed(Last(pings)) THEN <<"OVER_SPEED">> ELSE <<>>
           c == IF Len(pings) >= 2 /\ Deviates(Last(pings), Previous(pings)) THEN <<"ROUTE_DEVIATION">> ELSE <<>>
<1>1. a \in Seq(AnomalyTypes) /\ b \in Seq(AnomalyTypes) /\ c \in Seq(AnomalyTypes)
  <2>1. <<>> \in Seq(AnomalyTypes) /\ \A x \in AnomalyTypes : <<x>> \in Seq(AnomalyTypes)
    OBVIOUS
  <2>2. "ZERO_SPEED" \in AnomalyTypes /\ "OVER_SPEED" \in AnomalyTypes /\ "ROUTE_DEVIATION" \in AnomalyTypes
    BY DEF AnomalyTypes
  <2> QED
    BY <2>1, <2>2, Zenon
<1>2. Anomalies(pings) = (a \o b) \o c
  BY DEF Anomalies
<1> HIDE DEF a, b, c
<1> QED
  BY <1>1, <1>2, ConcatProperties

\* A report more is counted for its detector and its vehicle alone.
LEMMA OneMore ==
  ASSUME NEW r \in [Terms -> [Vehicles -> 0..2]], NEW w \in Terms, NEW v \in Vehicles, r[w][v] # 2
  PROVE  LET n == [r EXCEPT ![w][v] = @ + 1]
         IN  /\ n \in [Terms -> [Vehicles -> 0..2]]
             /\ n[w][v] = r[w][v] + 1 /\ r[w][v] \in 0..1
             /\ \A u \in Terms, x \in Vehicles : u # w \/ x # v => n[u][x] = r[u][x]
<1> DEFINE row == r[w]
           more == [row EXCEPT ![v] = @ + 1]
           n == [r EXCEPT ![w] = more]
<1>1. row \in [Vehicles -> 0..2] /\ row[v] \in 0..1
  OBVIOUS
<1> HIDE DEF row
<1>2. /\ more \in [Vehicles -> 0..2] /\ more[v] = row[v] + 1
      /\ \A x \in Vehicles : x # v => more[x] = row[x]
  BY <1>1
<1> HIDE DEF more
<1>3. /\ n \in [Terms -> [Vehicles -> 0..2]] /\ n[w] = more
      /\ \A u \in Terms : u # w => n[u] = r[u]
  BY <1>2
<1>4. [r EXCEPT ![w][v] = @ + 1] = n
  BY DEF row, more
<1> HIDE DEF n
<1>5. \A u \in Terms, x \in Vehicles : u # w \/ x # v => n[u][x] = r[u][x]
  BY <1>2, <1>3 DEF row
<1>6. n[w][v] = r[w][v] + 1 /\ r[w][v] \in 0..1
  BY <1>1, <1>2, <1>3 DEF row
<1> QED
  BY <1>3, <1>4, <1>5, <1>6

----------------------------------------------------------------------------
(* Types, and the two records of a vehicle's way.                          *)

\* The two records of a vehicle's way agree: LastRoute is the end of LastPings.
RouteIsTail ==
  \A v \in Vehicles :
    /\ Known(v) => lastRoute[v][1] = Last(lastPings[v])
    /\ Len(lastPings[v]) >= 2 => lastRoute[v][2] = Previous(lastPings[v])

LEMMA InitType == Init => TypeOK /\ RouteIsTail
<1> SUFFICES ASSUME Init
             PROVE  TypeOK /\ RouteIsTail
  OBVIOUS
<1> USE DEF Init
<1>1. TypeOK
  BY ConstantsAssumption DEF TypeOK
<1>2. RouteIsTail
  BY DEF RouteIsTail, Known
<1> QED
  BY <1>1, <1>2

LEMMA NextType == TypeOK /\ RouteIsTail /\ [Next]_vars => TypeOK' /\ RouteIsTail'
<1> SUFFICES ASSUME TypeOK, RouteIsTail, [Next]_vars
             PROVE  TypeOK' /\ RouteIsTail'
  OBVIOUS
<1> USE ConstantsAssumption DEF TypeOK, Checking, stateVars, checkVars, sweepVars
<1>r. UNCHANGED <<lastPings, lastRoute>> => RouteIsTail'
  BY DEF RouteIsTail, Known
<1>1. ASSUME NEW w \in Terms, NEW v \in Vehicles, NEW p \in Ping, CheckState(w, v, p)
      PROVE  TypeOK' /\ RouteIsTail'
  <2> DEFINE t == LastThree(Append(lastPings[v], p))
  <2>1. /\ t \in Seq(Ping) /\ t # <<>> /\ Len(t) <= 3
        /\ Last(t) = p
        /\ Len(t) >= 2 => lastPings[v] # <<>> /\ Previous(t) = Last(lastPings[v])
    BY LastThreeAppend
  <2>2. Anomalies(t) \in Seq(AnomalyTypes)
    BY AnomaliesType
  <2>3. /\ lastPings' = [lastPings EXCEPT ![v] = t]
        /\ lastRoute' = [lastRoute EXCEPT ![v] = <<p, lastRoute[v][1]>>]
        /\ age' = [age EXCEPT ![v] = 0]
        /\ fired' = [fired EXCEPT ![v] = FALSE]
        /\ late' = late \ {v}
        /\ check' = [check EXCEPT ![w] = [veh |-> v, todo |-> Anomalies(t)]]
        /\ raised' = [raised EXCEPT ![w] = {}]
        /\ way' = [way EXCEPT ![w] = <<p, lastRoute[v][1], lastRoute[v][2]>>]
        /\ stale' = [x \in Terms |-> stale[x] \cup {v}]
        /\ reports' = [x \in Terms |-> [reports[x] EXCEPT ![v] = 0]]
        /\ UNCHANGED <<spc, events, acked, sweepAge>>
    BY <1>1 DEF CheckState, ShiftRoute, AfterPing
  <2> HIDE DEF t
  <2>4. TypeOK'
    <3>1. lastPings' \in [Vehicles -> Seq(Ping)] /\ \A x \in Vehicles : Len(lastPings'[x]) <= 3
      <4> SUFFICES ASSUME NEW x \in Vehicles
                   PROVE  lastPings'[x] \in Seq(Ping) /\ Len(lastPings'[x]) <= 3
        BY <2>3
      <4>1. CASE x = v
        <5>1. lastPings'[x] = t
          BY <4>1, <2>3
        <5> QED
          BY <5>1, <2>1, Zenon
      <4>2. CASE x # v
        BY <4>2, <2>3
      <4> QED
        BY <4>1, <4>2
    <3>2. lastRoute' \in [Vehicles -> (Ping \cup {None}) \X (Ping \cup {None})]
      BY <2>3
    <3>3. check' \in [Terms -> [veh : Vehicles, todo : Seq(AnomalyTypes)] \cup {None}]
      BY <2>2, <2>3
    <3>4. /\ age' \in [Vehicles -> 0..(Silence + 1)]
          /\ fired' \in [Vehicles -> BOOLEAN]
          /\ raised' \in [Terms -> SUBSET AnomalyTypes]
          /\ stale' \in [Terms -> SUBSET Vehicles]
          /\ late' \subseteq Vehicles
      BY <2>3
    <3>5. way' \in [Terms -> (Ping \cup {None}) \X (Ping \cup {None}) \X (Ping \cup {None})]
      <4>1. lastRoute[v][1] \in Ping \cup {None} /\ lastRoute[v][2] \in Ping \cup {None}
        OBVIOUS
      <4> QED
        BY <4>1, <2>3
    <3>6. reports' \in [Terms -> [Vehicles -> 0..2]]
      BY <2>3
    <3> QED
      BY <3>1, <3>2, <3>3, <3>4, <3>5, <3>6, <2>3
  <2>5. RouteIsTail'
    <3> SUFFICES ASSUME NEW x \in Vehicles
                 PROVE  /\ Known(x)' => lastRoute'[x][1] = Last(lastPings'[x])
                        /\ Len(lastPings'[x]) >= 2 => lastRoute'[x][2] = Previous(lastPings'[x])
      BY DEF RouteIsTail
    <3>1. CASE x = v
      <4>1. lastPings'[x] = t /\ lastRoute'[x] = <<p, lastRoute[v][1]>>
        BY <3>1, <2>3
      <4>2. ASSUME Len(t) >= 2
            PROVE  lastRoute[v][1] = Last(lastPings[v])
        <5>2. Known(v)
          BY <4>2, <2>1 DEF Known
        <5> QED
          BY <5>2 DEF RouteIsTail
      <4> QED
        BY <4>1, <4>2, <2>1
    <3>2. CASE x # v
      BY <3>2, <2>3 DEF RouteIsTail, Known
    <3> QED
      BY <3>1, <3>2
  <2> QED
    BY <2>4, <2>5
<1>2. ASSUME NEW w \in Terms, CheckPublish(w)
      PROVE  TypeOK' /\ RouteIsTail'
  <2>1. /\ check[w] \in [veh : Vehicles, todo : Seq(AnomalyTypes)]
        /\ Head(check[w].todo) \in AnomalyTypes
        /\ Tail(check[w].todo) \in Seq(AnomalyTypes)
    <3>1. check[w] \in [veh : Vehicles, todo : Seq(AnomalyTypes)] /\ check[w].todo # <<>>
      BY <1>2 DEF CheckPublish
    <3>2. check[w].todo \in Seq(AnomalyTypes)
      BY <3>1
    <3> QED
      BY <3>1, <3>2, HeadTailProperties
  <2>2. check' \in [Terms -> [veh : Vehicles, todo : Seq(AnomalyTypes)] \cup {None}]
    BY <1>2, <2>1 DEF CheckPublish
  <2>3. raised' \in [Terms -> SUBSET AnomalyTypes]
    BY <1>2, <2>1 DEF CheckPublish
  <2> QED
    BY <1>2, <1>r, <2>2, <2>3 DEF CheckPublish
<1>3. ASSUME NEW w \in Terms, CheckReturn(w)
      PROVE  TypeOK' /\ RouteIsTail'
  BY <1>3, <1>r DEF CheckReturn
<1>4. ASSUME NEW w \in Terms, SilenceDetector(w)
      PROVE  TypeOK' /\ RouteIsTail'
  <2>1. CASE StartSilenceDetector(w)
    BY <2>1, <1>r DEF StartSilenceDetector
  <2>2. CASE Sweep(w)
    BY <2>2, <1>r DEF Sweep
  <2>3. CASE MarkFired(w)
    <3>1. acked[w] \in Vehicles
      BY <2>3 DEF MarkFired
    <3>2. fired' \in [Vehicles -> BOOLEAN] /\ late' \subseteq Vehicles
      BY <2>3, <3>1 DEF MarkFired
    <3>3. acked' \in [Terms -> Vehicles \cup {None}] /\ spc' = [spc EXCEPT ![w] = "publish"]
      BY <2>3 DEF MarkFired
    <3>4. \A x \in Terms : spc'[x] = "mark" => acked'[x] \in Vehicles
      BY <2>3, <3>3 DEF MarkFired
    <3> QED
      BY <2>3, <1>r, <3>2, <3>3, <3>4 DEF MarkFired
  <2>4. CASE SweepDone(w)
    BY <2>4, <1>r DEF SweepDone
  <2>5. CASE StopSilenceDetector(w)
    BY <2>5, <1>r DEF StopSilenceDetector
  <2>6. ASSUME NEW v \in Vehicles, PublishLost(w, v)
        PROVE  TypeOK' /\ RouteIsTail'
    <3>1. reports' \in [Terms -> [Vehicles -> 0..2]]
      BY <2>6, OneMore DEF PublishLost
    <3> QED
      BY <2>6, <1>r, <3>1 DEF PublishLost
  <2>7. ASSUME NEW v \in Vehicles, PublishLostError(w, v)
        PROVE  TypeOK' /\ RouteIsTail'
    BY <2>7, <1>r DEF PublishLostError
  <2> QED
    BY <1>4, <2>1, <2>2, <2>3, <2>4, <2>5, <2>6, <2>7 DEF SilenceDetector
<1>5. CASE Tick
  <2>1. age' \in [Vehicles -> 0..(Silence + 1)]
    BY <1>5 DEF Tick
  <2>2. sweepAge' \in [Terms -> 0..(Silence + 1)]
    BY <1>5 DEF Tick
  <2> QED
    BY <1>5, <1>r, <2>1, <2>2 DEF Tick
<1>6. CASE UNCHANGED vars
  BY <1>6, <1>r DEF vars
<1> QED
  BY <1>1, <1>2, <1>3, <1>4, <1>5, <1>6 DEF Next, Checks

\* The detector keeps its types.
THEOREM DetectorTypeCorrect == Spec => []TypeOK
BY InitType, NextType, PTL DEF Spec

\* The last two pings that LastRoute keeps for a vehicle are the end of the window in
\* LastPings that Check compares, whatever was sent and whoever checked.
THEOREM RouteMatchesPings == Spec => []RouteIsTail
BY InitType, NextType, PTL DEF Spec

----------------------------------------------------------------------------
(* A mark has a report behind it.  The sweep marks a vehicle after it      *)
(* published the event of a snapshot: the invariant bounds how long ago a  *)
(* vehicle whose event is out of date can have been seen.                  *)

\* What the sweep knows of a vehicle seen since the snapshot is younger than the
\* snapshot.
StaleIsRecent == \A w \in Terms : Sweeping(w) => \A v \in stale[w] : age[v] <= sweepAge[w]

\* The event that was just published counts, unless it is out of date.
AckedIsReported ==
  \A w \in Terms : spc[w] = "mark" =>
    acked[w] \in Vehicles /\ (acked[w] \notin stale[w] => Reported(acked[w]))

\* A marked vehicle is silent, whether or not this silence was reported.
MarkedIsSilent == \A v \in Vehicles : fired[v] => Silent(v)

MarkInv == TypeOK /\ MarkedIsSilent /\ StaleIsRecent /\ AckedIsReported

LEMMA InitMark == Init => MarkInv
BY InitType DEF Init, MarkInv, MarkedIsSilent, StaleIsRecent, AckedIsReported, Sweeping

LEMMA NextMark ==
  ASSUME MarkInv, TypeOK', [Next]_vars
  PROVE  MarkInv'
<1> USE ConstantsAssumption
    DEF MarkInv, MarkedIsSilent, StaleIsRecent, AckedIsReported, Sweeping, Silent, Known, Reported,
        stateVars, checkVars, sweepVars
<1>t. /\ age \in [Vehicles -> 0..(Silence + 1)] /\ fired \in [Vehicles -> BOOLEAN]
      /\ reports \in [Terms -> [Vehicles -> 0..2]] /\ lastPings \in [Vehicles -> Seq(Ping)]
      /\ spc \in [Terms -> {"none", "tick", "publish", "mark", "returned"}]
      /\ sweepAge \in [Terms -> 0..(Silence + 1)] /\ stale \in [Terms -> SUBSET Vehicles]
      /\ events \in [Terms -> SUBSET Vehicles] /\ acked \in [Terms -> Vehicles \cup {None}]
  BY DEF TypeOK
<1>1. ASSUME NEW w \in Terms, NEW v \in Vehicles, NEW p \in Ping, CheckState(w, v, p)
      PROVE  MarkInv'
  <2>1. /\ age' = [age EXCEPT ![v] = 0]
        /\ fired' = [fired EXCEPT ![v] = FALSE]
        /\ stale' = [x \in Terms |-> stale[x] \cup {v}]
        /\ reports' = [x \in Terms |-> [reports[x] EXCEPT ![v] = 0]]
        /\ UNCHANGED <<spc, events, acked, sweepAge>>
    BY <1>1 DEF CheckState, AfterPing
  <2>2. \A x \in Vehicles : x # v => lastPings'[x] = lastPings[x]
    BY <1>1, <1>t DEF CheckState
  <2>3. MarkedIsSilent'
    BY <2>1, <2>2, <1>t
  <2>4. StaleIsRecent'
    BY <2>1, <1>t
  <2>5. AckedIsReported'
    BY <2>1, <1>t
  <2> QED
    BY <2>3, <2>4, <2>5
<1>2. ASSUME NEW w \in Terms, CheckPublish(w) \/ CheckReturn(w)
      PROVE  MarkInv'
  BY <1>2 DEF CheckPublish, CheckReturn
<1>3. ASSUME NEW w \in Terms, SilenceDetector(w)
      PROVE  MarkInv'
  <2>1. CASE StartSilenceDetector(w)
    BY <2>1, <1>t DEF StartSilenceDetector
  <2>2. CASE Sweep(w)
    BY <2>2, <1>t DEF Sweep
  <2>3. CASE MarkFired(w)
    <3>1. AckedIsReported' /\ StaleIsRecent'
      BY <2>3, <1>t DEF MarkFired
    <3>2. acked[w] \in Vehicles /\ spc[w] = "mark"
      BY <2>3 DEF MarkFired
    <3>3. MarkedIsSilent'
      BY <2>3, <3>2, <1>t DEF MarkFired, StillSilent
    <3> QED
      BY <3>1, <3>3
  <2>4. CASE SweepDone(w)
    BY <2>4, <1>t DEF SweepDone
  <2>5. CASE StopSilenceDetector(w)
    BY <2>5, <1>t DEF StopSilenceDetector
  <2>6. ASSUME NEW v \in Vehicles, PublishLost(w, v)
        PROVE  MarkInv'
    <3>0. CASE v \in stale[w] \/ reports[w][v] = 2
      <4>1. reports' = reports /\ (v \in stale[w] \/ Reported(v))
        BY <2>6, <3>0 DEF PublishLost
      <4> QED
        BY <2>6, <4>1, <1>t DEF PublishLost
    <3>1. CASE ~(v \in stale[w] \/ reports[w][v] = 2)
      <4>1. reports' = [reports EXCEPT ![w][v] = @ + 1]
        BY <2>6, <3>1 DEF PublishLost
      <4>2. /\ reports'[w][v] > 0
            /\ \A u \in Terms, x \in Vehicles : reports[u][x] > 0 => reports'[u][x] > 0
        <5>1. reports'[w][v] = reports[w][v] + 1 /\ reports[w][v] \in 0..1
          BY <3>1, <4>1, <1>t, OneMore
        <5>2. \A u \in Terms, x \in Vehicles : u # w \/ x # v => reports'[u][x] = reports[u][x]
          BY <3>1, <4>1, <1>t, OneMore
        <5> QED
          BY <5>1, <5>2
      <4> QED
        BY <2>6, <4>2, <1>t DEF PublishLost
    <3> QED
      BY <3>0, <3>1
  <2>7. ASSUME NEW v \in Vehicles, PublishLostError(w, v)
        PROVE  MarkInv'
    BY <2>7, <1>t DEF PublishLostError
  <2> QED
    BY <1>3, <2>1, <2>2, <2>3, <2>4, <2>5, <2>6, <2>7 DEF SilenceDetector
<1>4. CASE Tick
  BY <1>4, <1>t DEF Tick
<1>5. CASE UNCHANGED vars
  BY <1>5 DEF vars
<1> QED
  BY <1>1, <1>2, <1>3, <1>4, <1>5 DEF Next, Checks

LEMMA MarkInductive == Spec => []MarkInv
<1>1. MarkInv /\ RouteIsTail /\ [Next]_vars => (MarkInv /\ RouteIsTail)'
  BY NextType, NextMark DEF MarkInv
<1> QED
  BY <1>1, InitType, InitMark, PTL DEF Spec

\* Who is about to be marked was reported in this silence, or the sweep is a long one.
MarkedLateOrReported ==
  \A w \in Terms : spc[w] = "mark" /\ Silent(acked[w]) => Reported(acked[w]) \/ sweepAge[w] > Silence

\* Silent for longer than the sweep lasts, hence not seen since its snapshot.
LEMMA SilentIsReported == MarkInv => MarkedLateOrReported
<1> SUFFICES ASSUME MarkInv, NEW w \in Terms, spc[w] = "mark", Silent(acked[w])
             PROVE  Reported(acked[w]) \/ sweepAge[w] > Silence
  BY DEF MarkedLateOrReported
<1>1. acked[w] \in Vehicles /\ (acked[w] \notin stale[w] => Reported(acked[w]))
  BY DEF MarkInv, AckedIsReported
<1>2. CASE acked[w] \in stale[w]
  <2>1. age[acked[w]] <= sweepAge[w] /\ age[acked[w]] > Silence
    BY <1>1, <1>2 DEF MarkInv, StaleIsRecent, Sweeping, Silent
  <2>2. age[acked[w]] \in 0..(Silence + 1) /\ sweepAge[w] \in 0..(Silence + 1)
    BY <1>1 DEF MarkInv, TypeOK
  <2> QED
    BY <2>1, <2>2, ConstantsAssumption
<1> QED
  BY <1>1, <1>2

LEMMA NextReported ==
  ASSUME MarkInv, MarkInv', FiredMeansReported, [Next]_vars
  PROVE  FiredMeansReported'
<1> USE ConstantsAssumption DEF stateVars, checkVars, sweepVars
<1>t. /\ fired \in [Vehicles -> BOOLEAN] /\ reports \in [Terms -> [Vehicles -> 0..2]]
      /\ late \subseteq Vehicles
  BY DEF MarkInv, TypeOK
\* Those that were marked before keep their report, or the mark of an old sweep.
<1>f. ASSUME \A x \in Vehicles :
               fired'[x] => Reported(x)' \/ x \in late' \/ (fired[x] /\ ~Reported(x) /\ x \notin late)
      PROVE  FiredMeansReported'
  BY <1>f DEF MarkInv, MarkedIsSilent, FiredMeansReported
<1>1. ASSUME NEW w \in Terms, NEW v \in Vehicles, NEW p \in Ping, CheckState(w, v, p)
      PROVE  FiredMeansReported'
  <2>1. /\ fired' = [fired EXCEPT ![v] = FALSE] /\ late' = late \ {v}
        /\ reports' = [x \in Terms |-> [reports[x] EXCEPT ![v] = 0]]
    BY <1>1 DEF CheckState, AfterPing
  <2>2. \A x \in Vehicles : fired'[x] => /\ fired[x] /\ (x \in late => x \in late')
                                         /\ \A u \in Terms : reports'[u][x] = reports[u][x]
    BY <2>1, <1>t
  <2>3. \A x \in Vehicles : fired'[x] => fired[x] /\ (x \in late => x \in late') /\ (Reported(x) => Reported(x)')
    BY <2>2 DEF Reported
  <2> QED
    BY <2>3, <1>f
<1>2. ASSUME NEW w \in Terms, MarkFired(w)
      PROVE  FiredMeansReported'
  <2>1. Silent(acked[w]) => Reported(acked[w]) \/ sweepAge[w] > Silence
    BY <1>2, SilentIsReported DEF MarkFired, MarkedLateOrReported
  <2>2. /\ reports' = reports /\ late \subseteq late'
        /\ fired' = IF Silent(acked[w]) THEN [fired EXCEPT ![acked[w]] = TRUE] ELSE fired
        /\ Silent(acked[w]) /\ sweepAge[w] > Silence => acked[w] \in late'
    BY <1>2 DEF MarkFired, StillSilent
  <2>3. \A x \in Vehicles : fired'[x] => fired[x] \/ (x = acked[w] /\ Silent(acked[w]))
    BY <2>2, <1>t
  <2>4. \A x \in Vehicles : Reported(x)' = Reported(x)
    BY <2>2 DEF Reported
  <2> QED
    BY <2>1, <2>2, <2>3, <2>4, <1>f
<1>3. ASSUME NEW w \in Terms, NEW v \in Vehicles, PublishLost(w, v)
      PROVE  FiredMeansReported'
  <2>1. fired' = fired /\ late' = late
    BY <1>3 DEF PublishLost
  <2>2. \A u \in Terms, x \in Vehicles : reports[u][x] > 0 => reports'[u][x] > 0
    BY <1>3, <1>t DEF PublishLost
  <2>3. \A x \in Vehicles : Reported(x) => Reported(x)'
    BY <2>2 DEF Reported
  <2> QED
    BY <2>1, <2>3, <1>f
<1>4. CASE UNCHANGED <<fired, late, reports>>
  <2>1. \A x \in Vehicles : Reported(x)' = Reported(x)
    BY <1>4 DEF Reported
  <2> QED
    BY <1>4, <2>1, <1>f
<1> QED
  BY <1>1, <1>2, <1>3, <1>4
     DEF Next, Checks, SilenceDetector, CheckPublish, CheckReturn, StartSilenceDetector, Sweep, SweepDone,
         StopSilenceDetector, PublishLostError, Tick, vars

\* No silence goes unreported under the mark that stops the sweeps from reporting it,
\* with any number of leaderships at work and however long sweeps take, unless the sweep
\* that set the mark had gone on for longer than a silence.
THEOREM MarkHasReport == Spec => []FiredMeansReported
<1>1. Init => FiredMeansReported
  BY DEF Init, FiredMeansReported
<1>2. MarkInv /\ MarkInv' /\ FiredMeansReported /\ [Next]_vars => FiredMeansReported'
  BY NextReported
<1> QED
  BY <1>1, <1>2, MarkInductive, PTL DEF Spec

----------------------------------------------------------------------------
(* Each leadership reports a silence once.                                 *)

\* A vehicle whose event is still to be published, and is not out of date, is silent
\* and was not reported by this detector.
PendingUnreported ==
  \A w \in Terms : Sweeping(w) => \A v \in events[w] \ stale[w] : Silent(v) /\ reports[w][v] = 0

\* A silence that a detector reported is marked, or about to be by this detector.
ReportedIsMarked ==
  \A w \in Terms, v \in Vehicles : reports[w][v] > 0 =>
    fired[v] \/ (spc[w] = "mark" /\ acked[w] = v /\ v \notin stale[w] /\ Silent(v))

OnceInv == TypeOK /\ OneReportPerSilence /\ PendingUnreported /\ ReportedIsMarked

LEMMA InitOnce == Init => OnceInv
BY InitType DEF Init, OnceInv, OneReportPerSilence, PendingUnreported, ReportedIsMarked, Sweeping

LEMMA NextOnce ==
  ASSUME OnceInv, TypeOK', [Next]_vars
  PROVE  OnceInv'
<1> USE ConstantsAssumption
    DEF OnceInv, OneReportPerSilence, PendingUnreported, ReportedIsMarked, Sweeping, Silent, Known,
        stateVars, checkVars, sweepVars
<1>t. /\ age \in [Vehicles -> 0..(Silence + 1)] /\ fired \in [Vehicles -> BOOLEAN]
      /\ reports \in [Terms -> [Vehicles -> 0..2]] /\ lastPings \in [Vehicles -> Seq(Ping)]
      /\ spc \in [Terms -> {"none", "tick", "publish", "mark", "returned"}]
      /\ sweepAge \in [Terms -> 0..(Silence + 1)] /\ stale \in [Terms -> SUBSET Vehicles]
      /\ events \in [Terms -> SUBSET Vehicles] /\ acked \in [Terms -> Vehicles \cup {None}]
  BY DEF TypeOK
<1>1. ASSUME NEW w \in Terms, NEW v \in Vehicles, NEW p \in Ping, CheckState(w, v, p)
      PROVE  OnceInv'
  <2>1. /\ age' = [age EXCEPT ![v] = 0]
        /\ fired' = [fired EXCEPT ![v] = FALSE]
        /\ stale' = [x \in Terms |-> stale[x] \cup {v}]
        /\ reports' = [x \in Terms |-> [reports[x] EXCEPT ![v] = 0]]
        /\ UNCHANGED <<spc, events, acked, sweepAge>>
    BY <1>1 DEF CheckState, AfterPing
  <2>2. \A x \in Vehicles : x # v => lastPings'[x] = lastPings[x]
    BY <1>1, <1>t DEF CheckState
  <2>3. OneReportPerSilence'
    BY <2>1, <1>t
  <2>4. PendingUnreported'
    BY <2>1, <2>2, <1>t
  <2>5. ReportedIsMarked'
    BY <2>1, <2>2, <1>t
  <2> QED
    BY <2>3, <2>4, <2>5
<1>2. ASSUME NEW w \in Terms, CheckPublish(w) \/ CheckReturn(w)
      PROVE  OnceInv'
  BY <1>2 DEF CheckPublish, CheckReturn
<1>3. ASSUME NEW w \in Terms, SilenceDetector(w)
      PROVE  OnceInv'
  <2>1. CASE StartSilenceDetector(w)
    BY <2>1, <1>t DEF StartSilenceDetector
  <2>2. CASE Sweep(w)
    <3>1. /\ spc[w] = "tick" /\ spc'[w] = "publish"
          /\ events'[w] = {v \in Vehicles : Silent(v) /\ ~fired[v]}
          /\ UNCHANGED <<lastPings, age, fired, reports>>
          /\ \A u \in Terms \ {w} : spc'[u] = spc[u] /\ events'[u] = events[u] /\ stale'[u] = stale[u] /\ acked'[u] = acked[u]
      BY <2>2, <1>t DEF Sweep
    <3>2. \A v \in Vehicles : reports[w][v] > 0 => fired[v]
      BY <3>1, <1>t
    <3>3. OneReportPerSilence' /\ ReportedIsMarked'
      BY <3>1, <3>2
    <3>4. PendingUnreported'
      <4>1. ASSUME NEW v \in Vehicles
            PROVE  reports[w][v] = 0 \/ reports[w][v] > 0
        <5>1. reports[w][v] \in 0..2
          BY <1>t
        <5> QED
          BY <5>1
      <4> QED
        BY <3>1, <3>2, <4>1
    <3> QED
      BY <3>3, <3>4
  <2>3. CASE MarkFired(w)
    <3>1. /\ spc[w] = "mark" /\ spc' = [spc EXCEPT ![w] = "publish"] /\ acked' = [acked EXCEPT ![w] = None]
          /\ fired' = IF Silent(acked[w]) THEN [fired EXCEPT ![acked[w]] = TRUE] ELSE fired
          /\ UNCHANGED <<lastPings, age, events, stale, reports>>
      BY <2>3 DEF MarkFired, StillSilent
    <3>2. OneReportPerSilence' /\ PendingUnreported'
      BY <3>1, <1>t
    <3>3. ReportedIsMarked'
      BY <3>1, <1>t
    <3> QED
      BY <3>2, <3>3
  <2>4. CASE SweepDone(w)
    BY <2>4, <1>t DEF SweepDone
  <2>5. CASE StopSilenceDetector(w)
    BY <2>5, <1>t DEF StopSilenceDetector
  <2>6. ASSUME NEW v \in Vehicles, PublishLost(w, v)
        PROVE  OnceInv'
    <3>0. /\ spc[w] = "publish" /\ v \in events[w]
          /\ events' = [events EXCEPT ![w] = @ \ {v}]
          /\ acked' = [acked EXCEPT ![w] = v]
          /\ spc' = [spc EXCEPT ![w] = "mark"]
          /\ UNCHANGED <<lastPings, age, fired, stale>>
      BY <2>6 DEF PublishLost
    <3>1. CASE v \in stale[w]
      <4>1. reports' = reports
        BY <2>6, <3>1 DEF PublishLost
      <4> QED
        BY <3>0, <3>1, <4>1, <1>t
    <3>2. CASE v \notin stale[w]
      <4>1. reports[w][v] = 0 /\ Silent(v)
        BY <3>0, <3>2
      <4>2. reports' = [reports EXCEPT ![w][v] = @ + 1]
        BY <2>6, <3>2, <4>1 DEF PublishLost
      <4>3. /\ reports'[w][v] = 1
            /\ \A u \in Terms, x \in Vehicles : u # w \/ x # v => reports'[u][x] = reports[u][x]
        BY <4>1, <4>2, <1>t, OneMore
      <4>4. OneReportPerSilence'
        BY <4>3
      <4>6. PendingUnreported'
        BY <3>0, <4>3, <1>t
      <4>5. ReportedIsMarked'
        BY <3>0, <3>2, <4>1, <4>3, <1>t
      <4> QED
        BY <4>4, <4>5, <4>6
    <3> QED
      BY <3>1, <3>2
  <2>7. ASSUME NEW v \in Vehicles, PublishLostError(w, v)
        PROVE  OnceInv'
    BY <2>7, <1>t DEF PublishLostError
  <2> QED
    BY <1>3, <2>1, <2>2, <2>3, <2>4, <2>5, <2>6, <2>7 DEF SilenceDetector
<1>4. CASE Tick
  BY <1>4, <1>t DEF Tick
<1>5. CASE UNCHANGED vars
  BY <1>5 DEF vars
<1> QED
  BY <1>1, <1>2, <1>3, <1>4, <1>5 DEF Next, Checks

\* No leadership reports an episode of silence twice, however many are at work: the
\* vehicle may be seen at any moment of a sweep, any publication may fail, and another
\* detector may report or mark the same silence in between.
THEOREM SilenceReportedOnce == Spec => []OneReportPerSilence
<1>1. Init => TypeOK /\ RouteIsTail /\ OnceInv
  BY InitType, InitOnce
<1>2. TypeOK /\ RouteIsTail /\ OnceInv /\ [Next]_vars => (TypeOK /\ RouteIsTail /\ OnceInv)'
  BY NextType, NextOnce
<1>3. OnceInv => OneReportPerSilence
  BY DEF OnceInv
<1> QED
  BY <1>1, <1>2, <1>3, PTL DEF Spec

----------------------------------------------------------------------------
(* What a Check raises.                                                    *)

LEMMA ToSetConcat ==
  ASSUME NEW S, NEW s \in Seq(S), NEW t \in Seq(S)
  PROVE  ToSet(s \o t) = ToSet(s) \cup ToSet(t)
<1>1. /\ DOMAIN (s \o t) = 1..(Len(s) + Len(t)) /\ DOMAIN s = 1..Len(s) /\ DOMAIN t = 1..Len(t)
      /\ Len(s) \in Nat /\ Len(t) \in Nat
      /\ \A k \in 1..(Len(s) + Len(t)) : (s \o t)[k] = IF k <= Len(s) THEN s[k] ELSE t[k - Len(s)]
  OBVIOUS
<1>2. ASSUME NEW k \in 1..(Len(s) + Len(t))
      PROVE  (s \o t)[k] \in ToSet(s) \cup ToSet(t)
  BY <1>1, <1>2 DEF ToSet
<1>3. ASSUME NEW k \in 1..Len(s)
      PROVE  s[k] \in ToSet(s \o t)
  BY <1>1, <1>3 DEF ToSet
<1>4. ASSUME NEW k \in 1..Len(t)
      PROVE  t[k] \in ToSet(s \o t)
  <2>1. Len(s) + k \in 1..(Len(s) + Len(t)) /\ (s \o t)[Len(s) + k] = t[k]
    BY <1>1
  <2> QED
    BY <1>1, <2>1 DEF ToSet
<1> QED
  BY <1>1, <1>2, <1>3, <1>4 DEF ToSet

\* The anomalies of a window that are not constant.
LEMMA AnomaliesAre ==
  ASSUME NEW pings
  PROVE  /\ "OVER_SPEED" \in ToSet(Anomalies(pings)) <=> OverSpeed(Last(pings))
         /\ "ROUTE_DEVIATION" \in ToSet(Anomalies(pings))
              <=> Len(pings) >= 2 /\ Deviates(Last(pings), Previous(pings))
         /\ ToSet(Anomalies(pings)) \subseteq {"OVER_SPEED", "ROUTE_DEVIATION"}
<1> DEFINE z == IF Len(pings) >= 3 /\ checkZeroSpeed(pings) THEN <<"ZERO_SPEED">> ELSE <<>>
           over == OverSpeed(Last(pings))
           off == Len(pings) >= 2 /\ Deviates(Last(pings), Previous(pings))
           a == IF over THEN <<"OVER_SPEED">> ELSE <<>>
           b == IF off THEN <<"ROUTE_DEVIATION">> ELSE <<>>
<1>1. Anomalies(pings) = (z \o a) \o b
  BY DEF Anomalies
<1>2. z = <<>>
  BY DEF checkZeroSpeed
<1> HIDE DEF z, over, off
<1>3. /\ <<>> \in Seq({"OVER_SPEED", "ROUTE_DEVIATION"}) /\ ToSet(<<>>) = {}
      /\ <<"OVER_SPEED">> \in Seq({"OVER_SPEED", "ROUTE_DEVIATION"}) /\ ToSet(<<"OVER_SPEED">>) = {"OVER_SPEED"}
      /\ <<"ROUTE_DEVIATION">> \in Seq({"OVER_SPEED", "ROUTE_DEVIATION"}) /\ ToSet(<<"ROUTE_DEVIATION">>) = {"ROUTE_DEVIATION"}
  BY DEF ToSet
<1> DEFINE T == {"OVER_SPEED", "ROUTE_DEVIATION"}
<1>4. /\ ToSet(a) = IF over THEN {"OVER_SPEED"} ELSE {}
      /\ ToSet(b) = IF off THEN {"ROUTE_DEVIATION"} ELSE {}
      /\ ToSet(z) = {}
  BY <1>2, <1>3
<1>5. a \in Seq(T) /\ b \in Seq(T) /\ z \in Seq(T)
  BY <1>2, <1>3
<1> DEFINE c == z \o a
<1> HIDE DEF a, b, T
<1>6. ToSet(c \o b) = ToSet(a) \cup ToSet(b)
  <2>1. c \in Seq(T)
    BY <1>5, ConcatProperties
  <2>2. ToSet(c) = ToSet(z) \cup ToSet(a)
    BY <1>5, ToSetConcat
  <2> HIDE DEF c
  <2>3. ToSet(c \o b) = ToSet(c) \cup ToSet(b)
    BY <1>5, <2>1, ToSetConcat
  <2> QED
    BY <1>4, <2>2, <2>3
<1>7. ToSet(Anomalies(pings)) = (IF over THEN {"OVER_SPEED"} ELSE {}) \cup (IF off THEN {"ROUTE_DEVIATION"} ELSE {})
  BY <1>1, <1>4, <1>6
<1> QED
  BY <1>7 DEF over, off

LEMMA HeadAndTail ==
  ASSUME NEW S, NEW s \in Seq(S), s # <<>>
  PROVE  /\ Head(s) \in S /\ Tail(s) \in Seq(S)
         /\ ToSet(s) = {Head(s)} \cup ToSet(Tail(s))
<1>1. /\ Head(s) \in S /\ Tail(s) \in Seq(S) /\ Len(s) \in Nat \ {0}
      /\ Head(s) = s[1] /\ Len(Tail(s)) = Len(s) - 1
      /\ \A k \in 1..(Len(s) - 1) : Tail(s)[k] = s[k + 1]
      /\ DOMAIN s = 1..Len(s) /\ DOMAIN Tail(s) = 1..(Len(s) - 1)
  OBVIOUS
<1>2. ASSUME NEW x \in ToSet(s)
      PROVE  x \in {Head(s)} \cup ToSet(Tail(s))
  <2>1. PICK k \in 1..Len(s) : x = s[k]
    BY <1>1, <1>2 DEF ToSet
  <2>2. CASE k = 1
    BY <1>1, <2>1, <2>2
  <2>3. CASE k # 1
    <3>1. k - 1 \in 1..(Len(s) - 1) /\ k = (k - 1) + 1
      BY <1>1, <2>3
    <3>2. x = Tail(s)[k - 1]
      BY <1>1, <2>1, <3>1
    <3> QED
      BY <1>1, <3>1, <3>2 DEF ToSet
  <2> QED
    BY <2>2, <2>3
<1>3. ASSUME NEW x \in {Head(s)} \cup ToSet(Tail(s))
      PROVE  x \in ToSet(s)
  <2>1. CASE x = Head(s)
    BY <1>1, <2>1 DEF ToSet
  <2>2. CASE x \in ToSet(Tail(s))
    <3>1. PICK k \in 1..(Len(s) - 1) : x = Tail(s)[k]
      BY <1>1, <2>2 DEF ToSet
    <3>2. k + 1 \in 1..Len(s) /\ x = s[k + 1]
      BY <1>1, <3>1
    <3> QED
      BY <1>1, <3>2 DEF ToSet
  <2> QED
    BY <1>3, <2>1, <2>2
<1> QED
  BY <1>1, <1>2, <1>3

\* A window of one ping follows an empty one.
LEMMA LastThreeShort ==
  ASSUME NEW S, NEW s \in Seq(S), NEW p \in S, Len(s) <= 3
  PROVE  Len(LastThree(Append(s, p))) < 2 => s = <<>>
<1> DEFINE a == Append(s, p)
<1>1. a \in Seq(S) /\ Len(a) = Len(s) + 1 /\ Len(s) \in Nat
  OBVIOUS
<1>2. CASE Len(s) < 3
  <2>1. LastThree(a) = a
    BY <1>1, <1>2 DEF LastThree
  <2>2. Len(a) < 2 => s = <<>>
    BY <1>1, EmptySeq
  <2> QED
    BY <2>1, <2>2
<1>3. CASE Len(s) = 3
  <2>1. LastThree(a) = SubSeq(a, 2, 4)
    BY <1>1, <1>3 DEF LastThree
  <2>2. \A n \in 2..4 : a[n] \in S
    BY <1>1, <1>3, ElementOfSeq
  <2> HIDE DEF a
  <2>3. Len(SubSeq(a, 2, 4)) = 4 - 2 + 1
    BY <2>2, SubSeqProperties, SMTT(30)
  <2>4. ~(Len(LastThree(a)) < 2)
    BY <2>1, <2>3
  <2> QED
    BY <2>4 DEF a
<1>4. Len(s) < 3 \/ Len(s) = 3
  OBVIOUS
<1> QED
  BY <1>2, <1>3, <1>4, Zenon

\* A vehicle with a place before the last one has a window of two at least.
RouteLength ==
  \A v \in Vehicles :
    /\ lastPings[v] = <<>> => lastRoute[v][1] = None
    /\ Len(lastPings[v]) < 2 => lastRoute[v][2] = None

\* What the code raises for a ping, given the one before it or None.
Due(last, before) ==
  (IF OverSpeed(last) THEN {"OVER_SPEED"} ELSE {})
  \cup (IF before # None /\ Deviates(last, before) THEN {"ROUTE_DEVIATION"} ELSE {})

\* What a loop has still to publish.
Left(w) == IF check[w] = None THEN {} ELSE ToSet(check[w].todo)

\* What the Check of a loop raised and has still to raise.
RaisedInv ==
  /\ RouteLength
  /\ \A w \in Terms :
       /\ check[w] # None => way[w][1] # None
       /\ way[w][1] # None => raised[w] \cup Left(w) = Due(way[w][1], way[w][2])

LEMMA InitRaised == Init => RaisedInv
BY DEF Init, RaisedInv, RouteLength

\* The window on a vehicle's pings and its route call for the same.
LEMMA WindowIsRoute ==
  ASSUME TypeOK, RouteIsTail, RouteLength, NEW v \in Vehicles, NEW p \in Ping
  PROVE  ToSet(Anomalies(LastThree(Append(lastPings[v], p)))) = Due(p, lastRoute[v][1])
<1> DEFINE s == lastPings[v]
           t == LastThree(Append(s, p))
<1>0. s \in Seq(Ping) /\ Len(s) <= 3
  BY DEF TypeOK
<1> HIDE DEF s
<1>1. /\ t \in Seq(Ping) /\ Last(t) = p
      /\ Len(t) >= 2 => s # <<>> /\ Previous(t) = Last(s)
  BY <1>0, LastThreeAppend
<1>2. Len(t) < 2 => s = <<>>
  BY <1>0, LastThreeShort
<1>5. Len(t) \in Nat
  BY <1>1, LenProperties
<1>6. /\ "OVER_SPEED" \in ToSet(Anomalies(t)) <=> OverSpeed(p)
      /\ "ROUTE_DEVIATION" \in ToSet(Anomalies(t)) <=> Len(t) >= 2 /\ Deviates(p, Previous(t))
      /\ ToSet(Anomalies(t)) \subseteq {"OVER_SPEED", "ROUTE_DEVIATION"}
  BY <1>1, AnomaliesAre
<1> HIDE DEF t
<1>3. CASE Len(t) >= 2
  <2>1. lastRoute[v][1] = Previous(t)
    BY <1>1, <1>3 DEF RouteIsTail, Known, s
  <2>2. Previous(t) # None
    <3>1. s \in Seq(Ping) /\ s # <<>>
      BY <1>0, <1>1, <1>3
    <3>2. Last(s) \in Ping
      BY <3>1, EmptySeq DEF Last
    <3> QED
      BY <3>2, <1>1, <1>3, NoneAssumption
  <2> QED
    BY <1>3, <1>6, <2>1, <2>2 DEF Due, t, s
<1>4. CASE Len(t) < 2
  <2>1. lastRoute[v][1] = None
    BY <1>2, <1>4 DEF RouteLength, s
  <2>2. ~(Len(t) >= 2)
    BY <1>4, <1>5
  <2> QED
    BY <1>6, <2>1, <2>2 DEF Due, t, s
<1> QED
  BY <1>3, <1>4, <1>5

LEMMA NextRaised ==
  ASSUME TypeOK, RouteIsTail, RaisedInv, [Next]_vars
  PROVE  RaisedInv'
<1> USE DEF stateVars, checkVars, sweepVars
<1>t. /\ lastPings \in [Vehicles -> Seq(Ping)] /\ \A v \in Vehicles : Len(lastPings[v]) <= 3
      /\ lastRoute \in [Vehicles -> (Ping \cup {None}) \X (Ping \cup {None})]
      /\ check \in [Terms -> Checking \cup {None}] /\ raised \in [Terms -> SUBSET AnomalyTypes]
      /\ way \in [Terms -> (Ping \cup {None}) \X (Ping \cup {None}) \X (Ping \cup {None})]
  BY DEF TypeOK
<1>u. UNCHANGED <<lastPings, lastRoute, checkVars>> => RaisedInv'
  BY DEF RaisedInv, RouteLength, Left
\* The others keep what they raise.
<1>o. ASSUME NEW w \in Terms, \A x \in Terms \ {w} : UNCHANGED <<check[x], raised[x], way[x]>>, RouteLength',
             check'[w] # None => way'[w][1] # None,
             way'[w][1] # None => raised'[w] \cup Left(w)' = Due(way'[w][1], way'[w][2])
      PROVE  RaisedInv'
  <2>1. ASSUME NEW x \in Terms \ {w}
        PROVE  /\ check'[x] # None => way'[x][1] # None
               /\ way'[x][1] # None => raised'[x] \cup Left(x)' = Due(way'[x][1], way'[x][2])
    BY <1>o, <2>1 DEF RaisedInv, Left
  <2> QED
    BY <1>o, <2>1 DEF RaisedInv
<1>1. ASSUME NEW w \in Terms, NEW v \in Vehicles, NEW p \in Ping, CheckState(w, v, p)
      PROVE  RaisedInv'
  <2> DEFINE pings == LastThree(Append(lastPings[v], p))
             todo == Anomalies(pings)
  <2>1. /\ lastPings' = [lastPings EXCEPT ![v] = pings]
        /\ lastRoute' = [lastRoute EXCEPT ![v] = <<p, lastRoute[v][1]>>]
        /\ check' = [check EXCEPT ![w] = [veh |-> v, todo |-> todo]]
        /\ raised' = [raised EXCEPT ![w] = {}]
        /\ way' = [way EXCEPT ![w] = <<p, lastRoute[v][1], lastRoute[v][2]>>]
    BY <1>1 DEF CheckState, ShiftRoute
  <2>2. pings # <<>> /\ (Len(pings) < 2 => lastPings[v] = <<>>)
    BY <1>t, LastThreeAppend, LastThreeShort
  <2>3. ToSet(todo) = Due(p, lastRoute[v][1])
    BY WindowIsRoute DEF RaisedInv
  <2>4. [veh |-> v, todo |-> todo] # None
    <3>1. todo \in Seq(AnomalyTypes)
      BY AnomaliesType
    <3> QED
      BY <3>1, NoneAssumption DEF Checking
  <2> HIDE DEF pings, todo
  <2>5. RouteLength'
    BY <1>t, <2>1, <2>2 DEF RaisedInv, RouteLength
  <2>6. \A x \in Terms \ {w} : UNCHANGED <<check[x], raised[x], way[x]>>
    BY <1>t, <2>1
  <2>7. way'[w] = <<p, lastRoute[v][1], lastRoute[v][2]>> /\ raised'[w] = {} /\ check'[w] = [veh |-> v, todo |-> todo]
    BY <1>t, <2>1
  <2>8. Left(w)' = ToSet(todo)
    BY <2>4, <2>7 DEF Left
  <2>9. p # None
    BY NoneAssumption
  <2> QED
    BY <1>o, <2>3, <2>5, <2>6, <2>7, <2>8, <2>9
<1>2. ASSUME NEW w \in Terms, CheckPublish(w)
      PROVE  RaisedInv'
  <2> DEFINE c == check[w]
  <2>1. c \in Checking /\ c \in [veh : Vehicles, todo : Seq(AnomalyTypes)] /\ c.todo \in Seq(AnomalyTypes) /\ c.todo # <<>>
    BY <1>2, <1>t DEF CheckPublish, Checking
  <2>2. /\ check' = [check EXCEPT ![w] = [c EXCEPT !.todo = Tail(c.todo)]]
        /\ raised' = [raised EXCEPT ![w] = @ \cup {Head(c.todo)}]
        /\ UNCHANGED <<lastPings, lastRoute, way>> /\ c # None
    BY <1>2, <1>t DEF CheckPublish
  <2>3. Tail(c.todo) \in Seq(AnomalyTypes) /\ ToSet(c.todo) = {Head(c.todo)} \cup ToSet(Tail(c.todo))
    BY <2>1, HeadAndTail
  <2> HIDE DEF c
  <2>4. check'[w] = [c EXCEPT !.todo = Tail(c.todo)] /\ raised'[w] = raised[w] \cup {Head(c.todo)}
    BY <1>t, <2>2
  <2>5. check'[w] \in Checking /\ check'[w].todo = Tail(c.todo)
    BY <2>1, <2>3, <2>4 DEF Checking
  <2>6. Left(w)' = ToSet(Tail(c.todo)) /\ Left(w) = ToSet(c.todo)
    BY <2>2, <2>5, NoneAssumption DEF Left, c
  <2>7. RouteLength'
    BY <2>2 DEF RaisedInv, RouteLength
  <2>8. \A x \in Terms \ {w} : UNCHANGED <<check[x], raised[x], way[x]>>
    BY <1>t, <2>2
  <2>9. way'[w] = way[w] /\ way[w][1] # None /\ raised[w] \cup Left(w) = Due(way[w][1], way[w][2])
    BY <2>2 DEF RaisedInv, c
  <2>10. raised'[w] \cup Left(w)' = raised[w] \cup Left(w)
    BY <2>3, <2>4, <2>6
  <2> QED
    BY <1>o, <2>7, <2>8, <2>9, <2>10
<1>3. ASSUME NEW w \in Terms, CheckReturn(w)
      PROVE  RaisedInv'
  <2>1. /\ check' = [check EXCEPT ![w] = None] /\ UNCHANGED <<lastPings, lastRoute, raised, way>>
        /\ check[w] # None /\ check[w].todo = <<>>
    BY <1>3 DEF CheckReturn
  <2>2. check'[w] = None /\ \A x \in Terms \ {w} : UNCHANGED <<check[x], raised[x], way[x]>>
    BY <1>t, <2>1
  <2>3. Left(w)' = {} /\ Left(w) = {}
    BY <2>1, <2>2 DEF Left, ToSet
  <2>4. RouteLength'
    BY <2>1 DEF RaisedInv, RouteLength
  <2>5. way'[w] = way[w] /\ raised'[w] = raised[w] /\ raised[w] \cup Left(w) = Due(way[w][1], way[w][2])
    BY <2>1 DEF RaisedInv
  <2> QED
    BY <1>o, <2>2, <2>3, <2>4, <2>5
<1>4. ASSUME NEW w \in Terms, SilenceDetector(w)
      PROVE  RaisedInv'
  BY <1>4, <1>u DEF SilenceDetector, StartSilenceDetector, Sweep, MarkFired, SweepDone, StopSilenceDetector,
                    PublishLost, PublishLostError
<1>5. CASE Tick \/ UNCHANGED vars
  BY <1>5, <1>u DEF Tick, vars
<1> QED
  BY <1>1, <1>2, <1>3, <1>4, <1>5 DEF Next, Checks

\* A loop has published OVER_SPEED and ROUTE_DEVIATION for the ping it checked last exactly
\* when the speed of that ping and the distance to the one before call for them, and never
\* ZERO_SPEED for a vehicle that moves: for any speeds and places, with the loops of any
\* number of leaderships at work on the same vehicles.
THEOREM SpeedAndRouteAreRaised == Spec => []SpeedAndRouteRaised
<1>1. TypeOK /\ RouteIsTail /\ RaisedInv => SpeedAndRouteRaised
  <2> SUFFICES ASSUME TypeOK, RaisedInv, NEW w \in Terms, check[w] = None, way[w][1] # None
               PROVE  /\ "OVER_SPEED" \in raised[w] <=> way[w][1].speed \in {s \in Speeds : s - 120 > 0}
                      /\ "ROUTE_DEVIATION" \in raised[w]
                           <=> /\ way[w][2] # None
                               /\ way[w][1].place \notin (way[w][2].place - 500)..(way[w][2].place + 500)
                      /\ "ZERO_SPEED" \in raised[w] => Stopped(way[w])
    BY DEF SpeedAndRouteRaised
  <2> DEFINE p == way[w][1]
             q == way[w][2]
  <2>1. p \in Ping /\ (q # None => q \in Ping)
    BY DEF TypeOK
  <2>2. raised[w] = Due(p, q)
    BY DEF RaisedInv, Left
  <2> HIDE DEF p, q
  <2>3. p.speed \in Speeds /\ p.speed \in Nat
    BY <2>1, ConstantsAssumption DEF Ping
  <2>4. "OVER_SPEED" \in raised[w] <=> p.speed \in {s \in Speeds : s - 120 > 0}
    BY <2>2, <2>3 DEF Due, OverSpeed
  <2>5. ASSUME q # None
        PROVE  Deviates(p, q) <=> p.place \notin (q.place - 500)..(q.place + 500)
    <3>1. p.place \in Int /\ q.place \in Int
      BY <2>1, <2>5, ConstantsAssumption DEF Ping
    <3> QED
      BY <3>1 DEF Deviates
  <2>6. "ROUTE_DEVIATION" \in raised[w] <=> q # None /\ p.place \notin (q.place - 500)..(q.place + 500)
    BY <2>2, <2>5 DEF Due
  <2>7. "ZERO_SPEED" \notin raised[w]
    BY <2>2 DEF Due
  <2> QED
    BY <2>4, <2>6, <2>7 DEF p, q
<1>2. TypeOK /\ RouteIsTail /\ RaisedInv /\ [Next]_vars => (TypeOK /\ RouteIsTail /\ RaisedInv)'
  BY NextType, NextRaised
<1>3. Init => TypeOK /\ RouteIsTail /\ RaisedInv
  BY InitType, InitRaised
<1> QED
  BY <1>1, <1>2, <1>3, PTL DEF Spec
=============================================================================
