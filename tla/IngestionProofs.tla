-------------------------- MODULE IngestionProofs --------------------------
(***************************************************************************)
(* Proofs about Ingestion.                                                 *)
(***************************************************************************)
EXTENDS Ingestion, SequenceTheorems, FiniteSetTheorems, TLAPS

----------------------------------------------------------------------------
(* Sequences without repetitions.                                          *)

\* A new element appended to the channel keeps it free of repetitions.
LEMMA AppendElements ==
  ASSUME NEW S, NEW seq \in Seq(S), NEW e \in S
  PROVE  /\ Append(seq, e) \in Seq(S)
         /\ Len(Append(seq, e)) = Len(seq) + 1
         /\ Range(Append(seq, e)) = Range(seq) \cup {e}
         /\ IsInjective(seq) /\ e \notin Range(seq) => IsInjective(Append(seq, e))
<1> DEFINE n == Len(seq)
           new == Append(seq, e)
<1>1. n \in Nat /\ DOMAIN seq = 1..n
  BY LenProperties
<1>2. new \in Seq(S) /\ Len(new) = n + 1 /\ DOMAIN new = 1..(n + 1)
  BY <1>1
<1>3. \A i \in 1..n : i \in 1..(n + 1) /\ i # n + 1 /\ new[i] = seq[i]
  BY <1>1
<1>4. new[n + 1] = e /\ n + 1 \in 1..(n + 1)
  BY <1>1
<1>5. \A i \in 1..(n + 1) : i # n + 1 => i \in 1..n
  BY <1>1
<1>6. Range(new) = Range(seq) \cup {e}
  BY <1>1, <1>2, <1>3, <1>4, <1>5 DEF Range
<1>7. ASSUME IsInjective(seq), e \notin Range(seq)
      PROVE  IsInjective(new)
  BY <1>1, <1>2, <1>3, <1>4, <1>5, <1>7 DEF Range, IsInjective
<1> QED
  BY <1>2, <1>6, <1>7

\* Taking the head of a sequence without repetitions leaves the other elements.
LEMMA TailElements ==
  ASSUME NEW S, NEW seq \in Seq(S), seq # <<>>
  PROVE  /\ Head(seq) \in S
         /\ Head(seq) \in Range(seq)
         /\ Tail(seq) \in Seq(S)
         /\ Len(Tail(seq)) = Len(seq) - 1
         /\ Range(seq) = Range(Tail(seq)) \cup {Head(seq)}
         /\ IsInjective(seq) => IsInjective(Tail(seq)) /\ Head(seq) \notin Range(Tail(seq))
<1> DEFINE n == Len(seq)
<1>1. n \in Nat \ {0} /\ DOMAIN seq = 1..n
  BY EmptySeq, LenProperties
<1>2. Tail(seq) \in Seq(S) /\ Len(Tail(seq)) = n - 1 /\ DOMAIN Tail(seq) = 1..(n - 1)
  BY <1>1
<1>3. \A i \in 1..(n - 1) : Tail(seq)[i] = seq[i + 1]
  BY <1>1
<1>4. Head(seq) = seq[1] /\ seq[1] \in S
  BY <1>1
<1>5. Range(seq) = Range(Tail(seq)) \cup {Head(seq)}
  <2>1. \A i \in 1..n : i # 1 => i - 1 \in 1..(n - 1) /\ seq[i] = Tail(seq)[i - 1]
    BY <1>1, <1>3
  <2>2. \A i \in 1..(n - 1) : i + 1 \in 1..n
    BY <1>1
  <2>3. Range(seq) \subseteq Range(Tail(seq)) \cup {Head(seq)}
    <3>1. \A i \in 1..n : seq[i] = Head(seq) \/ seq[i] \in Range(Tail(seq))
      BY <1>2, <1>4, <2>1 DEF Range
    <3> QED
      BY <1>1, <3>1 DEF Range
  <2>4. Range(Tail(seq)) \subseteq Range(seq)
    BY <1>1, <1>2, <1>3, <2>2 DEF Range
  <2>5. Head(seq) \in Range(seq)
    BY <1>1, <1>4 DEF Range
  <2> QED
    BY <2>3, <2>4, <2>5
<1>6. IsInjective(seq) => IsInjective(Tail(seq)) /\ Head(seq) \notin Range(Tail(seq))
  <2>1. \A i \in 1..(n - 1) : i + 1 \in 1..n /\ i + 1 # 1
    BY <1>1
  <2>2. \A i, j \in 1..(n - 1) : i + 1 = j + 1 => i = j
    BY <1>1
  <2> QED
    BY <1>1, <1>2, <1>3, <1>4, <2>1, <2>2 DEF Range, IsInjective
<1> QED
  BY <1>1, <1>2, <1>4, <1>5, <1>6

\* A ping in a worker's hands or settled is a ping, and its vehicle has a partition.
LEMMA TakenIsPing ==
  ASSUME TypeOK, NEW p \in InHand \cup Settled
  PROVE  p \in Ping /\ p.veh \in Vehicles /\ p.n \in Nat
<1>1. p \in Ping
  BY DEF TypeOK, InHand, Settled
<1> QED
  BY <1>1, ConstantsAssumption DEF Ping

\* What the topic holds once the broker stored a ping.
LEMMA LandStep ==
  ASSUME TypeOK, NEW p \in InHand \cup Settled, Land(p)
  PROVE  /\ partition' \in [Vehicles -> Seq(Ping)]
         /\ partition'[p.veh] = Append(partition[p.veh], p)
         /\ \A v \in Vehicles \ {p.veh} : partition'[v] = partition[v]
         /\ Range(partition'[p.veh]) = Range(partition[p.veh]) \cup {p}
         /\ Stored' = Stored \cup {p}
<1>1. p \in Ping /\ p.veh \in Vehicles
  BY TakenIsPing
<1>2. /\ partition'[p.veh] = Append(partition[p.veh], p)
      /\ \A v \in Vehicles \ {p.veh} : partition'[v] = partition[v]
  BY <1>1 DEF Land, TypeOK
<1>3. partition[p.veh] \in Seq(Ping)
  BY <1>1 DEF TypeOK
<1>4. Append(partition[p.veh], p) \in Seq(Ping) /\ Range(Append(partition[p.veh], p)) = Range(partition[p.veh]) \cup {p}
  BY <1>1, <1>3, AppendElements
<1>5. partition' \in [Vehicles -> Seq(Ping)]
  BY <1>1, <1>4 DEF Land, TypeOK
<1>6. Stored' = Stored \cup {p}
  <2>1. \A v \in Vehicles : Range(partition'[v]) = IF v = p.veh THEN Range(partition[v]) \cup {p} ELSE Range(partition[v])
    BY <1>2, <1>4
  <2>2. Stored' = UNION {Range(partition'[v]) : v \in Vehicles}
    BY DEF Stored
  <2> QED
    BY <1>1, <2>1, <2>2 DEF Stored
<1> QED
  BY <1>2, <1>4, <1>5, <1>6

----------------------------------------------------------------------------
(* Type correctness.  A handler that is admitting a ping holds one, its own *)
(* and the last it received: without that, TypeOK is not inductive.        *)

Admitting ==
  \A s \in Streams : hpc[s] \in {"register", "push"} =>
    cur[s] \in Ping /\ cur[s].stream = s /\ cur[s].n = recvd[s]

TypeInv == TypeOK /\ Admitting

LEMMA InitTypeInv == Init => TypeInv
BY EmptySeq, ConstantsAssumption DEF Init, TypeInv, TypeOK, Admitting

\* Each branch of Recv keeps the types, whatever it returns.
LEMMA RecvTypeInv ==
  ASSUME TypeInv, NEW s \in Streams, NEW from, NEW admit, NEW reject,
         from \in {"first", "recv"}, admit \in {"register", "push"}, reject \in {"recv", "returned"},
         RecvPing(s, from, admit, reject)
  PROVE  TypeInv'
<1> USE DEF TypeInv, TypeOK, RecvPing, workerVars
<1>1. recvd[s] + 1 \in 1..MaxPings
  BY ConstantsAssumption
<1>2. PICK v \in Vehicles, k \in Kinds, allowed \in BOOLEAN :
        LET p == [stream |-> s, n |-> recvd[s] + 1, veh |-> v, kind |-> k]
        IN  IF validatePing(p) /\ allowed
              THEN hpc' = [hpc EXCEPT ![s] = admit] /\ cur' = [cur EXCEPT ![s] = p]
              ELSE hpc' = [hpc EXCEPT ![s] = reject] /\ cur' = cur
  OBVIOUS
<1> DEFINE p == [stream |-> s, n |-> recvd[s] + 1, veh |-> v, kind |-> k]
<1>3. p \in Ping /\ p.stream = s /\ p.n = recvd[s] + 1
  BY <1>1, ConstantsAssumption DEF Ping
<1>4. CASE hpc' = [hpc EXCEPT ![s] = admit] /\ cur' = [cur EXCEPT ![s] = p]
  BY <1>1, <1>3, <1>4 DEF Admitting
<1>5. CASE hpc' = [hpc EXCEPT ![s] = reject] /\ cur' = cur
  BY <1>1, <1>5 DEF Admitting
<1> QED
  BY <1>2, <1>4, <1>5

LEMMA NextTypeInv == TypeInv /\ [Next]_vars => TypeInv'
<1> SUFFICES ASSUME TypeInv, [Next]_vars
             PROVE  TypeInv'
  OBVIOUS
<1> USE DEF TypeInv, handlerVars, workerVars
<1>1. ASSUME NEW s \in Streams, Handler(s)
      PROVE  TypeInv'
  <2>1. CASE OpenStream(s)
    BY <2>1 DEF OpenStream, TypeOK, Admitting
  <2>2. CASE RecvFirst(s)
    BY <2>2, RecvTypeInv DEF RecvFirst
  <2>3. CASE RecvNext(s)
    BY <2>3, RecvTypeInv DEF RecvNext
  <2>4. CASE Register(s)
    <3>1. cur[s] \in Ping /\ cur[s].veh \in Vehicles
      BY <2>4 DEF Register, Admitting, Ping
    <3> QED
      BY <2>4, <3>1 DEF Register, AddSession, TypeOK, Admitting
  <2>5. CASE Push(s)
    <3>1. cur[s] \in Ping
      BY <2>5 DEF Push, Admitting
    <3>2. pings' \in Seq(Ping) /\ Len(pings') <= ChanCap
      BY <2>5, <3>1, AppendElements, LenProperties, ConstantsAssumption DEF Push, HasRoom, TypeOK
    <3>3. accepted' \subseteq Ping /\ late' \subseteq accepted'
      BY <2>5, <3>1 DEF Push, AnsweredOK, TypeOK
    <3>4. Admitting'
      BY <2>5 DEF Push, Admitting, TypeOK
    <3> QED
      BY <2>5, <3>1, <3>2, <3>3, <3>4 DEF Push, TypeOK
  <2>6. CASE EndStream(s)
    BY <2>6 DEF EndStream, RemoveSession, TypeOK, Admitting
  <2> QED
    BY <1>1, <2>1, <2>2, <2>3, <2>4, <2>5, <2>6 DEF Handler
<1>2. ASSUME NEW w \in Workers, Worker(w)
      PROVE  TypeInv'
  <2>1. CASE Take(w)
    <3>1. Head(pings) \in Ping /\ Tail(pings) \in Seq(Ping) /\ Len(Tail(pings)) <= ChanCap
      BY <2>1, TailElements, LenProperties, ConstantsAssumption DEF Take, TypeOK
    <3> QED
      BY <2>1, <3>1 DEF Take, TypeOK, Admitting
  <2>2. CASE StartDrain(w)
    BY <2>2 DEF StartDrain, TypeOK, Admitting
  <2>3. CASE Exit(w)
    BY <2>3 DEF Exit, TypeOK, Admitting
  <2>4. CASE PublishOK(w)
    BY <2>4 DEF PublishOK, TypeOK, Admitting
  <2>5. CASE PublishError(w)
    BY <2>5 DEF PublishError, FailPublish, TypeOK, Admitting
  <2> QED
    BY <1>2, <2>1, <2>2, <2>3, <2>4, <2>5 DEF Worker
<1>3. CASE MainLoop
  BY <1>3 DEF MainLoop, Signal, StoppedGracefully, ForceStop, AwaitWorkers, Close, Main, TypeOK, Admitting
<1>4. CASE Exited \/ UNCHANGED vars
  BY <1>4 DEF Exited, vars, TypeOK, Admitting
<1>5. ASSUME NEW p \in InHand \cup Settled, Land(p)
      PROVE  TypeInv'
  <2>1. partition' \in [Vehicles -> Seq(Ping)]
    BY <1>5, LandStep
  <2> QED
    BY <1>5, <2>1 DEF Land, TypeOK, Admitting
<1> QED
  BY <1>1, <1>2, <1>3, <1>4, <1>5 DEF Next

\* Every variable keeps its type, and the channel never holds more than ChanCap.
THEOREM TypeCorrect == Spec => []TypeOK
<1>1. Spec => []TypeInv
  BY InitTypeInv, NextTypeInv, PTL DEF Spec
<1> QED
  BY <1>1, PTL DEF TypeInv

----------------------------------------------------------------------------
(* The session store.                                                      *)

\* A handler knows its vehicle from its registration on.
VehicleKnown ==
  \A s \in Streams :
    /\ hpc[s] \in {"push", "recv"} => vid[s] \in Vehicles
    /\ hpc[s] \in {"none", "first", "register"} => vid[s] = None

SessionInv == VehicleKnown /\ SessionEntryLive /\ SoleStreamRegistered

LEMMA InitSessionInv == Init => SessionInv
BY ConstantsAssumption DEF Init, SessionInv, VehicleKnown, SessionEntryLive, SoleStreamRegistered

LEMMA NextSessionInv == TypeInv /\ SessionInv /\ [Next]_vars => SessionInv'
<1> SUFFICES ASSUME TypeInv, SessionInv, [Next]_vars
             PROVE  SessionInv'
  OBVIOUS
<1> USE DEF SessionInv, VehicleKnown, SessionEntryLive, SoleStreamRegistered, TypeInv, TypeOK, handlerVars
<1>1. ASSUME NEW s \in Streams, Handler(s)
      PROVE  SessionInv'
  <2>1. CASE OpenStream(s)
    BY <2>1 DEF OpenStream
  <2>2. CASE RecvFirst(s)
    <3>1. hpc[s] = "first" /\ UNCHANGED <<vid, sessions>>
      BY <2>2 DEF RecvFirst, RecvPing
    <3>2. PICK next \in {"register", "returned"} : hpc' = [hpc EXCEPT ![s] = next]
      BY <2>2 DEF RecvFirst, RecvPing
    <3> QED
      BY <3>1, <3>2
  <2>3. CASE RecvNext(s)
    <3>1. hpc[s] = "recv" /\ UNCHANGED <<vid, sessions>>
      BY <2>3 DEF RecvNext, RecvPing
    <3>2. PICK next \in {"push", "recv"} : hpc' = [hpc EXCEPT ![s] = next]
      BY <2>3 DEF RecvNext, RecvPing
    <3> QED
      BY <3>1, <3>2
  <2>4. CASE Register(s)
    <3>1. cur[s].veh \in Vehicles
      BY <2>4 DEF Register, Admitting, Ping
    <3>2. \A v \in Vehicles : sessions[v] # s
      BY <2>4 DEF Register
    <3>3. /\ hpc' = [hpc EXCEPT ![s] = "push"]
          /\ vid' = [vid EXCEPT ![s] = cur[s].veh]
          /\ sessions' = [sessions EXCEPT ![cur[s].veh] = s]
          /\ hpc[s] = "register"
      BY <2>4 DEF Register, AddSession
    <3>4. VehicleKnown' /\ SessionEntryLive'
      BY <3>1, <3>2, <3>3
    <3>5. ASSUME NEW q \in Streams \ {s}, hpc'[q] \in {"push", "recv"}
          PROVE  sessions'[vid'[q]] = q \/ \E r \in Streams \ {q} : vid'[r] = vid'[q]
      <4>1. vid'[q] = vid[q] /\ vid[q] \in Vehicles /\ hpc[q] \in {"push", "recv"}
        BY <3>3, <3>5
      <4>2. CASE vid[q] = cur[s].veh
        BY <3>1, <3>3, <4>1, <4>2
      <4>3. CASE vid[q] # cur[s].veh
        <5>1. \A r \in Streams : vid[r] = vid[q] => vid'[r] = vid'[q] \/ r = s
          BY <3>3, <4>1
        <5>2. vid[s] # vid[q]
          BY <2>4, <4>1, ConstantsAssumption DEF Register
        <5> QED
          BY <3>1, <3>3, <4>1, <4>3, <5>1, <5>2
      <4> QED
        BY <4>2, <4>3
    <3>6. sessions'[vid'[s]] = s
      BY <3>1, <3>3
    <3> QED
      BY <3>4, <3>5, <3>6
  <2>5. CASE Push(s)
    BY <2>5 DEF Push
  <2>6. CASE EndStream(s)
    <3>1. CASE hpc[s] = "first"
      BY <2>6, <3>1 DEF EndStream
    <3>2. CASE hpc[s] = "recv"
      <4>1. /\ hpc' = [hpc EXCEPT ![s] = "returned"]
            /\ sessions' = [sessions EXCEPT ![vid[s]] = None]
            /\ vid' = vid /\ vid[s] \in Vehicles
        BY <2>6, <3>2 DEF EndStream, RemoveSession
      <4>2. SessionEntryLive'
        BY <3>2, <4>1, ConstantsAssumption
      <4>3. VehicleKnown' /\ SoleStreamRegistered'
        BY <3>2, <4>1
      <4> QED
        BY <4>2, <4>3
    <3> QED
      BY <2>6, <3>1, <3>2 DEF EndStream
  <2> QED
    BY <1>1, <2>1, <2>2, <2>3, <2>4, <2>5, <2>6 DEF Handler
<1>2. ASSUME NEW w \in Workers, Worker(w)
      PROVE  SessionInv'
  BY <1>2 DEF Worker, Take, StartDrain, Exit, PublishOK, PublishError, FailPublish
<1>3. CASE MainLoop
  BY <1>3 DEF MainLoop, Signal, StoppedGracefully, ForceStop, AwaitWorkers, Close, Main
<1>4. CASE Exited \/ UNCHANGED vars
  BY <1>4 DEF Exited, vars
<1>5. ASSUME NEW p \in InHand \cup Settled, Land(p)
      PROVE  SessionInv'
  BY <1>5 DEF Land
<1> QED
  BY <1>1, <1>2, <1>3, <1>4, <1>5 DEF Next

\* No order in which the streams of a vehicle register and end leaves the session
\* of a handler that has returned in the store.
THEOREM NoDeadSession == Spec => []SessionEntryLive
<1>1. Spec => [](TypeInv /\ SessionInv)
  BY InitTypeInv, NextTypeInv, InitSessionInv, NextSessionInv, PTL DEF Spec
<1> QED
  BY <1>1, PTL DEF SessionInv

\* The session of a running handler is missing only when its vehicle has, or had,
\* another stream.
THEOREM SoleSessionKept == Spec => []SoleStreamRegistered
<1>1. Spec => [](TypeInv /\ SessionInv)
  BY InitTypeInv, NextTypeInv, InitSessionInv, NextSessionInv, PTL DEF Spec
<1> QED
  BY <1>1, PTL DEF SessionInv

----------------------------------------------------------------------------
(* Shutdown.                                                               *)

\* A worker exits only between two pings.
ExitedIdle == \A w \in Workers : wpc[w] = "exited" => wping[w] = None

ShutdownInv == ExitedIdle /\ WriterClosedLast /\ LostOnlyIfLate

LEMMA InitShutdownInv == Init => ShutdownInv
BY ConstantsAssumption DEF Init, ShutdownInv, ExitedIdle, WriterClosedLast, LostOnlyIfLate, WorkersExited

LEMMA NextShutdownInv == TypeInv /\ ShutdownInv /\ [Next]_vars => ShutdownInv'
<1> SUFFICES ASSUME TypeInv, ShutdownInv, [Next]_vars
             PROVE  ShutdownInv'
  OBVIOUS
<1> USE DEF ShutdownInv, ExitedIdle, WriterClosedLast, LostOnlyIfLate, WorkersExited, Queued,
            TypeInv, TypeOK, workerVars
<1>1. ASSUME NEW s \in Streams, Handler(s)
      PROVE  ShutdownInv'
  <2>1. CASE OpenStream(s)
    BY <2>1 DEF OpenStream
  <2>2. CASE RecvFirst(s) \/ RecvNext(s)
    BY <2>2 DEF RecvFirst, RecvNext, RecvPing
  <2>3. CASE Register(s)
    BY <2>3 DEF Register
  <2>4. CASE Push(s)
    <3>1. cur[s] \in Ping
      BY <2>4 DEF Push, Admitting
    <3>2. Range(pings') = Range(pings) \cup AnsweredOK(cur[s])
      BY <2>4, <3>1, AppendElements DEF Push, AnsweredOK
    <3> QED
      BY <2>4, <3>2 DEF Push
  <2>5. CASE EndStream(s)
    BY <2>5 DEF EndStream
  <2> QED
    BY <1>1, <2>1, <2>2, <2>3, <2>4, <2>5 DEF Handler
<1>2. ASSUME NEW w \in Workers, Worker(w)
      PROVE  ShutdownInv'
  <2>1. CASE Take(w)
    BY <2>1 DEF Take
  <2>2. CASE StartDrain(w)
    BY <2>2 DEF StartDrain
  <2>3. CASE Exit(w)
    <3>1. Range(pings') = {}
      BY <2>3 DEF Exit, NothingToDrain, Range
    <3> QED
      BY <2>3, <3>1 DEF Exit
  <2>4. CASE PublishOK(w)
    BY <2>4 DEF PublishOK
  <2>5. CASE PublishError(w)
    BY <2>5 DEF PublishError, FailPublish
  <2> QED
    BY <1>2, <2>1, <2>2, <2>3, <2>4, <2>5 DEF Worker
<1>3. CASE MainLoop
  BY <1>3 DEF MainLoop, Signal, StoppedGracefully, ForceStop, AwaitWorkers, Close, Main
<1>4. CASE Exited \/ UNCHANGED vars
  BY <1>4 DEF Exited, vars
<1>5. ASSUME NEW p \in InHand \cup Settled, Land(p)
      PROVE  ShutdownInv'
  BY <1>5 DEF Land
<1> QED
  BY <1>1, <1>2, <1>3, <1>4, <1>5 DEF Next

\* The drain loses no ping that was in the channel while a worker was alive.
THEOREM DrainLosesOnlyLate == Spec => []LostOnlyIfLate
<1>1. Spec => [](TypeInv /\ ShutdownInv)
  BY InitTypeInv, NextTypeInv, InitShutdownInv, NextShutdownInv, PTL DEF Spec
<1> QED
  BY <1>1, PTL DEF ShutdownInv

\* No worker publishes through a closed writer.
THEOREM CloseAfterWorkers == Spec => []WriterClosedLast
<1>1. Spec => [](TypeInv /\ ShutdownInv)
  BY InitTypeInv, NextTypeInv, InitShutdownInv, NextShutdownInv, PTL DEF Spec
<1> QED
  BY <1>1, PTL DEF ShutdownInv

----------------------------------------------------------------------------
(* Conservation of the acknowledged pings.                                 *)

\* A worker that takes a ping adds it to the pings in hand.
LEMMA HandTakes ==
  ASSUME TypeOK, NEW w \in Workers, NEW p \in Ping, wping[w] = None, wping' = [wping EXCEPT ![w] = p]
  PROVE  InHand' = InHand \cup {p}
<1> USE ConstantsAssumption DEF TypeOK, InHand
<1>1. InHand' \subseteq InHand \cup {p}
  OBVIOUS
<1>2. ASSUME NEW x \in InHand
      PROVE  x \in InHand'
  <2>1. PICK u \in Workers : x = wping[u] /\ u # w
    OBVIOUS
  <2>2. wping'[u] = x /\ x # None
    BY <2>1
  <2> QED
    BY <2>2
<1>3. p \in InHand'
  <2>1. wping'[w] = p /\ p # None
    OBVIOUS
  <2> QED
    BY <2>1
<1> QED
  BY <1>1, <1>2, <1>3

HandsDistinct == \A w1, w2 \in Workers : w1 # w2 /\ wping[w1] # None => wping[w1] # wping[w2]

\* A worker that is done with a ping takes it, and no other, out of the hands.
LEMMA HandReleases ==
  ASSUME TypeOK, HandsDistinct, NEW w \in Workers, wping[w] # None, wping' = [wping EXCEPT ![w] = None]
  PROVE  InHand' = InHand \ {wping[w]} /\ wping[w] \in InHand
<1> USE DEF TypeOK, InHand, HandsDistinct
<1>1. InHand' \subseteq InHand \ {wping[w]}
  OBVIOUS
<1>2. ASSUME NEW x \in InHand \ {wping[w]}
      PROVE  x \in InHand'
  <2>1. PICK u \in Workers : x = wping[u] /\ u # w
    OBVIOUS
  <2>2. wping'[u] = x /\ x # None
    BY <2>1
  <2> QED
    BY <2>2
<1> QED
  BY <1>1, <1>2

\* No ping is accepted twice, because a handler admits each ping it receives once:
\* those accepted from its stream are older than the one it is admitting.
Fresh ==
  /\ \A p \in accepted : p.n <= recvd[p.stream]
  /\ \A s \in Streams : hpc[s] \in {"register", "push"} =>
       \A p \in accepted : p.stream = s => p.n < recvd[s]

LEMMA InitFresh == Init => Fresh
BY DEF Init, Fresh

LEMMA NextFresh == TypeInv /\ Fresh /\ [Next]_vars => Fresh'
<1> SUFFICES ASSUME TypeInv, Fresh, [Next]_vars
             PROVE  Fresh'
  OBVIOUS
<1> USE DEF Fresh, TypeInv, TypeOK, handlerVars
<1>0. \A p \in accepted : p.stream \in Streams /\ p.n \in Nat
  BY DEF Ping
<1>1. ASSUME NEW s \in Streams, Handler(s)
      PROVE  Fresh'
  <2>1. CASE OpenStream(s)
    BY <2>1 DEF OpenStream
  <2>2. CASE RecvFirst(s) \/ RecvNext(s)
    <3>1. recvd' = [recvd EXCEPT ![s] = @ + 1] /\ accepted' = accepted /\ \A r \in Streams \ {s} : hpc'[r] = hpc[r]
      BY <2>2 DEF RecvFirst, RecvNext, RecvPing
    <3> QED
      BY <1>0, <3>1
  <2>3. CASE Register(s)
    BY <2>3 DEF Register
  <2>4. CASE Push(s)
    <3>1. /\ accepted' = accepted \cup AnsweredOK(cur[s])
          /\ AnsweredOK(cur[s]) \subseteq {cur[s]}
          /\ hpc' = [hpc EXCEPT ![s] = "recv"] /\ hpc[s] = "push" /\ recvd' = recvd
      BY <2>4 DEF Push, AnsweredOK
    <3>2. cur[s].stream = s /\ cur[s].n = recvd[s]
      BY <3>1 DEF Admitting
    <3> QED
      BY <1>0, <3>1, <3>2
  <2>5. CASE EndStream(s)
    BY <2>5 DEF EndStream
  <2> QED
    BY <1>1, <2>1, <2>2, <2>3, <2>4, <2>5 DEF Handler
<1>2. ASSUME NEW w \in Workers, Worker(w)
      PROVE  Fresh'
  BY <1>2 DEF Worker, Take, StartDrain, Exit, PublishOK, PublishError, FailPublish
<1>3. CASE MainLoop
  BY <1>3 DEF MainLoop, Signal, StoppedGracefully, ForceStop, AwaitWorkers, Close, Main
<1>4. CASE Exited \/ UNCHANGED vars
  BY <1>4 DEF Exited, vars
<1>5. ASSUME NEW p \in InHand \cup Settled, Land(p)
      PROVE  Fresh'
  BY <1>5 DEF Land
<1> QED
  BY <1>1, <1>2, <1>3, <1>4, <1>5 DEF Next

ConservationInv == Fresh /\ Conservation

LEMMA InitConservationInv == Init => ConservationInv
<1> SUFFICES ASSUME Init
             PROVE  Conservation
  BY InitFresh DEF ConservationInv
<1>1. IsInjective(pings) /\ Queued = {}
  BY DEF Init, IsInjective, Queued, Range
<1>2. InHand = {} /\ failed = {} /\ accepted = {}
  BY DEF Init, InHand
<1>3. Stored = {}
  BY DEF Init, Stored, Range
<1> QED
  BY <1>1, <1>2, <1>3 DEF Init, Conservation, Settled

\* A handler sends a ping that nobody has.
LEMMA PushedIsNew ==
  ASSUME TypeInv, Fresh, NEW s \in Streams, hpc[s] = "push"
  PROVE  cur[s] \in Ping /\ cur[s] \notin accepted
BY DEF TypeInv, TypeOK, Admitting, Fresh, Ping

\* A worker that is done with its ping moves it from the hands to the settled pings.
LEMMA SettleStep ==
  ASSUME TypeInv, Conservation, NEW w \in Workers, PublishOK(w) \/ PublishError(w)
  PROVE  /\ wping[w] \in Ping /\ wping[w] \in InHand
         /\ InHand' = InHand \ {wping[w]}
         /\ Settled' = Settled \cup {wping[w]}
         /\ wping' = [wping EXCEPT ![w] = None]
         /\ UNCHANGED <<pings, partition, accepted, Queued, Stored>>
<1>1. /\ wping[w] # None /\ wping' = [wping EXCEPT ![w] = None]
      /\ UNCHANGED <<pings, partition, accepted>>
      /\ \/ published' = published \cup {wping[w]} /\ failed' = failed
         \/ failed' = failed \cup {wping[w]} /\ published' = published
  BY DEF PublishOK, PublishError, FailPublish
<1>2. HandsDistinct /\ wping[w] \in Ping
  BY <1>1 DEF Conservation, HandsDistinct, TypeInv, TypeOK
<1>3. UNCHANGED <<Queued, Stored>>
  BY <1>1 DEF Queued, Stored
<1> QED
  BY <1>1, <1>2, <1>3, HandReleases DEF TypeInv, Settled

LEMMA NextConservation == TypeInv /\ ConservationInv /\ [Next]_vars => Conservation'
<1> SUFFICES ASSUME TypeInv, Fresh, Conservation, [Next]_vars
             PROVE  Conservation'
  BY DEF ConservationInv
<1> USE DEF handlerVars, workerVars
<1>u. ASSUME UNCHANGED <<pings, wping, partition, published, failed, accepted>>
      PROVE  Conservation'
  BY <1>u DEF Conservation, Queued, InHand, Settled, Stored
<1>1. ASSUME NEW s \in Streams, Handler(s)
      PROVE  Conservation'
  <2>1. CASE Push(s)
    <3>1. cur[s] \in Ping /\ cur[s] \notin Queued \cup InHand \cup Settled
      BY <2>1, PushedIsNew DEF Push, Conservation
    <3>2. UNCHANGED <<wping, InHand, published, failed, Settled, Stored>>
      BY <2>1 DEF Push, InHand, Settled, Stored
    <3>3. CASE HasRoom
      <4>1. pings' = Append(pings, cur[s]) /\ accepted' = accepted \cup {cur[s]}
        BY <2>1, <3>3 DEF Push, AnsweredOK
      <4>2. Queued' = Queued \cup {cur[s]} /\ IsInjective(pings')
        BY <3>1, <4>1, AppendElements DEF Queued, TypeInv, TypeOK, Conservation
      <4> QED
        BY <3>1, <3>2, <4>1, <4>2 DEF Conservation
    <3>4. CASE ~HasRoom
      <4>1. UNCHANGED <<pings, accepted>>
        BY <2>1, <3>4 DEF Push, AnsweredOK
      <4> QED
        BY <3>2, <4>1 DEF Conservation, Queued
    <3> QED
      BY <3>3, <3>4
  <2>2. CASE ~Push(s)
    BY <1>1, <1>u, <2>2 DEF Handler, OpenStream, RecvFirst, RecvNext, RecvPing, Register, EndStream
  <2> QED
    BY <2>1, <2>2
<1>2. ASSUME NEW w \in Workers, Worker(w)
      PROVE  Conservation'
  <2>1. CASE Take(w)
    <3> DEFINE p == Head(pings)
    <3>1. /\ pings \in Seq(Ping) /\ pings # <<>> /\ wping[w] = None
          /\ wping' = [wping EXCEPT ![w] = p] /\ pings' = Tail(pings)
          /\ UNCHANGED <<published, failed, Settled, Stored, accepted>>
      BY <2>1 DEF Take, TypeInv, TypeOK, Settled, Stored
    <3>2. p \in Ping /\ Queued = Queued' \cup {p} /\ p \notin Queued' /\ IsInjective(pings')
      BY <3>1, TailElements DEF Queued, Conservation
    <3>3. InHand' = InHand \cup {p}
      BY <3>1, <3>2, HandTakes DEF TypeInv
    <3>4. p \notin InHand
      BY <3>2 DEF Conservation
    <3>5. \A u \in Workers \ {w} : wping'[u] = wping[u] /\ (wping[u] # None => wping[u] \in InHand)
      BY <3>1 DEF InHand, TypeInv, TypeOK
    <3>6. wping'[w] = p
      BY <3>1 DEF TypeInv, TypeOK
    <3>7. HandsDistinct'
      BY <3>4, <3>5, <3>6 DEF Conservation, HandsDistinct
    <3> QED
      BY <3>1, <3>2, <3>3, <3>4, <3>7 DEF Conservation, HandsDistinct
  <2>2. CASE StartDrain(w) \/ Exit(w)
    BY <1>u, <2>2 DEF StartDrain, Exit
  <2>3. CASE PublishOK(w) \/ PublishError(w)
    <3>1. /\ wping[w] \in InHand /\ InHand' = InHand \ {wping[w]}
          /\ Settled' = Settled \cup {wping[w]} /\ wping' = [wping EXCEPT ![w] = None]
          /\ UNCHANGED <<pings, accepted, Queued, Stored>>
      BY <2>3, SettleStep
    <3>2. HandsDistinct'
      BY <3>1 DEF Conservation, HandsDistinct, TypeInv, TypeOK
    <3>3. (published \cap failed = {})' /\ (published \subseteq Stored)'
      BY <2>3, <3>1 DEF PublishOK, Written, PublishError, FailPublish, Conservation, Settled
    <3> QED
      BY <3>1, <3>2, <3>3 DEF Conservation, HandsDistinct
  <2> QED
    BY <1>2, <2>1, <2>2, <2>3 DEF Worker
<1>3. CASE MainLoop
  BY <1>3, <1>u DEF MainLoop, Signal, StoppedGracefully, ForceStop, AwaitWorkers, Close, Main
<1>4. CASE Exited \/ UNCHANGED vars
  BY <1>4, <1>u DEF Exited, vars
<1>5. ASSUME NEW p \in InHand \cup Settled, Land(p)
      PROVE  Conservation'
  <2>1. Stored' = Stored \cup {p}
    BY <1>5, LandStep DEF TypeInv
  <2>2. UNCHANGED <<pings, wping, published, failed, accepted, Queued, InHand, Settled>>
    BY <1>5 DEF Land, Queued, InHand, Settled
  <2> QED
    BY <2>1, <2>2 DEF Conservation
<1> QED
  BY <1>1, <1>2, <1>3, <1>4, <1>5 DEF Next

\* Every acknowledged ping is in one place: the channel, one worker's hands, or
\* settled; and nothing else is.  Those reported as written are in the topic.
THEOREM PingsConserved == Spec => []Conservation
<1>1. TypeInv /\ ConservationInv /\ [Next]_vars => ConservationInv'
  BY NextFresh, NextConservation DEF ConservationInv
<1>2. Spec => [](TypeInv /\ ConservationInv)
  BY <1>1, InitTypeInv, NextTypeInv, InitConservationInv, PTL DEF Spec
<1> QED
  BY <1>2, PTL DEF ConservationInv

----------------------------------------------------------------------------
(* The service implements the relay.                                       *)

\* A queued ping occupies a slot of the channel, a ping in hand a worker.
LEMMA HeldBound ==
  ASSUME TypeOK
  PROVE  /\ IsFiniteSet(Queued \cup InHand)
         /\ Cardinality(Queued \cup InHand) <= Len(pings) + Cardinality(Workers)
<1> DEFINE Hands == {wping[w] : w \in Workers}
<1>1. IsFiniteSet(Queued) /\ Cardinality(Queued) <= Len(pings)
  <2>1. Len(pings) \in Nat /\ DOMAIN pings = 1..Len(pings) /\ pings \in [1..Len(pings) -> Ping]
    BY LenProperties DEF TypeOK
  <2>2. pings \in Surjection(1..Len(pings), Queued)
    BY <2>1 DEF Surjection, Queued, Range
  <2>3. IsFiniteSet(1..Len(pings)) /\ Cardinality(1..Len(pings)) = Len(pings)
    BY <2>1, FS_Interval
  <2> QED
    BY <2>2, <2>3, FS_Surjection
<1>2. IsFiniteSet(InHand) /\ Cardinality(InHand) <= Cardinality(Workers)
  <2>1. wping \in Surjection(Workers, Hands)
    BY DEF Surjection, TypeOK
  <2>2. IsFiniteSet(Hands) /\ Cardinality(Hands) <= Cardinality(Workers)
    BY <2>1, FS_Surjection, ConstantsAssumption
  <2>3. InHand \in SUBSET Hands
    BY DEF InHand
  <2>4. IsFiniteSet(InHand) /\ Cardinality(InHand) <= Cardinality(Hands)
    BY <2>2, <2>3, FS_Subset
  <2>5. Cardinality(InHand) \in Nat /\ Cardinality(Hands) \in Nat /\ Cardinality(Workers) \in Nat
    BY <2>2, <2>4, FS_CardinalityType, ConstantsAssumption
  <2> QED
    BY <2>2, <2>4, <2>5
<1>3. /\ Cardinality(Queued \cup InHand) = Cardinality(Queued) + Cardinality(InHand) - Cardinality(Queued \cap InHand)
      /\ IsFiniteSet(Queued \cap InHand) /\ IsFiniteSet(Queued \cup InHand)
  BY <1>1, <1>2, FS_Union, FS_Subset
<1>4. /\ Cardinality(Queued) \in Nat /\ Cardinality(InHand) \in Nat /\ Cardinality(Queued \cap InHand) \in Nat
      /\ Cardinality(Workers) \in Nat /\ Len(pings) \in Nat
  BY <1>1, <1>2, <1>3, FS_CardinalityType, LenProperties, ConstantsAssumption DEF TypeOK
<1> QED
  BY <1>1, <1>2, <1>3, <1>4

LEMMA InitRelay == Init => Relay!Init
<1> SUFFICES ASSUME Init
             PROVE  Queued = {} /\ InHand = {} /\ Stored = {} /\ published = {} /\ failed = {}
  BY DEF Relay!Init
<1> QED
  BY DEF Init, Queued, InHand, Stored, Range

LEMMA NextRelay ==
  TypeInv /\ ConservationInv /\ [Next]_vars => [Relay!Next]_(Relay!relayVars)
<1> SUFFICES ASSUME TypeInv, Fresh, Conservation, [Next]_vars
             PROVE  [Relay!Next]_(Relay!relayVars)
  BY DEF ConservationInv
<1> USE DEF handlerVars, workerVars
<1>u. ASSUME UNCHANGED <<pings, wping, partition, published, failed>>
      PROVE  UNCHANGED Relay!relayVars
  BY <1>u DEF Relay!relayVars, Queued, InHand, Stored
<1>1. ASSUME NEW s \in Streams, Handler(s)
      PROVE  [Relay!Next]_(Relay!relayVars)
  <2>1. CASE Push(s) /\ HasRoom
    <3>1. cur[s] \in Ping /\ cur[s] \notin Queued \cup InHand \cup Settled
      BY <2>1, PushedIsNew DEF Push, Conservation
    <3>2. pings' = Append(pings, cur[s]) /\ UNCHANGED <<InHand, Stored, published, failed>>
      BY <2>1 DEF Push, InHand, Stored
    <3>3. Queued' \cup InHand' = (Queued \cup InHand) \cup {cur[s]}
      BY <3>1, <3>2, AppendElements DEF Queued, TypeInv, TypeOK
    <3>4. Cardinality(Queued \cup InHand) < ChanCap + Cardinality(Workers)
      <4>1. Len(pings) < ChanCap /\ Len(pings) \in Nat
        BY <2>1, LenProperties DEF HasRoom, TypeInv, TypeOK
      <4>2. /\ IsFiniteSet(Queued \cup InHand)
            /\ Cardinality(Queued \cup InHand) <= Len(pings) + Cardinality(Workers)
        BY HeldBound DEF TypeInv
      <4> QED
        BY <4>1, <4>2, FS_CardinalityType, ConstantsAssumption
    <3>5. cur[s] \notin (Queued \cup InHand) \cup published \cup failed
      BY <3>1 DEF Settled
    <3>6. Relay!Accept(cur[s])
      <4>1. Stored' = Stored /\ published' = published /\ failed' = failed
        BY <3>2
      <4>2. Relay!Cardinality(Queued \cup InHand) = Cardinality(Queued \cup InHand)
        BY DEF Relay!Cardinality, Cardinality
      <4> QED
        BY <3>3, <3>4, <3>5, <4>1, <4>2 DEF Relay!Accept
    <3> QED
      BY <3>1, <3>6 DEF Relay!Next
  <2>2. CASE Push(s) /\ ~HasRoom
    BY <1>u, <2>2 DEF Push
  <2>3. CASE ~Push(s)
    BY <1>1, <1>u, <2>3 DEF Handler, OpenStream, RecvFirst, RecvNext, RecvPing, Register, EndStream
  <2> QED
    BY <2>1, <2>2, <2>3
<1>2. ASSUME NEW w \in Workers, Worker(w)
      PROVE  [Relay!Next]_(Relay!relayVars)
  <2>1. CASE Take(w)
    <3> DEFINE p == Head(pings)
    <3>1. /\ pings \in Seq(Ping) /\ pings # <<>> /\ wping[w] = None
          /\ wping' = [wping EXCEPT ![w] = p] /\ pings' = Tail(pings)
          /\ UNCHANGED <<Stored, published, failed>>
      BY <2>1 DEF Take, TypeInv, TypeOK, Stored
    <3>2. p \in Ping /\ Queued = Queued' \cup {p}
      BY <3>1, TailElements DEF Queued
    <3>3. InHand' = InHand \cup {p}
      BY <3>1, <3>2, HandTakes DEF TypeInv
    <3>4. Queued' \cup InHand' = Queued \cup InHand
      BY <3>2, <3>3
    <3> QED
      BY <3>1, <3>4 DEF Relay!relayVars
  <2>2. CASE StartDrain(w) \/ Exit(w)
    BY <1>u, <2>2 DEF StartDrain, Exit
  <2>3. CASE PublishOK(w) \/ PublishError(w)
    <3>1. /\ wping[w] \in Ping /\ wping[w] \in InHand /\ wping[w] \notin Queued
          /\ InHand' = InHand \ {wping[w]}
          /\ UNCHANGED <<Queued, Stored>>
      BY <2>3, SettleStep DEF Conservation
    <3>2. Queued' \cup InHand' = (Queued \cup InHand) \ {wping[w]}
      BY <3>1
    <3>3. CASE PublishOK(w)
      BY <3>1, <3>2, <3>3 DEF PublishOK, Written, Relay!Publish, Relay!Next
    <3>4. CASE PublishError(w)
      BY <3>1, <3>2, <3>4 DEF PublishError, FailPublish, Relay!GiveUp, Relay!Next
    <3> QED
      BY <2>3, <3>3, <3>4
  <2> QED
    BY <1>2, <2>1, <2>2, <2>3 DEF Worker
<1>3. CASE MainLoop
  BY <1>3, <1>u DEF MainLoop, Signal, StoppedGracefully, ForceStop, AwaitWorkers, Close, Main
<1>4. CASE Exited \/ UNCHANGED vars
  BY <1>4, <1>u DEF Exited, vars
<1>5. ASSUME NEW p \in InHand \cup Settled, Land(p)
      PROVE  [Relay!Next]_(Relay!relayVars)
  <2>1. Stored' = Stored \cup {p} /\ p \in Ping
    BY <1>5, LandStep, TakenIsPing DEF TypeInv
  <2>2. UNCHANGED <<Queued, InHand, published, failed>>
    BY <1>5 DEF Land, Queued, InHand
  <2>3. Relay!Store(p)
    BY <2>1, <2>2 DEF Relay!Store, Settled
  <2> QED
    BY <2>1, <2>3 DEF Relay!Next
<1> QED
  BY <1>1, <1>2, <1>3, <1>4, <1>5 DEF Next

\* The ingestion service implements a relay that holds at most ChanCap pings and
\* one per worker, and settles each ping it accepted once.
THEOREM ImplementsRelay == Spec => RelaySpec
<1>1. TypeInv /\ ConservationInv /\ [Next]_vars => ConservationInv'
  BY NextFresh, NextConservation DEF ConservationInv
<1>2. Spec => [](TypeInv /\ ConservationInv)
  BY <1>1, InitTypeInv, NextTypeInv, InitConservationInv, PTL DEF Spec
<1> QED
  BY <1>2, InitRelay, NextRelay, PTL DEF Spec, RelaySpec, Relay!Spec

\* The relay alone promises that no ping it settled is held again, and that it never
\* holds more than the channel and the workers' hands do.
HeldBounded ==
  /\ (Queued \cup InHand) \cap Settled = {}
  /\ IsFiniteSet(Queued \cup InHand)
  /\ Cardinality(Queued \cup InHand) <= ChanCap + Cardinality(Workers)

THEOREM RelayIsBounded == RelaySpec => []HeldBounded
<1> DEFINE held == Queued \cup InHand
           room == ChanCap + Cardinality(Workers)
<1>r. room \in Nat
  BY ConstantsAssumption, FS_CardinalityType
<1>1. Relay!Init => HeldBounded
  <2> SUFFICES ASSUME Relay!Init
               PROVE  HeldBounded
    OBVIOUS
  <2>1. held = {}
    BY DEF Relay!Init
  <2>2. IsFiniteSet({}) /\ Cardinality({}) = 0
    BY FS_EmptySet
  <2> QED
    BY <1>r, <2>1, <2>2 DEF HeldBounded
<1>2. HeldBounded /\ [Relay!Next]_(Relay!relayVars) => HeldBounded'
  <2> SUFFICES ASSUME HeldBounded, [Relay!Next]_(Relay!relayVars)
               PROVE  HeldBounded'
    OBVIOUS
  <2>1. ASSUME NEW p \in Ping, Relay!Accept(p)
        PROVE  HeldBounded'
    <3>1. /\ p \notin held /\ p \notin Settled /\ held' = held \cup {p} /\ Settled' = Settled
          /\ Cardinality(held) < room
      <4>1. /\ p \notin held \cup published \cup failed /\ Cardinality(held) < room
            /\ held' = held \cup {p} /\ published' = published /\ failed' = failed
        <5>1. Relay!Cardinality(Queued \cup InHand) = Cardinality(Queued \cup InHand)
          BY DEF Relay!Cardinality, Cardinality
        <5> QED
          BY <2>1, <5>1 DEF Relay!Accept
      <4> QED
        BY <4>1 DEF Settled
    <3>2. IsFiniteSet(held) /\ held \cap Settled = {}
      BY DEF HeldBounded
    <3>3. IsFiniteSet(held') /\ Cardinality(held') = Cardinality(held) + 1 /\ Cardinality(held) \in Nat
      BY <3>1, <3>2, FS_AddElement, FS_CardinalityType
    <3>4. Cardinality(held') <= room
      BY <1>r, <3>1, <3>3
    <3>5. (held \cup {p}) \cap Settled = {}
      BY <3>1, <3>2
    <3> QED
      BY <3>1, <3>3, <3>4, <3>5 DEF HeldBounded
  <2>2. ASSUME NEW p \in held, held' = held \ {p}, Settled' \subseteq Settled \cup {p}
        PROVE  HeldBounded'
    <3>1. IsFiniteSet(held) /\ held \cap Settled = {} /\ Cardinality(held) <= room
      BY DEF HeldBounded
    <3>2. IsFiniteSet(held') /\ Cardinality(held') = Cardinality(held) - 1 /\ Cardinality(held) \in Nat
      BY <2>2, <3>1, FS_RemoveElement, FS_CardinalityType
    <3>3. Cardinality(held') <= room
      BY <1>r, <3>1, <3>2
    <3>4. held' \cap Settled' = {}
      BY <2>2, <3>1
    <3> QED
      BY <3>2, <3>3, <3>4 DEF HeldBounded
  <2>3. ASSUME NEW p \in Ping, Relay!Publish(p) \/ Relay!GiveUp(p)
        PROVE  HeldBounded'
    BY <2>2, <2>3 DEF Relay!Publish, Relay!GiveUp, Settled
  <2>4. ASSUME NEW p \in Ping, Relay!Store(p)
        PROVE  HeldBounded'
    BY <2>4 DEF Relay!Store, HeldBounded, Settled
  <2>5. CASE UNCHANGED Relay!relayVars
    BY <2>5 DEF Relay!relayVars, HeldBounded, Settled
  <2> QED
    BY <2>1, <2>3, <2>4, <2>5 DEF Relay!Next
<1> QED
  BY <1>1, <1>2, PTL DEF RelaySpec, Relay!Spec

----------------------------------------------------------------------------
(* How far the workers may store the pings of a stream out of order.  From *)
(* the channel to the workers' hands the order is kept: of the pings sent  *)
(* before one that a worker takes, only those that other workers hold are  *)
(* not settled.  They only get fewer, and they are all that can still be   *)
(* stored for the first time after it, given-up pings aside.               *)

Older(p, q) == p.stream = q.stream => p.n <= q.n

Earlier(q, p) == q.stream = p.stream /\ q.n < p.n

QueueOrder == \A i, j \in DOMAIN pings : i < j => Older(pings[i], pings[j])

StagesOrder == \A p \in InHand \cup Settled, q \in Queued : Older(p, q)

Few(S) == IsFiniteSet(S) /\ Cardinality(S) < Cardinality(Workers)

\* The pings sent before p that are in the workers' hands.
Ahead(p) == {q \in InHand : Earlier(q, p)}

AheadFew == \A p \in InHand \cup Settled : Few(Ahead(p))

\* A ping is stored in the partition of its vehicle.
Placed == \A v \in Vehicles : \A p \in Range(partition[v]) : p.veh = v

\* The pings sent before the entry i of v and stored for the first time after it, or
\* still in hand.
Behind(v, i) ==
  {q \in (InHand \cup Range(partition[v])) \ failed :
     Earlier(q, partition[v][i]) /\ \A k \in 1..i : partition[v][k] # q}

BehindFew == \A v \in Vehicles : \A i \in DOMAIN partition[v] : Few(Behind(v, i))

OrderInv == QueueOrder /\ StagesOrder /\ AheadFew /\ Placed /\ BehindFew

LEMMA InitOrderInv == Init => OrderInv
<1> SUFFICES ASSUME Init
             PROVE  OrderInv
  OBVIOUS
<1>1. Queued = {} /\ InHand = {} /\ Settled = {}
  BY DEF Init, Queued, InHand, Settled, Range
<1>2. QueueOrder /\ Placed /\ BehindFew
  BY DEF Init, QueueOrder, Placed, BehindFew, Range
<1> QED
  BY <1>1, <1>2 DEF OrderInv, StagesOrder, AheadFew

\* The bound is kept where fewer are left.
LEMMA FewLeft ==
  ASSUME NEW S, NEW T, Few(S), T \subseteq S
  PROVE  Few(T)
<1>1. IsFiniteSet(T) /\ Cardinality(T) <= Cardinality(S)
  BY FS_Subset DEF Few
<1>2. Cardinality(T) \in Nat /\ Cardinality(S) \in Nat /\ Cardinality(Workers) \in Nat
  BY <1>1, FS_CardinalityType, ConstantsAssumption DEF Few
<1> QED
  BY <1>1, <1>2 DEF Few

\* The other workers hold fewer pings than there are workers.
LEMMA OtherHands ==
  ASSUME TypeOK, NEW w \in Workers, NEW T, T \subseteq {wping[u] : u \in Workers \ {w}}
  PROVE  Few(T)
<1> DEFINE others == Workers \ {w}
           hands == {wping[u] : u \in others}
           hold == [u \in others |-> wping[u]]
<1>1. IsFiniteSet(others) /\ Cardinality(others) = Cardinality(Workers) - 1 /\ Cardinality(Workers) \in Nat
  BY ConstantsAssumption, FS_RemoveElement, FS_CardinalityType
<1>2. hold \in Surjection(others, hands)
  BY DEF Surjection
<1>3. IsFiniteSet(hands) /\ Cardinality(hands) <= Cardinality(others)
  BY <1>1, <1>2, FS_Surjection
<1>4. Few(hands)
  BY <1>1, <1>3, FS_CardinalityType DEF Few
<1> QED
  BY <1>4, FewLeft

\* The entry i of v is in the topic.
LEMMA EntryStored ==
  ASSUME TypeOK, NEW v \in Vehicles, NEW i \in DOMAIN partition[v]
  PROVE  partition[v][i] \in Stored /\ i \in Nat \ {0} /\ i <= Len(partition[v])
BY LenProperties DEF Stored, Range, TypeOK

\* A step that stores nothing and takes nothing keeps the order.
LEMMA ShrinkingKeepsOrder ==
  ASSUME OrderInv, UNCHANGED <<pings, partition>>,
         InHand' \subseteq InHand, failed \subseteq failed', (InHand \cup Settled)' = InHand \cup Settled
  PROVE  OrderInv'
<1>1. QueueOrder' /\ StagesOrder' /\ Placed'
  BY DEF OrderInv, QueueOrder, StagesOrder, Placed, Queued
<1>2. ASSUME NEW p \in InHand \cup Settled
      PROVE  Few(Ahead(p))'
  <2>1. Ahead(p)' \subseteq Ahead(p) /\ Few(Ahead(p))
    BY <1>2 DEF OrderInv, AheadFew, Ahead
  <2>2. Few(Ahead(p)')
    BY <2>1, FewLeft
  <2> QED
    BY <2>2 DEF Few
<1>3. ASSUME NEW v \in Vehicles, NEW i \in DOMAIN partition[v]
      PROVE  Few(Behind(v, i))'
  <2>1. Behind(v, i)' \subseteq Behind(v, i) /\ Few(Behind(v, i))
    BY <1>3 DEF OrderInv, BehindFew, Behind
  <2>2. Few(Behind(v, i)')
    BY <2>1, FewLeft
  <2> QED
    BY <2>2 DEF Few
<1>4. AheadFew' /\ BehindFew'
  BY <1>2, <1>3 DEF AheadFew, BehindFew
<1> QED
  BY <1>1, <1>4 DEF OrderInv

\* The broker stores p: only pings in hand when p was taken, and still there, can be
\* stored for the first time after it; p itself was behind an earlier entry before,
\* unless it was stored or given up already.
LEMMA LandKeepsOrder ==
  ASSUME TypeInv, Conservation, OrderInv, NEW p \in InHand \cup Settled, Land(p)
  PROVE  OrderInv'
<1> DEFINE old == partition[p.veh]
           new == partition'[p.veh]
           n == Len(old)
<1>1. p \in Ping /\ p.veh \in Vehicles /\ p.n \in Nat
  BY TakenIsPing DEF TypeInv
<1>2. /\ new = Append(old, p)
      /\ \A v \in Vehicles \ {p.veh} : partition'[v] = partition[v]
      /\ Range(new) = Range(old) \cup {p}
  BY LandStep DEF TypeInv
<1>3. UNCHANGED <<pings, failed, Queued, InHand, Settled>>
  BY DEF Land, Queued, InHand, Settled
<1>4. QueueOrder' /\ StagesOrder' /\ AheadFew'
  BY <1>3 DEF OrderInv, QueueOrder, StagesOrder, AheadFew, Ahead, Few
<1>5. Placed'
  BY <1>1, <1>2 DEF OrderInv, Placed
<1>6. /\ old \in Seq(Ping) /\ n \in Nat /\ DOMAIN old = 1..n
      /\ DOMAIN new = 1..(n + 1) /\ new[n + 1] = p
      /\ \A k \in 1..n : new[k] = old[k] /\ k \in 1..(n + 1)
  BY <1>1, <1>2, LenProperties DEF TypeInv, TypeOK
<1>7. p \in InHand \/ p \in failed \/ p \in Range(old)
  <2>1. ASSUME p \in published
        PROVE  p \in Range(old)
    <3>1. PICK v \in Vehicles : p \in Range(partition[v])
      BY <2>1 DEF Conservation, Stored
    <3> QED
      BY <3>1 DEF OrderInv, Placed
  <2> QED
    BY <2>1 DEF Settled
<1>8. ASSUME NEW v \in Vehicles, NEW i \in DOMAIN partition'[v]
      PROVE  Few(Behind(v, i)')
  <2>1. CASE v # p.veh
    <3>1. partition'[v] = partition[v]
      BY <1>2, <2>1
    <3>2. Behind(v, i)' = Behind(v, i)
      BY <1>3, <3>1 DEF Behind
    <3> QED
      BY <1>8, <3>1, <3>2 DEF OrderInv, BehindFew
  <2>2. CASE v = p.veh /\ i # n + 1
    <3>1. i \in 1..n /\ new[i] = old[i] /\ \A k \in 1..i : k \in 1..n /\ new[k] = old[k]
      BY <1>6, <1>8, <2>2
    <3>2. ASSUME NEW q \in Behind(v, i)'
          PROVE  q \in Behind(v, i)
      <4>1. /\ q \in InHand \cup Range(new) /\ q \notin failed
            /\ Earlier(q, old[i]) /\ \A k \in 1..i : old[k] # q
        BY <1>3, <2>2, <3>1, <3>2 DEF Behind, Earlier
      <4>2. q \in InHand \cup Range(old)
        BY <1>2, <1>7, <4>1
      <4> QED
        BY <2>2, <4>1, <4>2 DEF Behind
    <3>3. Few(Behind(v, i))
      BY <1>6, <2>2, <3>1 DEF OrderInv, BehindFew
    <3> QED
      BY <3>2, <3>3, FewLeft
  <2>3. CASE v = p.veh /\ i = n + 1
    <3>1. ASSUME NEW q \in Behind(v, i)'
          PROVE  q \in Ahead(p)
      <4>1. /\ q \in InHand \cup Range(new)
            /\ Earlier(q, p) /\ \A k \in 1..(n + 1) : new[k] # q
        BY <1>3, <1>6, <2>3, <3>1 DEF Behind, Earlier
      <4>2. q \notin Range(new)
        BY <1>6, <4>1 DEF Range
      <4> QED
        BY <4>1, <4>2 DEF Ahead
    <3>2. Few(Ahead(p))
      BY DEF OrderInv, AheadFew
    <3> QED
      BY <3>1, <3>2, FewLeft
  <2> QED
    BY <2>1, <2>2, <2>3
<1>9. BehindFew'
  BY <1>8 DEF BehindFew, Few
<1> QED
  BY <1>4, <1>5, <1>9 DEF OrderInv

LEMMA NextOrderInv ==
  ASSUME TypeInv, Fresh, Conservation, OrderInv, [Next]_vars
  PROVE  OrderInv'
<1> USE DEF handlerVars, workerVars
<1>u. ASSUME UNCHANGED <<pings, wping, partition, published, failed>>
      PROVE  OrderInv'
  BY <1>u, ShrinkingKeepsOrder DEF InHand, Settled
<1>1. ASSUME NEW s \in Streams, Handler(s)
      PROVE  OrderInv'
  <2>1. CASE Push(s) /\ HasRoom
    <3>1. cur[s] \in Ping /\ cur[s].stream = s /\ cur[s].n = recvd[s] /\ hpc[s] = "push"
      BY <2>1 DEF Push, TypeInv, Admitting
    <3>2. \A q \in accepted : Older(q, cur[s])
      BY <3>1, ConstantsAssumption DEF Fresh, Older, TypeInv, TypeOK, Ping
    <3>3. pings' = Append(pings, cur[s]) /\ UNCHANGED <<InHand, Settled, failed, partition>>
      BY <2>1 DEF Push, InHand, Settled
    <3>4. Queued' = Queued \cup {cur[s]}
      BY <3>1, <3>3, AppendElements DEF Queued, TypeInv, TypeOK
    <3>5. StagesOrder'
      BY <3>2, <3>3, <3>4 DEF OrderInv, StagesOrder, Conservation
    <3>6. QueueOrder'
      <4>1. /\ Len(pings) \in Nat /\ DOMAIN pings = 1..Len(pings)
            /\ DOMAIN pings' = 1..(Len(pings) + 1)
            /\ pings'[Len(pings) + 1] = cur[s]
            /\ \A i \in 1..Len(pings) : pings'[i] = pings[i]
        BY <3>1, <3>3, LenProperties DEF TypeInv, TypeOK
      <4>2. \A i \in 1..Len(pings) : pings[i] \in accepted
        BY <4>1 DEF Conservation, Queued, Range
      <4>3. ASSUME NEW i \in 1..(Len(pings) + 1), NEW j \in 1..(Len(pings) + 1), i < j
            PROVE  Older(pings'[i], pings'[j])
        <5>1. i \in 1..Len(pings) /\ (j \in 1..Len(pings) \/ j = Len(pings) + 1)
          BY <4>1, <4>3
        <5> QED
          BY <3>2, <4>1, <4>2, <4>3, <5>1 DEF OrderInv, QueueOrder
      <4> QED
        BY <4>1, <4>3 DEF QueueOrder
    <3>7. AheadFew' /\ Placed' /\ BehindFew'
      BY <3>3 DEF OrderInv, AheadFew, Ahead, Placed, BehindFew, Behind, Few
    <3> QED
      BY <3>5, <3>6, <3>7 DEF OrderInv
  <2>2. CASE Push(s) /\ ~HasRoom
    BY <1>u, <2>2 DEF Push
  <2>3. CASE ~Push(s)
    BY <1>1, <1>u, <2>3 DEF Handler, OpenStream, RecvFirst, RecvNext, RecvPing, Register, EndStream
  <2> QED
    BY <2>1, <2>2, <2>3
<1>2. ASSUME NEW w \in Workers, Worker(w)
      PROVE  OrderInv'
  <2>1. CASE Take(w)
    <3> DEFINE n == Len(pings)
    <3>0. PICK p : p = Head(pings)
      OBVIOUS
    <3>1. /\ pings \in Seq(Ping) /\ pings # <<>> /\ wping[w] = None
          /\ wping' = [wping EXCEPT ![w] = p] /\ pings' = Tail(pings)
          /\ UNCHANGED <<Settled, failed, partition>>
      BY <2>1, <3>0 DEF Take, TypeInv, TypeOK, Settled
    <3>2. /\ n \in Nat \ {0} /\ DOMAIN pings = 1..n /\ p = pings[1]
          /\ DOMAIN pings' = 1..(n - 1) /\ \A i \in 1..(n - 1) : pings'[i] = pings[i + 1]
      BY <3>0, <3>1, EmptySeq, LenProperties
    <3>3. p \in Ping /\ p \in Queued /\ Queued = Queued' \cup {p}
      BY <3>0, <3>1, TailElements DEF Queued
    <3>4. InHand' = InHand \cup {p}
      BY <3>1, <3>3, HandTakes DEF TypeInv
    <3>5. \A i \in 1..(n - 1) : i + 1 \in 1..n /\ 1 < i + 1
      BY <3>2
    <3>6. \A q \in Queued' : Older(p, q)
      <4>1. \A i \in 1..(n - 1) : Older(p, pings'[i])
        BY <3>2, <3>5 DEF OrderInv, QueueOrder
      <4> QED
        BY <3>2, <4>1 DEF Queued, Range
    <3>7. StagesOrder'
      BY <3>1, <3>3, <3>4, <3>6 DEF OrderInv, StagesOrder
    <3>8. QueueOrder'
      <4>1. ASSUME NEW i \in 1..(n - 1), NEW j \in 1..(n - 1), i < j
            PROVE  Older(pings'[i], pings'[j])
        <5>1. i + 1 < j + 1
          BY <4>1
        <5> QED
          BY <3>2, <3>5, <5>1 DEF OrderInv, QueueOrder
      <4> QED
        BY <3>2, <4>1 DEF QueueOrder
    <3>9. p.n \in Nat /\ \A r \in InHand \cup Settled : ~Earlier(p, r)
      <4>1. p.n \in Nat
        BY <3>3, ConstantsAssumption DEF Ping
      <4>2. ASSUME NEW r \in InHand \cup Settled
            PROVE  ~Earlier(p, r)
        <5>1. r.n \in Nat
          BY TakenIsPing DEF TypeInv
        <5>2. Older(r, p)
          BY <3>3 DEF OrderInv, StagesOrder
        <5> QED
          BY <4>1, <5>1, <5>2 DEF Older, Earlier
      <4> QED
        BY <4>1, <4>2
    <3>10. ASSUME NEW r \in InHand \cup Settled
           PROVE  Few(Ahead(r)')
      <4>1. Ahead(r)' = Ahead(r)
        BY <3>4, <3>9 DEF Ahead
      <4> QED
        BY <4>1 DEF OrderInv, AheadFew
    <3>11. Few(Ahead(p)')
      <4>1. Ahead(p)' \subseteq InHand
        BY <3>4, <3>9 DEF Ahead, Earlier
      <4>2. InHand \subseteq {wping[u] : u \in Workers \ {w}}
        BY <3>1 DEF InHand
      <4> QED
        BY <4>1, <4>2, OtherHands DEF TypeInv
    <3>12. AheadFew'
      BY <3>1, <3>4, <3>10, <3>11 DEF AheadFew, Few
    <3>13. ASSUME NEW v \in Vehicles, NEW i \in DOMAIN partition[v]
           PROVE  Few(Behind(v, i)')
      <4>1. partition[v][i] \in InHand \cup Settled
        BY EntryStored DEF Conservation, TypeInv
      <4>2. Behind(v, i)' \subseteq Behind(v, i)
        BY <3>1, <3>4, <3>9, <4>1 DEF Behind
      <4>3. Few(Behind(v, i))
        BY <3>13 DEF OrderInv, BehindFew
      <4> QED
        BY <4>2, <4>3, FewLeft
    <3>14. BehindFew' /\ Placed'
      BY <3>1, <3>13 DEF OrderInv, BehindFew, Placed, Few
    <3> QED
      BY <3>7, <3>8, <3>12, <3>14 DEF OrderInv
  <2>2. CASE StartDrain(w) \/ Exit(w)
    BY <1>u, <2>2 DEF StartDrain, Exit
  <2>3. CASE PublishOK(w) \/ PublishError(w)
    <3>1. /\ wping[w] \in InHand /\ InHand' = InHand \ {wping[w]}
          /\ Settled' = Settled \cup {wping[w]} /\ UNCHANGED <<pings, partition>>
      BY <2>3, SettleStep
    <3>2. failed \subseteq failed'
      BY <2>3 DEF PublishOK, PublishError, FailPublish
    <3> QED
      BY <3>1, <3>2, ShrinkingKeepsOrder
  <2> QED
    BY <1>2, <2>1, <2>2, <2>3 DEF Worker
<1>3. CASE MainLoop
  BY <1>3, <1>u DEF MainLoop, Signal, StoppedGracefully, ForceStop, AwaitWorkers, Close, Main
<1>4. CASE Exited \/ UNCHANGED vars
  BY <1>4, <1>u DEF Exited, vars
<1>5. ASSUME NEW p \in InHand \cup Settled, Land(p)
      PROVE  OrderInv'
  BY <1>5, LandKeepsOrder
<1> QED
  BY <1>1, <1>2, <1>3, <1>4, <1>5 DEF Next

LEMMA FewOvertaken == OrderInv => OvertakesFew
<1> SUFFICES ASSUME OrderInv, NEW v \in Vehicles, NEW i \in DOMAIN partition[v]
             PROVE  Cardinality(Overtaken(v, i)) < Cardinality(Workers)
  BY DEF OvertakesFew
<1>1. Few(Behind(v, i))
  BY DEF OrderInv, BehindFew
<1>2. Overtaken(v, i) \subseteq Behind(v, i)
  BY DEF Behind, Overtaken, Earlier
<1> QED
  BY <1>1, <1>2, FewLeft DEF Few

LEMMA OrderInductive == Spec => [](TypeInv /\ ConservationInv /\ OrderInv)
<1>1. TypeInv /\ ConservationInv /\ [Next]_vars => ConservationInv'
  BY NextFresh, NextConservation DEF ConservationInv
<1>2. TypeInv /\ ConservationInv /\ OrderInv /\ [Next]_vars => OrderInv'
  BY NextOrderInv DEF ConservationInv
<1> QED
  BY <1>1, <1>2, InitTypeInv, NextTypeInv, InitConservationInv, InitOrderInv, PTL DEF Spec

\* However many workers take the pings of a stream, however full the channel is and
\* however the writes are batched, retried and stored late, fewer earlier pings than
\* there are workers are stored for the first time after a stored ping, those given up
\* as failed left out.
THEOREM OvertakingBounded == Spec => []OvertakesFew
BY OrderInductive, FewOvertaken, PTL

\* Once a ping is stored, every earlier ping of its stream that is stored and was not
\* given up as failed was stored before it.
FirstCopiesInOrder ==
  \A v \in Vehicles : \A i \in DOMAIN partition[v] : \A q \in Range(partition[v]) \ failed :
    Earlier(q, partition[v][i]) => \E k \in 1..i : partition[v][k] = q

\* With one worker the first copies of a stream's pings are in the order of the stream,
\* whatever the channel's capacity and however the writes are retried and stored late,
\* those given up as failed left out.
THEOREM SingleWorkerOrder ==
  ASSUME NEW CONSTANT single, Workers = {single}
  PROVE  Spec => []FirstCopiesInOrder
<1>1. OrderInv => FirstCopiesInOrder
  <2> SUFFICES ASSUME OrderInv, NEW v \in Vehicles, NEW i \in DOMAIN partition[v]
               PROVE  Behind(v, i) = {}
    BY DEF FirstCopiesInOrder, Behind
  <2>1. Cardinality(Workers) = 1
    BY FS_Singleton
  <2>2. IsFiniteSet(Behind(v, i)) /\ Cardinality(Behind(v, i)) < 1
    BY <2>1 DEF OrderInv, BehindFew, Few
  <2>3. Cardinality(Behind(v, i)) \in Nat
    BY <2>2, FS_CardinalityType
  <2>4. Cardinality(Behind(v, i)) = 0
    BY <2>2, <2>3
  <2> QED
    BY <2>2, <2>4, FS_EmptySet
<1> QED
  BY <1>1, OrderInductive, PTL
=============================================================================
