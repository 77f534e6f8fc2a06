----------------------------- MODULE Ingestion -----------------------------
(***************************************************************************)
(* The ingestion service (services/ingestion): one gRPC handler goroutine  *)
(* per telemetry stream, the session store the handlers share, the bounded *)
(* channel between the handlers and the worker pool, the workers, the      *)
(* synchronous Kafka writer and the shutdown sequence of main.             *)
(*                                                                         *)
(* A ping is named by the stream it arrived on and its position there; of  *)
(* its payload only what the code looks at is kept (its vehicle, and which *)
(* of the three kinds below its coordinates make it).  The rate limiter is *)
(* a component of its own: here it may give any answer.                    *)
(***************************************************************************)
EXTENDS Naturals, Sequences, FiniteSets, Functions

CONSTANTS
  Streams,    \* telemetry streams that vehicles may open
  Vehicles,   \* vehicle ids
  Workers,    \* goroutines of the worker pool
  ChanCap,    \* capacity of the pings channel, 100 in the code
  MaxPings,   \* bound: pings a vehicle sends on one stream
  MaxCopies,  \* bound: times the attempts of one Kafka write store the ping
  Kinds,      \* kinds of ping the vehicles send, a subset of PingKinds
  None        \* no stream, no vehicle, no ping

\* "good": every field in range; "invalid": a check of validatePing fails;
\* "nan": a coordinate is NaN, every other field in range.
PingKinds == {"good", "invalid", "nan"}

Ping == [stream : Streams, n : 1..MaxPings, veh : Vehicles, kind : Kinds]

ASSUME ConstantsAssumption ==
  /\ IsFiniteSet(Workers) /\ Workers # {}
  /\ ChanCap \in Nat \ {0}
  /\ MaxPings \in Nat
  /\ MaxCopies \in Nat \ {0}
  /\ Kinds \subseteq PingKinds
  /\ None \notin Streams \cup Vehicles \cup Ping

VARIABLES
  hpc,        \* where the handler of each stream is
  cur,        \* the ping each handler is admitting
  vid,        \* vehicleID of each handler: the vehicle of its first ping
  recvd,      \* pings each handler has received
  sessions,   \* the session store: the stream kept under each vehicle
  pings,      \* the channel
  wpc,        \* where each worker is
  wping,      \* the ping each worker is publishing
  partition,  \* Kafka: what the topic holds for each key, in order
  published,  \* pings whose Publish returned nil
  failed,     \* pings whose Publish returned an error
  mpc,        \* where main is
  accepted,   \* history: pings answered OK
  late        \* history: pings answered OK after the last worker had exited

handlerVars == <<hpc, cur, vid, recvd, sessions>>
workerVars  == <<wpc, wping, partition, published, failed>>
vars == <<handlerVars, pings, workerVars, mpc, accepted, late>>

Queued  == Range(pings)
InHand  == {wping[w] : w \in Workers} \ {None}
Settled == published \cup failed
Stored  == UNION {Range(partition[v]) : v \in Vehicles}

WorkersExited == \A w \in Workers : wpc[w] = "exited"

\* cancel() is the first thing main does once it is signalled.
CtxDone == mpc # "serving"

\* Goroutines run until main returns.
Running == mpc # "exited"

\* A comparison with NaN is false, so a NaN coordinate fails no range check.
validatePing(p) == p.kind # "invalid"

\* encoding/json has no representation of NaN: Marshal returns an error.
Marshals(p) == p.kind # "nan"

Init ==
  /\ hpc = [s \in Streams |-> "none"]
  /\ cur = [s \in Streams |-> None]
  /\ vid = [s \in Streams |-> None]
  /\ recvd = [s \in Streams |-> 0]
  /\ sessions = [v \in Vehicles |-> None]
  /\ pings = <<>>
  /\ wpc = [w \in Workers |-> "select"]
  /\ wping = [w \in Workers |-> None]
  /\ partition = [v \in Vehicles |-> <<>>]
  /\ published = {}
  /\ failed = {}
  /\ mpc = "serving"
  /\ accepted = {}
  /\ late = {}

----------------------------------------------------------------------------
(* The session store: Add replaces whatever entry the vehicle has, Remove  *)
(* deletes it without looking whose it is.                                 *)

AddSession_Dropped(v, s) == sessions
AddSession(v, s) == [sessions EXCEPT ![v] = s]

RemoveSession_Forgotten(v) == sessions
RemoveSession(v) == [sessions EXCEPT ![v] = None]

----------------------------------------------------------------------------
(* The handler: StreamTelemetry.  "first" and "recv" are the two calls of  *)
(* Recv, "register" and "push" what is left to do for an admitted ping.    *)

\* A vehicle opens a stream.  GracefulStop runs in a goroutine of its own and
\* the streams under way when it warns the clients are still served.
OpenStream(s) ==
  /\ mpc \in {"serving", "stopping"}
  /\ hpc[s] = "none"
  /\ hpc' = [hpc EXCEPT ![s] = "first"]
  /\ UNCHANGED <<cur, vid, recvd, sessions, pings, workerVars, mpc, accepted, late>>

\* Recv returns a ping.  It is admitted when it is valid and the rate limiter
\* allows it or fails; else it is answered INVALID or RATE_LIMITED.
RecvPing(s, from, admit, reject) ==
  /\ Running
  /\ hpc[s] = from
  /\ recvd[s] < MaxPings
  /\ recvd' = [recvd EXCEPT ![s] = @ + 1]
  /\ \E v \in Vehicles, k \in Kinds, allowed \in BOOLEAN :
       LET p == [stream |-> s, n |-> recvd[s] + 1, veh |-> v, kind |-> k]
       IN  IF validatePing(p) /\ allowed
             THEN /\ hpc' = [hpc EXCEPT ![s] = admit]
                  /\ cur' = [cur EXCEPT ![s] = p]
             ELSE /\ hpc' = [hpc EXCEPT ![s] = reject]
                  /\ cur' = cur
  /\ UNCHANGED <<vid, sessions, pings, workerVars, mpc, accepted, late>>

\* The refusal of the first ping ends the stream.
RecvFirst(s) == RecvPing(s, "first", "register", "returned")

\* A later ping may name any vehicle: it is not compared with the session's.
RecvNext(s) == RecvPing(s, "recv", "push", "recv")

Register(s) ==
  /\ Running
  /\ hpc[s] = "register"
  /\ hpc' = [hpc EXCEPT ![s] = "push"]
  /\ vid' = [vid EXCEPT ![s] = cur[s].veh]
  /\ sessions' = AddSession(cur[s].veh, s)
  /\ UNCHANGED <<cur, recvd, pings, workerVars, mpc, accepted, late>>

\* What the non-blocking send of p does: p is stored and answered OK when the
\* channel has room, else it is answered RATE_LIMITED.
HasRoom_OffByOne == Len(pings) <= ChanCap
HasRoom == Len(pings) < ChanCap

AnsweredOK_Always(p) == {p}
AnsweredOK(p) == IF HasRoom THEN {p} ELSE {}

Push(s) ==
  /\ Running
  /\ hpc[s] = "push"
  /\ hpc' = [hpc EXCEPT ![s] = "recv"]
  /\ cur' = [cur EXCEPT ![s] = None]
  /\ pings' = IF HasRoom THEN Append(pings, cur[s]) ELSE pings
  /\ accepted' = accepted \cup AnsweredOK(cur[s])
  /\ late' = IF WorkersExited THEN late \cup AnsweredOK(cur[s]) ELSE late
  /\ UNCHANGED <<vid, recvd, sessions, workerVars, mpc>>

\* Recv returns io.EOF or an error: the client closed or lost the stream, or
\* grpcServer.Stop broke it.  The deferred Remove runs once there is a session.
EndStream(s) ==
  /\ Running
  /\ hpc[s] \in {"first", "recv"}
  /\ hpc' = [hpc EXCEPT ![s] = "returned"]
  /\ sessions' = IF hpc[s] = "recv" THEN RemoveSession(vid[s]) ELSE sessions
  /\ UNCHANGED <<cur, vid, recvd, pings, workerVars, mpc, accepted, late>>

----------------------------------------------------------------------------
(* A worker: Pool.run.  With the context cancelled and the channel not     *)
(* empty both cases of the outer select are ready and either may be taken. *)

\* Either receive, of the outer select or of the drain loop.
Take(w) ==
  /\ wpc[w] \in {"select", "drain"}
  /\ wping[w] = None
  /\ pings # <<>>
  /\ wping' = [wping EXCEPT ![w] = Head(pings)]
  /\ pings' = Tail(pings)
  /\ UNCHANGED <<handlerVars, wpc, partition, published, failed, mpc, accepted, late>>

\* The outer select takes ctx.Done().
StartDrain(w) ==
  /\ wpc[w] = "select"
  /\ wping[w] = None
  /\ CtxDone
  /\ wpc' = [wpc EXCEPT ![w] = "drain"]
  /\ UNCHANGED <<handlerVars, pings, wping, partition, published, failed, mpc, accepted, late>>

\* The drain loop leaves only through its default case.
NothingToDrain_Unchecked == TRUE
NothingToDrain == pings = <<>>

Exit(w) ==
  /\ wpc[w] = "drain"
  /\ wping[w] = None
  /\ NothingToDrain
  /\ wpc' = [wpc EXCEPT ![w] = "exited"]
  /\ UNCHANGED <<handlerVars, pings, wping, partition, published, failed, mpc, accepted, late>>

\* The broker stores p, as one attempt of its write asked.  The writer gathers the pings
\* of several workers in a batch and retries the batch as a whole, and an attempt it gave
\* up waiting for may be stored after WriteMessages, or main, has returned.
Land(p) ==
  /\ p \in InHand \cup Settled
  /\ Marshals(p)
  /\ Cardinality({i \in DOMAIN partition[p.veh] : partition[p.veh][i] = p}) < MaxCopies
  /\ partition' = [partition EXCEPT ![p.veh] = Append(@, p)]
  /\ UNCHANGED <<handlerVars, pings, wpc, wping, published, failed, mpc, accepted, late>>

\* WriteMessages returns nil once the replicas hold the ping (RequireAll, not Async).
Written_Async(p) == TRUE
Written(p) == p \in Stored

PublishOK(w) ==
  /\ wping[w] # None
  /\ Marshals(wping[w])
  /\ Written(wping[w])
  /\ published' = published \cup {wping[w]}
  /\ wping' = [wping EXCEPT ![w] = None]
  /\ UNCHANGED <<handlerVars, pings, wpc, partition, failed, mpc, accepted, late>>

\* Marshal or WriteMessages returned an error: the ping is logged, counted and
\* dropped.  A write that failed may be stored all the same, before or afterwards.
FailPublish(w) ==
  /\ wping[w] # None
  /\ failed' = failed \cup {wping[w]}
  /\ wping' = [wping EXCEPT ![w] = None]

PublishError_Requeues(w) ==
  /\ FailPublish(w)
  /\ pings' = Append(pings, wping[w])
  /\ UNCHANGED <<handlerVars, wpc, partition, published, mpc, accepted, late>>

PublishError(w) ==
  /\ FailPublish(w)
  /\ UNCHANGED <<handlerVars, pings, wpc, partition, published, mpc, accepted, late>>

----------------------------------------------------------------------------
(* main: a signal cancels the context, GracefulStop takes five seconds at  *)
(* most, then Wait, Close, return.                                         *)

Main(from, to) ==
  /\ mpc = from
  /\ mpc' = to
  /\ UNCHANGED <<handlerVars, pings, workerVars, accepted, late>>

Signal == Main("serving", "stopping")

\* Every handler has returned: "server stopped gracefully".
StoppedGracefully ==
  /\ \A s \in Streams : hpc[s] \in {"none", "returned"}
  /\ Main("stopping", "waiting")

\* Five seconds have passed: Stop breaks the streams and waits for no handler.
ForceStop_Never == FALSE
ForceStop == Main("stopping", "waiting")

AwaitWorkers_Skipped == Main("waiting", "closing")
AwaitWorkers ==
  /\ WorkersExited
  /\ Main("waiting", "closing")

\* The writer is closed and main returns, which ends every goroutine.
Close == Main("closing", "exited")

Exited ==
  /\ mpc = "exited"
  /\ UNCHANGED vars

----------------------------------------------------------------------------
Handler(s) == OpenStream(s) \/ RecvFirst(s) \/ RecvNext(s) \/ Register(s) \/ Push(s) \/ EndStream(s)

Worker(w) == Take(w) \/ StartDrain(w) \/ Exit(w) \/ PublishOK(w) \/ PublishError(w)

MainLoop == Signal \/ StoppedGracefully \/ ForceStop \/ AwaitWorkers \/ Close

Next ==
  \/ \E s \in Streams : Handler(s)
  \/ \E w \in Workers : Worker(w)
  \/ \E p \in InHand \cup Settled : Land(p)
  \/ MainLoop
  \/ Exited

Spec == Init /\ [][Next]_vars

\* Goroutines that can run are scheduled, WriteMessages returns (the writer bounds
\* every attempt), and main's timer fires.  Clients and the operator owe nothing:
\* no stream has to send or to end, and no signal has to come.
Fairness ==
  /\ \A w \in Workers : WF_vars(Worker(w))
  /\ \A s \in Streams : WF_vars(Register(s) \/ Push(s))
  /\ WF_vars(StoppedGracefully \/ ForceStop \/ AwaitWorkers \/ Close)

FairSpec == Spec /\ Fairness

----------------------------------------------------------------------------
(* What the service promises.                                              *)

TypeOK ==
  /\ hpc \in [Streams -> {"none", "first", "recv", "register", "push", "returned"}]
  /\ cur \in [Streams -> Ping \cup {None}]
  /\ vid \in [Streams -> Vehicles \cup {None}]
  /\ recvd \in [Streams -> 0..MaxPings]
  /\ sessions \in [Vehicles -> Streams \cup {None}]
  /\ pings \in Seq(Ping) /\ Len(pings) <= ChanCap
  /\ wpc \in [Workers -> {"select", "drain", "exited"}]
  /\ wping \in [Workers -> Ping \cup {None}]
  /\ partition \in [Vehicles -> Seq(Ping)]
  /\ published \subseteq Ping
  /\ failed \subseteq Ping
  /\ mpc \in {"serving", "stopping", "waiting", "closing", "exited"}
  /\ accepted \subseteq Ping
  /\ late \subseteq accepted

\* The pings answered OK are exactly those in the channel, in a worker's hands or
\* done with, and each is in one of these places only: none is lost between the
\* send and the write, none is published by two workers, none is acknowledged and
\* dropped.  Kafka holds every ping whose write was reported as done, and none that is
\* still queued (the non-blocking send of StreamTelemetry, Pool.run, Pool.process).
Conservation ==
  /\ IsInjective(pings)
  /\ \A w1, w2 \in Workers : w1 # w2 /\ wping[w1] # None => wping[w1] # wping[w2]
  /\ Queued \cap InHand = {}
  /\ (Queued \cup InHand) \cap Settled = {}
  /\ published \cap failed = {}
  /\ accepted = Queued \cup InHand \cup Settled
  /\ published \subseteq Stored
  /\ Stored \subseteq InHand \cup Settled

\* The session store keeps no session of a handler that has returned: whatever
\* order two streams of one vehicle register and end in, an entry is that of a
\* handler still running for this vehicle (Store.Add and the deferred Remove).
SessionEntryLive ==
  \A v \in Vehicles, s \in Streams :
    sessions[v] = s => hpc[s] \in {"push", "recv"} /\ vid[s] = v

\* A handler that runs is found in the store, unless another stream of its vehicle
\* registered too, after it or before (only then may Add or Remove hit its entry).
SoleStreamRegistered ==
  \A s \in Streams :
    hpc[s] \in {"push", "recv"} =>
      \/ sessions[vid[s]] = s
      \/ \E r \in Streams \ {s} : vid[r] = vid[s]

\* What the drain of Pool.run does guarantee: once every worker has exited, the
\* pings left in the channel are those sent after the last exit.
LostOnlyIfLate == WorkersExited => Queued \subseteq late

\* The Kafka writer is closed only when no worker can use it any more: every worker
\* has exited and holds no ping (main calls Wait before Close).
WriterClosedLast ==
  mpc \in {"closing", "exited"} => \A w \in Workers : wpc[w] = "exited" /\ wping[w] = None

\* The pings sent before the entry i of v that are stored for the first time after it,
\* those given up as failed left out: nothing bounds when, or whether, these are stored.
Overtaken(v, i) ==
  {q \in Range(partition[v]) \ failed :
     /\ q.stream = partition[v][i].stream
     /\ q.n < partition[v][i].n
     /\ \A k \in 1..i : partition[v][k] # q}

\* A ping overtakes fewer pings of its stream than there are workers, however long the
\* stream is and however the writes are batched and retried: of the earlier ones only
\* those other workers hold can be stored for the first time after it.  With one worker
\* the first copies are in order.  It is the synchronous writer that keeps this bound.
OvertakesFew ==
  \A v \in Vehicles : \A i \in DOMAIN partition[v] : Cardinality(Overtaken(v, i)) < Cardinality(Workers)

HasNth(set, s, n) == \E p \in set : p.stream = s /\ p.n = n

\* A ping answered OK while a worker lives is published or given up as failed (the stream
\* and its place there name a ping).
AcceptedIsSettled ==
  \A s \in Streams, n \in 1..MaxPings : HasNth(accepted \ late, s, n) ~> HasNth(Settled, s, n)

\* Once signalled the service exits, even when no client ever ends its stream.
ShutdownCompletes == (mpc = "stopping") ~> (mpc = "exited")

\* The service relays a bounded number of pings: those it holds never exceed the
\* channel and the workers' hands, and it settles each ping it accepted once.
Relay == INSTANCE PingRelay WITH
  Capacity <- ChanCap + Cardinality(Workers),
  pending  <- Queued \cup InHand,
  topic    <- Stored

RelaySpec == Relay!Spec
=============================================================================
