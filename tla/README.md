# GridFlow: formal models and proofs

GridFlow tracks vehicles. Vehicles stream pings over gRPC to the **ingestion**
service, which writes them to the Kafka topic `vehicle.telemetry`; the instances of
the **optimizer** service consume that topic, elect a leader through etcd, and the
leader keeps the state of the vehicles, a geo index in Redis, and publishes
anomalies to `anomaly.detected`. The **auth** service registers users and issues
tokens over two PostgreSQL tables. This directory models the concurrent core of
these services in TLA+, checks small instances with TLC and proves the main results
for every instance with TLAPS.

The reference is always the code; where the documents or comments say something
else, a run shows the difference ("Where code and documents disagree" below).

## 1. Inventory

| Component | State | Operations | Hard because | Correct when |
|---|---|---|---|---|
| Ingestion server (`ingestion_server.go`) | one handler per stream; channel of 100 pings | `StreamTelemetry`: receive, validate, rate-limit, register, non-blocking send, answer | handlers, workers and shutdown interleave; full channel | answered OK = in the channel, in a worker's hands or settled |
| Session store (`session_store.go`) | map vehicle to session | `Add`, `Remove`, `Get` (unused) | two streams of one vehicle | no dead session stays; a sole stream is found |
| Worker pool (`pool.go`) | 10 goroutines | `run`, drain on cancel, `process`, `Wait` | drain races the senders; several workers, one stream | nothing acknowledged in time is lost |
| Telemetry publisher (`publisher/kafka.go`) | writer | `Publish`, `Close` | failed writes may be stored, perhaps later; retries duplicate | writer closed after the last worker |
| Rate limiter (`rate_limiter.go`) | sorted set per vehicle in Redis | `Allow` (one Lua script) | clocks of callers, resent scripts, fail-open | at most N in any window; no refusal below N, but for a ping's own earlier entry |
| Election (`leader.go`, `election.go`, `cmd/main.go`) | session, key, candidate revision per instance | `LeaderLoop`, `Campaign`, `Resign`, `Close` | lease expiry unseen by its owner, lost answers, crash, shutdown that waits for no optimizer | one leader with a live lease, beside those that finish because they were told to stop; no service without leader |
| Consumer (`consumer.go`) | message in flight | `Start`, `Ack`, `Close` | rebalance, crash, redelivery, unparsable message | at least once, in order, one at a time |
| Optimizer loop (`optimizer.go`) | message in hand per leadership | `Start` | loop of an ended leadership beside the next | messages are checked, then acked |
| Detector (`detector.go`, `state_store.go`) | state of each vehicle | `Check`, silence detector | snapshot, publish without lock, mark; sweeps of any length | each silence reported, once, unless a sweep outlasts it; limits exact |
| Geo store (`geo_store.go`) | geo index and one expiring key per vehicle | `UpsertVehicle`, `FindNearby`, `StartPruner` | two keys, not atomic; ignored errors; several pruners | a vehicle seen lately is in the index unless a removal raced with it; one that is gone leaves it |
| Auth service (`services/auth`) | tables `users`, `refresh_tokens` | register, login, refresh | queries of concurrent requests interleave, no transaction | registered users can log in; dead tokens buy nothing |
| JWT middleware and cache (`shared/middleware/jwt.go`, `shared/cache`) | claims per token hash in Redis | verify, `Get`, `Set` | expiry versus cached copy | no expired token accepted, no valid one refused |
| Configuration, logging, migrations, health, generated code, infrastructure | – | – | – | not modelled: read-once or pure I/O |

How they interact: handler → channel → worker → Kafka → consumer goroutine → channel
→ loop of the current leadership → detector (shared state, one mutex) and geo store;
`Ack` goes back from the loop to the consumer goroutine as a callback; the election
starts loops and cancels them through a context; `main` of each service cancels,
waits and closes in an order of its own. The hazards of `PROJECT.json` list where
each of these may go wrong.

## 2. Plan

Done, in the order of importance:

1. `Ingestion` (with the abstract `PingRelay`) and `IngestionProofs`
2. `LeaderElection` (with the abstract `LeaseLock`) and `LeaderElectionProofs`, with the
   bound on the keys and the refinement
3. `Detector` and `DetectorProofs`, with what must be raised
4. `PingDelivery` (with the abstract `PartitionLog`) and `PingDeliveryProofs`, with
   the refinement
5. `Auth` and `AuthProofs`
6. `GeoStore` and `GeoStoreProofs`
7. `RateLimiter` and `RateLimiterProofs`
8. `JwtCache` and `JwtCacheProofs`

What could follow: a composition of `LeaderElection` with `PingDelivery`, where the
leadership of an instance is that of the election. `PingDelivery` lets an instance win
and lose leadership at any step, which allows all that the election does and more, so
its safety results hold in the composition; only `LedPartitionsDrain` could be
stated for an elected leader.

## 3. The modules

Every module declares its parameters as CONSTANTS, has one action per step that
other goroutines can observe, and names its bounds. A step is atomic when the code
holds a lock, runs one query or one channel operation; everything between is a
separate action. History variables (marked so) record what the properties speak of
and no guard reads them. Operators with a suffix after an underscore
(`HasRoom_OffByOne`) are plausible faults of the operator they name; the
specification never uses them, they serve to see that each property can fail.

### `Ingestion`, `PingRelay`

| State | Code |
|---|---|
| `hpc`, `cur`, `vid`, `recvd` | a goroutine of `StreamTelemetry`: where it is, its ping, `vehicleID`, how much it received |
| `sessions` | `Store.sessions` |
| `pings` | the channel of `IngestionServer` |
| `wpc`, `wping` | a worker: in the outer select, in the drain loop, or gone; the ping in `process` |
| `partition` | what the topic holds for a key |
| `published`, `failed` | pings whose `Publish` returned nil, or an error |
| `mpc` | `main` from serving to exit |
| `accepted`, `late` | history: pings answered OK; those answered when no worker was left |

Actions follow `StreamTelemetry` (`OpenStream`, `RecvFirst`, `RecvNext`, `Register`,
`Push`, `EndStream`), `Pool.run` (`Take`, `StartDrain`, `Exit`), `Publish`
(`PublishOK`, `PublishError`) and `main` (`Signal`, `StoppedGracefully` or `ForceStop`,
`AwaitWorkers`, `Close`). The writer puts the pings of several workers in one batch,
sends a batch again as a whole, and gives up on an answer that the broker may still be
about to earn: so the broker stores a copy of a ping at any time after its write was
begun, before or after the return and between those of other pings (`Land`), up to
`MaxCopies` of each. Only a write that returned nil is known to be stored. The rate
limiter answers anything. `PingRelay` is what the service promises without its
mechanism: it holds at most a bounded number of pings, settles each accepted ping once,
as published or failed, and puts into the topic only what it accepted; `Ingestion` maps
its channel and its workers' hands to `pending`, and the pings that the partitions hold
to `topic`.

### `LeaderElection`, `LeaseLock`

`lpc` and `mpc` are `LeaderLoop` and `main` of each instance, `lease`, `present`,
`crev`, `rev` what etcd holds, `done` the channel of `SessionDone`, `myRev` and
`held` the fields of `concurrency.Election`; `running` says whether a goroutine that
`Optimizer.Start` began has not returned. Nothing waits for that goroutine: `LeaderLoop`
cancels its context and campaigns again, `main` cancels, resigns and closes, and it may
still be in a message (`OptimizerReturns` comes at any later step) when the key is gone
and another instance leads. The library is modelled from its use:
a campaign puts a key in a transaction that needs the lease, waits until no key has
an older create revision, and does not look at its own key again; `Resign` deletes
the key of its own revision. An instance has one session, as `NewElection` creates
only one. A process may die at any step; its lease then expires. `LeaseLock` is what the
election promises: a queue of numbered places, in which one leads only when all with a
lower number have left. Who leads no more may be finishing its work; it keeps its place
meanwhile, and gives it up, finished or not, only when it was told to end or its lease is
gone. The number is the create revision of the key (`ticket`, `last`); `leaders` are the
instances whose optimizer has a context that is not cancelled and whose lease lives,
`finishing` those with a lease whose optimizer runs on without such a context, `ending`
those whose `main` has cancelled. One that lost its lease and has not learnt of it works
outside the lock. `SoleLeader` speaks of the optimizers that run: two do so at once only
if one has lost its lease or was told to stop by its own `main`.

### `Detector`

`lastPings`, `lastRoute`, `age`, `fired` are `VehicleState` (`age` is now minus
`LastSeen`, capped just above the silence); `check` is the `Check` that each loop is
in, with what it has still to publish; `spc`, `events`, `acked`, `sweepAge` are the
silence detector of each leadership between its snapshot and its end; nothing bounds how
long a sweep takes (`sweepAge` is capped just above the silence), and `late` records the
vehicles that a sweep older than a silence marked. `way` records the last three pings
of the vehicle that each loop checked. `CheckState`
is what `Check` does under the lock, `Sweep` what the detector does under the read
lock, `PublishLost` and `MarkFired` a publication and the mark after it, under
separate locks. `Terms` are the leaderships of one process: each brings a detector
and a loop, and those of an ended one may still be at work. Positions are points of
a line, so that `haversineDistance` is a difference.

### `PingDelivery`, `PartitionLog`

`cpc`, `inflight`, `acks` are the goroutine of `Consumer.Start`, the message that it
fetched and the calls of its `Ack`; `channel` the channel of 100; `lpc`, `lmsg` the
loop of each leadership (`Optimizer.Start`) and its message; `owner`, `position`,
`committed` the consumer group as the code uses it. A new generation of the group
(`Assign`) may give a partition to another instance, or to the same one again, whose
reader then starts over from the committed offset with a message still unacked. A commit may
fail, and sets the offset whatever it was (so a late commit moves it back). A process stops or dies at
any step. Followers consume too, and hold their first message until they lead.
`PartitionLog` is the promise without instances, leaderships, rebalances and channel:
each partition is worked through from its first ping, again from an earlier one when
need be, and an offset is committed only when all that it covers is done;
`PingDelivery` maps `checked` to `handled`.

### `Auth`

`users` and `rows` are the two tables, `pc` the query each handler makes next,
`req` and `read` its request and the row that it read. Each query is one step, may
fail before it has an effect (`Fail`) and may succeed with its answer lost. A
refresh is four queries with no transaction. Hashing is injective and left out;
`Expire` is the passing of `expires_at`.

### `GeoStore`

| State | Code |
|---|---|
| `index`, `key` | the geo index, and the time that the key of each vehicle has left, in Redis |
| `upsert` | the vehicle between the two calls of `UpsertVehicle` in an optimizer loop |
| `running`, `todo`, `doomed` | the goroutine of `StartPruner`: whether it lives, the rest of the list that its search returned, the vehicle between EXISTS and ZREM |
| `clouded` | history: vehicles whose upsert overlapped with a removal, or whose look-up failed |

Each call to Redis is a step; it may fail, with its effect (`GeoAddError`) or without.
A call that takes effect
only after the client gave up on it is not in the model. The error of EXISTS is dropped by
the code and reads 0 (`ExistsError`). A place is one
of three kinds: most, the antipode of 0,0 which a search of 20000 km does not reach,
and the polar latitudes that GEOADD refuses. Loops and pruners of several leaderships
run at once.

### `RateLimiter`

`score` and `expireAt` are the sorted set of one vehicle and the end of its key;
`stamp` and `uuid` what `Allow` computed before it called Redis. The script is one
step (`Admit` or `Refuse`: purge, count, then add or not), but calls reach Redis in
any order, and one whose answer was lost runs again with the same arguments
(`AnswerLost`); such a call may find its own entry, and be refused for it. A ping that the
handler lets pass because the call failed is not in the set and is not counted (`EvalError`;
`Ingestion` lets the limiter answer anything). Time is that of Redis; `Skew` is how far the time that a call carries
is from it when its script runs.

### `JwtCache`

`now` is the time of Redis, `exp` and `until` the end of each token and of its cached
claims; `pc`, `token`, `ttl`, `sendBy` are the calls of `JWTMiddleware` in each
request: `Get`, `ParseWithClaims`, `time.Until`, `Set`. Every reading of a clock is a
choice within `Skew` of `now`, and a SET reaches Redis within `Lag` of the reading
that its duration comes from, also when the client of Redis sends it again (each repetition
leaves the same claims, so `Lag` stands for the last of them). A cache that fails is a miss. Tokens are opaque: the
hash and the signature are taken to be injective.

## 4. What the runs check

| Run | Shows | Bounds |
|---|---|---|
| `ingestion` | acknowledged pings are conserved, the drain loses only late ones, the writer is closed last, no session is dead, or lost without another stream of its vehicle, the relay is implemented | 2 streams × 2 pings of 2 vehicles, 2 workers, channel of 1, good and invalid pings, each stored once or never, at any time |
| `ingestion_live` | a stored ping overtakes fewer of its stream than there are workers; acknowledged pings settle; shutdown ends | 1 stream × 3 pings of all kinds, 2 workers, channel of 2, up to 2 copies at any time |
| `election` | two optimizers with live leases run only while one that was told to stop finishes; the lock with a queue is implemented; keys do not pile up; a healthy instance is not left without leader; an optimizer without lease returns | 2 instances |
| `election_retry` | what a session that is lost does to the retry (below) | 1 instance |
| `detector_silence` | marked only after this silence was reported, or by a sweep older than a silence; no leadership reports one twice | 2 vehicles, 2 leaderships, sweeps of any length, a silence of 1 unit |
| `detector` | over-speed and route deviation are raised exactly when the pings call for them; a silence is reported in the end, but for such a sweep | 1 vehicle, 1 leadership, speeds 0, 120, 121, places 0, 500, 501, a silence of 1 unit |
| `delivery` | at least once, one message in flight; the log, in order, is implemented | 2 instances, 3 pings, one unparsable, 2 leaderships each, 1 assignment of a partition that has an owner, to the other or again |
| `delivery_live` | partitions of a leader drain | 1 instance, 2 partitions × 2 pings |
| `auth` | told registered = registered; held token = stored token; late refreshes are refused | 2 requests at once, 2 users, 2 passwords, 2 tokens |
| `geo` | a vehicle just seen is hidden only by a race or a failed look-up, and not for ever; one that is gone is pruned | 2 vehicles, 1 loop, 2 pruners, a key of 2 units |
| `ratelimit` | the script admits no more than the limit in a window; no refusal below it, but for a call's own earlier entry | 2 callers, 4 calls, limit 2, window 4, skew 1, 6 units of time |
| `jwt` | accepted only from issue to end, refused only after it, but for skew and lag | 2 requests, a genuine and a forged token, life 2, skew 1, lag 1, 6 units of time |

The channel of 100 pings is one place or two, since only "empty", "in between" and
"full" differ. Two of each actor make every race of two: two instances that campaign,
one leader and one behind it, two pruners beside one upsert, two calls of `Allow`. What
they show of safety is proved for any number (section 5). Times are small multiples:
a window of four units leaves room for a skew of one on either side, a key of two for a
sweep between its start and its end, and six units are longer than a window and than
the life of a token with the skews. An invalid ping leaves the state as a rate-limited one
does. A ping that cannot be encoded differs from a good one only in the worker's
hands, so only `ingestion_live` has that kind (`PingsConserved` is proved for all kinds). A silence of one unit has an age
before it, at it and beyond it, and a sweep is younger than that, as old, or older: no more
ages matter to a comparison with the silence. `ingestion_live` has one stream, longer
than the workers are many, since the order of the topic is that of each stream.
`MaxPings`, `MaxCopies`, `Length`, `MaxTerm`, `MaxMoves` (assignments of a partition that has an owner,
to another instance or to the same again), `MaxTime`, `MaxCalls` and the
finite sets of `Tokens` are the bounds of the models, named where they are declared.

Deadlock is checked everywhere but in the two delivery runs, where the model stops
when every process is dead or all pings are done, and in `ratelimit`, where it stops
when time and calls are used up.

**Fairness.** Goroutines that can run are scheduled (weak fairness of their steps).
Beyond this: an optimizer whose context is cancelled returns (its calls carry that context
or are bounded by the writer); a write to Kafka returns (the writer bounds its attempts); `main`'s
five-second timer fires; etcd does not refuse for ever an instance that keeps
asking, and a lease that nobody renews expires; the broker accepts one of infinitely
many reports of a vehicle; the reader returns a message of each partition that it
owns again and again; a select with two ready cases does not choose the same one for
ever (strong fairness of `LoopReturn`); time passes for the keys in Redis, the ticker of
a running pruner fires, and Redis does not refuse for ever the removal of a vehicle
that a pruner asks for again and again (strong fairness of `ZRem` for each vehicle).
Nobody has to send, to stop, to crash, to lead, to lose leadership, to upsert or to
start a pruner.

### Where code and documents disagree

| Run | What happens | What is said |
|---|---|---|
| `election_retry` | with its session lost an instance campaigns in vain for ever | `leader.go:28`: "campaign error, retrying" |

More follow from the modules without a run of their own (lines without a file are those
of `gridflow-epic1-3-dataflow.md`):

* A ping answered OK after the last worker left is lost at exit, where line 221
  and `pool.go:49` speak of draining what remains. `LostOnlyIfLate`
  says that only such pings are lost.
* Two refreshes at once may exchange one refresh token for two, where lines 78–79
  say "old token immediately invalidated": both read the row before either revokes
  it. What does hold is `DeadTokenRefused` (a refresh that comes after the exchange is
  refused), and that there are no more new tokens than requests at the same time
  (`ExchangesBounded`).
* Two workers may store two pings of a stream in the other order, while lines 205–208
  speak of "all pings from same vehicle ordered on same partition". How far the order is
  kept is `OvertakesFew`: a ping overtakes fewer of its stream than there are workers,
  those that were given up as failed left out.
* Zero speed is never published, although `detector.go:77` and `82` announce it ("Zero
  speed detected"): `checkZeroSpeed` answers false to everything, three pings of speed
  zero included. `SpeedAndRouteRaised` is about the two anomalies that the code does
  publish.
* A NaN coordinate fails no range check (lines 139–140), is answered OK and cannot be
  encoded: the kind "nan" of `Ingestion`.
* The loser of a race for an email gets 500 where line 48 says 409:
  `CreateUserTaken` of `Auth`.
* A failed EXISTS takes a vehicle with a live key out of the index, and it counts among
  the "stale vehicles pruned" of `geo_store.go:112`: `ExistsError` of `GeoStore`.
* A vehicle near the antipode of 0,0 is pruned by nobody, and one beyond 85.05 degrees of
  latitude, which ingestion accepts, gets neither place nor key: the places "antipode"
  and "pole".
* With clocks that differ by up to `Skew` the window of the rate limiter is shorter by
  `2 * Skew` for what it admits and longer by as much for what it refuses
  (`WindowBound`, `RefusedOnlyIfFull`). A ping whose script was admitted, lost its answer
  and is sent again may be refused because of its own entry, so that a vehicle at the
  limit has one ping less.
* `main` of the optimizer gives the key away while its optimizer may be in the middle of
  a message, which nothing in
  `optimizer/cmd/main.go:96-100` waits for: the next leader works beside it
  (`SoleLeader` excepts it, `LeaseLock` has it as `finishing`).
* A cached token is accepted until `exp + Skew + Lag` (`AcceptedIsValid`). The middleware
  is wired to a group without routes (`services/auth/cmd/server.go:44`).

## 5. What is proved

All theorems hold for every value of the constants that satisfies the named
assumptions of the module: `ConstantsAssumption` (naturals where numbers are meant,
finitely many workers and requests, and `None` distinct from what it stands beside),
`NoneAssumption` of `Detector`, the same for its records, and `InstancesFinite` of
`LeaderElection`.

* **`IngestionProofs`.** `TypeCorrect`; `NoDeadSession`, `SoleSessionKept` from an
  invariant that ties `sessions` to the handlers' `vid`; `DrainLosesOnlyLate`,
  `CloseAfterWorkers` from one that orders the workers' exits and `main`;
  `PingsConserved` from the fact that a handler's ping carries the number of the
  last one received, so a ping is pushed once; `ImplementsRelay`, step by step, with
  the count of held pings bounded by the channel and the workers, which is what the relay
  promises for itself (`RelayIsBounded`);
  `OvertakingBounded`, for any number of workers: hands and channel hold each stream in
  its order between them, so what a worker stores first can overtake only what the other
  workers hold, since a worker holds its ping until the write returned; the invariant
  counts for each stored ping those that were first stored behind it with those that still
  may be. Copies, batches and late writes are left free. Pings whose write failed are left
  out: nothing bounds when the broker stores them. `SingleWorkerOrder` is the case of one
  worker, where the first copies are in order.
* **`LeaderElectionProofs`.** `ElectionTypeCorrect`; `LeaderIsSole`. `SoleLeader` is
  not inductive: it needs that an instance whose optimizer runs, with its lease and not told
  to stop, still has its key, with the revision of its own campaign, and that revisions of
  different instances differ, so that of two leaders one has an older key that the other had
  to see gone.
  `ImplementsLock` shows from the same invariant, step by step, that a transaction of
  `Campaign` joins the queue or changes nothing, that an optimizer starts only at its
  head, and that a key is deleted only of an instance that was told to end, perhaps while
  its optimizer finishes, or with its lease.
  `LockIsExclusive` is about the lock alone: its queue suffices for one at most that leads,
  or finishes without having been told to end.
  `KeysAreBounded`: an instance with a live session loses its key to its one `Resign`
  at most, so it puts a second key at most once; the invariant counts the instances
  that put a key and those that can put no more.
* **`DetectorProofs`.** `DetectorTypeCorrect`; `RouteMatchesPings`;
  `MarkHasReport`, with no assumption on the length of a sweep: a vehicle that was seen
  after the snapshot of a sweep younger than a silence cannot be silent again before the
  mark, so the second look at `LastSeen` suffices, and what an older sweep marks is in `late`;
  `SilenceReportedOnce`, for each of any number of leaderships
  at work: what a detector has still to publish it did not report since the vehicle was
  last seen, and what it reported is marked or about to be, whoever else marks it.
  `SpeedAndRouteAreRaised`: what a loop raised and what its `Check` has still to publish are
  together what speed and route call for as this `Check` left them, whatever the loops of
  other leaderships check meanwhile.
* **`PingDeliveryProofs`.** `DeliveryTypeCorrect`; `AtLeastOnce`;
  `PartitionsInOrder`; `OneMessageEach`. The invariant says that every message
  between fetch and `Ack` has all its predecessors settled, that the reader's
  position is at most one past what is settled or in flight, and that a committed
  offset, wherever a late commit sets it, has only settled ones below it; and that a
  goroutine which waits for an `Ack` has its message in the channel or in a loop, so it
  does not wait for a call that nobody can make. `ImplementsLog` shows
  from it, step by step, that the checks and the commits are those of `PartitionLog`, and
  `LogKeepsPromise` that the log alone delivers in order and commits only what was
  delivered. `ExactlyOnceWhileSteady` says where repetitions come from: only after the
  end of a process or a new generation of the group, even one that leaves the partition
  where it was, is a ping checked again; changes of leader and failed commits repeat nothing.
* **`AuthProofs`.** `AuthTypeCorrect`; `ToldCanLogIn`; `HeldTokensStored`;
  `LateRefreshRefused`. The invariant says that a handler past the revocation has a
  revoked row behind it, that an exchanged token's row is revoked, and that what
  came too late gets no further than the row it reads. `ExchangesBounded` counts the
  tokens that one was exchanged for together with the requests that may still exchange
  it: a request that passes the check finds the first number zero.
* **`GeoStoreProofs`.** `TypeCorrect`; `HiddenIsRaced`. The invariant says that a vehicle
  that is not clouded and is missing from the index, or about to be removed, has no
  key and none about to be set.
* **`RateLimiterProofs`.** `TypeCorrect`; `WindowIsBound` and `RefusedIsFull`. Scores are
  tied to the time of admission: each is within `Skew` of it, what was admitted
  in the shorter window is still in the set, and what is in the set after a purge was
  admitted in the longer one; a repeated call keeps its uuid and is counted once. When it
  is refused, what it finds is the limit reached by others, or by others and its own
  entry: the two cases of `RefusedOnlyIfFull`.
* **`JwtCacheProofs`.** `TypeCorrect`, with the positive duration of every SET under way; `OnlyValidAccepted`, `ValidNotRefused`: a cached
  copy ends before the token does but for `Skew + Lag`, since its duration was
  positive, was read on one clock and reached Redis in time, and no other step sets
  `until`.

The exception `late` of `MarkHasReport` is real: publications are synchronous, with the
writer's default batch timeout of about a second each, so a sweep of more than sixty
silent vehicles can outlast the sixty seconds of a silence. A vehicle seen and silent
again within one such sweep is marked without a report of its second silence, and no later
sweep reports it. The theorem says that nothing else leads to such a mark.

**Only model-checked.** The liveness properties (`AcceptedIsSettled`,
`ShutdownCompletes`, `SurvivorLeads`, `StaleLeaderStops`, `SilenceReported`,
`LedPartitionsDrain`, `HiddenEnds`, `GoneIsPruned`), since the prover does not handle
fairness. Every invariant that a passing run checks, and the three refinements, are proved.

## 6. What is not modelled, and why

* Contents of messages beyond what the code looks at, wording of answers, logging.
* `FindNearby`, whose answer only goes to the log, and `Store.Get`, which nothing calls;
  neither changes state.
* `main` and the router of the auth service: its only hard behaviour, the database
  closed under the requests that are still served, is the failure of any query in
  `Auth`.
* The composition of the election with the delivery (section 2).
* Calls to Redis that take effect after the client gave up on them (`GeoStore`), and pings
  that pass the limiter because Redis failed (`RateLimiter` does not count them).
* Time is abstract in `Ingestion`, `LeaderElection`, `PingDelivery` and `Auth`: a timer
  fires or does not, a lease or a token expires or does not. `Detector`, `GeoStore`,
  `RateLimiter` and `JwtCache` count units.
* The internals of Kafka, etcd, Redis, PostgreSQL and gRPC: their promises are
  external definitions, as weak as the code's use allows.
* Start-up failures, configuration and migrations: they happen before anything runs
  concurrently. `analytics` and `notification` contain no code.
