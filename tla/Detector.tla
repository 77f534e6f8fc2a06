------------------------------ MODULE Detector ------------------------------
(***************************************************************************)
(* The anomaly detector of the optimizer (services/optimizer): the vehicle *)
(* state the consumer goroutine and the silence detectors share, Check, and*)
(* the sweep for silent vehicles with its steps outside the lock.          *)
(*                                                                         *)
(* Time is kept as ages: how long ago a vehicle was seen and a sweep took  *)
(* its snapshot, in units of the model, up to the largest that matters.    *)
(* Nothing bounds the time that a sweep takes.  A place is a point of a    *)
(* line, in metres.                                                        *)
(***************************************************************************)
EXTENDS Integers, Sequences, SequencesExt

CONSTANTS
  Vehicles,   \* vehicle ids
  Speeds,     \* speeds the pings carry
  Places,     \* places the pings carry
  Terms,      \* leaderships of this process: each starts a silence detector and a loop that Checks
  Silence,    \* the 60 seconds without a ping after which a vehicle is silent
  None

ASSUME ConstantsAssumption ==
  /\ Silence \in Nat \ {0}
  /\ Speeds \subseteq Nat /\ Places \subseteq Int

Ping == [speed : Speeds, place : Places]

AnomalyTypes == {"ZERO_SPEED", "OVER_SPEED", "ROUTE_DEVIATION"}

\* A Check in progress: its vehicle and what it has still to publish.
Checking == [veh : Vehicles, todo : Seq(AnomalyTypes)]

ASSUME NoneAssumption == None \notin Ping /\ None \notin Checking

VARIABLES
  lastPings,   \* LastPings of each vehicle, empty if it has no state
  lastRoute,   \* LastRoute of each vehicle
  age,         \* now - LastSeen of each vehicle, Silence + 1 standing for any more
  fired,       \* ConnectionLostFired of each vehicle
  late,        \* history: vehicles marked in this silence by a sweep older than a silence
  check,       \* the Check in progress in each loop: its vehicle and what it has to publish
  raised,      \* history: what the last Check of each loop tried to publish
  way,         \* history: the last three pings of the vehicle that it checked, the newest first
  spc,         \* where each silence detector is
  events,      \* the vehicles whose event each sweep has still to publish
  acked,       \* the vehicle whose event was just published
  stale,       \* history: vehicles that were seen since the snapshot of the sweep
  sweepAge,    \* time since the snapshot of the sweep under way, Silence + 1 standing for any more
  reports      \* history: acknowledged reports of each detector since the vehicle was seen

stateVars == <<lastPings, lastRoute, age, fired, late>>
checkVars == <<check, raised, way>>
sweepVars == <<spc, events, acked, stale, sweepAge>>
vars == <<stateVars, checkVars, sweepVars, reports>>

Known(v) == lastPings[v] # <<>>

Silent(v) == Known(v) /\ age[v] > Silence

Init ==
  /\ lastPings = [v \in Vehicles |-> <<>>]
  /\ lastRoute = [v \in Vehicles |-> <<None, None>>]
  /\ age = [v \in Vehicles |-> 0]
  /\ fired = [v \in Vehicles |-> FALSE]
  /\ late = {}
  /\ check = [w \in Terms |-> None]
  /\ raised = [w \in Terms |-> {}]
  /\ way = [w \in Terms |-> <<None, None, None>>]
  /\ spc = [w \in Terms |-> "none"]
  /\ events = [w \in Terms |-> {}]
  /\ acked = [w \in Terms |-> None]
  /\ stale = [w \in Terms |-> {}]
  /\ sweepAge = [w \in Terms |-> 0]
  /\ reports = [w \in Terms |-> [v \in Vehicles |-> 0]]

----------------------------------------------------------------------------
(* Check.                                                                  *)

\* Whatever the speeds, the answer is false.
checkZeroSpeed(pings) == FALSE

OverSpeed_AtLimit(p) == p.speed >= 120
OverSpeed(p) == p.speed > 120

Deviates(p, q) == p.place - q.place > 500 \/ q.place - p.place > 500

Previous(pings) == pings[Len(pings) - 1]

\* What Check publishes for a ping, in its order; pings are the last three.
Anomalies(pings) ==
  (IF Len(pings) >= 3 /\ checkZeroSpeed(pings) THEN <<"ZERO_SPEED">> ELSE <<>>)
  \o (IF OverSpeed(Last(pings)) THEN <<"OVER_SPEED">> ELSE <<>>)
  \o (IF Len(pings) >= 2 /\ Deviates(Last(pings), Previous(pings)) THEN <<"ROUTE_DEVIATION">> ELSE <<>>)

LastThree_Untrimmed(pings) == pings
LastThree(pings) == IF Len(pings) > 3 THEN SubSeq(pings, Len(pings) - 2, Len(pings)) ELSE pings

ShiftRoute(v, p) == <<p, lastRoute[v][1]>>

AfterPing_StillFired(v) == fired
AfterPing(v) == [fired EXCEPT ![v] = FALSE]

\* The part of Check under the lock.  It ends the episode of silence, if any.  The
\* loop of a leadership that is over may still take a ping, beside the next one's.
CheckState(w, v, p) ==
  LET pings == LastThree(Append(lastPings[v], p))
  IN  /\ spc[w] # "none"
      /\ check[w] = None
      /\ lastPings' = [lastPings EXCEPT ![v] = pings]
      /\ age' = [age EXCEPT ![v] = 0]
      /\ lastRoute' = [lastRoute EXCEPT ![v] = ShiftRoute(v, p)]
      /\ fired' = AfterPing(v)
      /\ late' = late \ {v}
      /\ check' = [check EXCEPT ![w] = [veh |-> v, todo |-> Anomalies(pings)]]
      /\ raised' = [raised EXCEPT ![w] = {}]
      /\ way' = [way EXCEPT ![w] = <<p, lastRoute[v][1], lastRoute[v][2]>>]
      /\ stale' = [x \in Terms |-> stale[x] \cup {v}]
      /\ reports' = [x \in Terms |-> [reports[x] EXCEPT ![v] = 0]]
      /\ UNCHANGED <<spc, events, acked, sweepAge>>

\* One publication, which may fail: the next one is tried all the same.
CheckPublish(w) ==
  /\ check[w] # None
  /\ check[w].todo # <<>>
  /\ check' = [check EXCEPT ![w].todo = Tail(@)]
  /\ raised' = [raised EXCEPT ![w] = @ \cup {Head(check[w].todo)}]
  /\ UNCHANGED <<stateVars, way, sweepVars, reports>>

CheckReturn(w) ==
  /\ check[w] # None
  /\ check[w].todo = <<>>
  /\ check' = [check EXCEPT ![w] = None]
  /\ UNCHANGED <<stateVars, raised, way, sweepVars, reports>>

----------------------------------------------------------------------------
(* The silence detector: a tick takes the silent vehicles under the read   *)
(* lock, publishes their events one by one without it, and marks each one  *)
(* under the write lock.                                                   *)

\* StartSilenceDetector, for a new leadership of this process; the context of the
\* one before is cancelled by then, its goroutine may still be at work.
StartSilenceDetector(w) ==
  /\ spc[w] = "none"
  /\ spc' = [spc EXCEPT ![w] = "tick"]
  /\ UNCHANGED <<stateVars, checkVars, events, acked, stale, sweepAge, reports>>

Sweep(w) ==
  /\ spc[w] = "tick"
  /\ events' = [events EXCEPT ![w] = {v \in Vehicles : Silent(v) /\ ~fired[v]}]
  /\ events'[w] # {}
  /\ stale' = [stale EXCEPT ![w] = {}]
  /\ sweepAge' = [sweepAge EXCEPT ![w] = 0]
  /\ spc' = [spc EXCEPT ![w] = "publish"]
  /\ UNCHANGED <<stateVars, checkVars, acked, reports>>

\* Publish returned nil.
PublishLost(w, v) ==
  /\ spc[w] = "publish"
  /\ v \in events[w]
  /\ events' = [events EXCEPT ![w] = @ \ {v}]
  /\ acked' = [acked EXCEPT ![w] = v]
  /\ spc' = [spc EXCEPT ![w] = "mark"]
  /\ reports' = IF v \in stale[w] \/ reports[w][v] = 2 THEN reports ELSE [reports EXCEPT ![w][v] = @ + 1]
  /\ UNCHANGED <<stateVars, checkVars, stale, sweepAge>>

\* Publish returned an error: the next sweep finds the vehicle again.
PublishLostError(w, v) ==
  /\ spc[w] = "publish"
  /\ v \in events[w]
  /\ events' = [events EXCEPT ![w] = @ \ {v}]
  /\ UNCHANGED <<stateVars, checkVars, spc, acked, stale, sweepAge, reports>>

\* The vehicle may have been seen since the snapshot, so LastSeen is read again.
StillSilent_NotRead(v) == TRUE
StillSilent(v) == Silent(v)

MarkFired_Forgotten(w) ==
  /\ spc[w] = "mark"
  /\ acked' = [acked EXCEPT ![w] = None]
  /\ spc' = [spc EXCEPT ![w] = "publish"]
  /\ UNCHANGED <<stateVars, checkVars, events, stale, sweepAge, reports>>
MarkFired(w) ==
  /\ spc[w] = "mark"
  /\ IF StillSilent(acked[w])
       THEN /\ fired' = [fired EXCEPT ![acked[w]] = TRUE]
            /\ late' = IF sweepAge[w] > Silence THEN late \cup {acked[w]} ELSE late
       ELSE UNCHANGED <<fired, late>>
  /\ acked' = [acked EXCEPT ![w] = None]
  /\ spc' = [spc EXCEPT ![w] = "publish"]
  /\ UNCHANGED <<lastPings, lastRoute, age, checkVars, events, stale, sweepAge, reports>>

SweepDone(w) ==
  /\ spc[w] = "publish"
  /\ events[w] = {}
  /\ spc' = [spc EXCEPT ![w] = "tick"]
  /\ sweepAge' = [sweepAge EXCEPT ![w] = 0]
  /\ UNCHANGED <<stateVars, checkVars, events, acked, stale, reports>>

\* ctx.Done(), seen between two sweeps.
StopSilenceDetector(w) ==
  /\ spc[w] = "tick"
  /\ spc' = [spc EXCEPT ![w] = "returned"]
  /\ UNCHANGED <<stateVars, checkVars, events, acked, stale, sweepAge, reports>>

Sweeping(w) == spc[w] \in {"publish", "mark"}

\* A unit of time, which may pass anywhere in a sweep.
Tick ==
  /\ age' = [v \in Vehicles |-> IF Known(v) /\ age[v] <= Silence THEN age[v] + 1 ELSE age[v]]
  /\ sweepAge' = [w \in Terms |-> IF Sweeping(w) /\ sweepAge[w] <= Silence THEN sweepAge[w] + 1 ELSE sweepAge[w]]
  /\ UNCHANGED <<lastPings, lastRoute, fired, late, checkVars, spc, events, acked, stale, reports>>

----------------------------------------------------------------------------
Checks(w) ==
  \/ \E v \in Vehicles, p \in Ping : CheckState(w, v, p)
  \/ CheckPublish(w)
  \/ CheckReturn(w)

SilenceDetector(w) ==
  \/ StartSilenceDetector(w) \/ Sweep(w) \/ MarkFired(w) \/ SweepDone(w) \/ StopSilenceDetector(w)
  \/ \E v \in Vehicles : PublishLost(w, v) \/ PublishLostError(w, v)

Next == (\E w \in Terms : Checks(w) \/ SilenceDetector(w)) \/ Tick

Spec == Init /\ [][Next]_vars

\* The ticker of a running detector fires, its steps are scheduled, and the broker
\* does not refuse for ever the report of a vehicle that each sweep publishes anew.
\* No vehicle has to send, no leadership to begin or to end, and time may stop.
Fairness ==
  \A w \in Terms :
    /\ WF_vars(Sweep(w) \/ MarkFired(w) \/ SweepDone(w))
    /\ WF_vars(\E v \in Vehicles : PublishLost(w, v) \/ PublishLostError(w, v))
    /\ \A v \in Vehicles : SF_vars(PublishLost(w, v))

FairSpec == Spec /\ Fairness

----------------------------------------------------------------------------
(* What the detector promises.                                             *)

TypeOK ==
  /\ lastPings \in [Vehicles -> Seq(Ping)]
  /\ \A v \in Vehicles : Len(lastPings[v]) <= 3
  /\ lastRoute \in [Vehicles -> (Ping \cup {None}) \X (Ping \cup {None})]
  /\ age \in [Vehicles -> 0..(Silence + 1)]
  /\ fired \in [Vehicles -> BOOLEAN]
  /\ late \subseteq Vehicles
  /\ check \in [Terms -> Checking \cup {None}]
  /\ raised \in [Terms -> SUBSET AnomalyTypes]
  /\ way \in [Terms -> (Ping \cup {None}) \X (Ping \cup {None}) \X (Ping \cup {None})]
  /\ spc \in [Terms -> {"none", "tick", "publish", "mark", "returned"}]
  /\ events \in [Terms -> SUBSET Vehicles]
  /\ acked \in [Terms -> Vehicles \cup {None}]
  /\ \A w \in Terms : spc[w] = "mark" => acked[w] \in Vehicles
  /\ stale \in [Terms -> SUBSET Vehicles]
  /\ sweepAge \in [Terms -> 0..(Silence + 1)]
  /\ reports \in [Terms -> [Vehicles -> 0..2]]

\* The silence that v is in was reported.
Reported(v) == \E w \in Terms : reports[w][v] > 0

\* A vehicle is marked only while it is silent and after this very silence was
\* reported, so that no silence goes unreported: neither the ping that arrives while
\* its event is under way nor the one that arrives before it is marked leads to a
\* mark that no report stands behind (the sweep and Check share no lock across the
\* publication).  The one exception: a sweep that has gone on for longer than a silence
\* marks a second silence with the report of the first; the code does not rule it out.
FiredMeansReported == \A v \in Vehicles : fired[v] => Silent(v) /\ (Reported(v) \/ v \in late)

\* No leadership reports an episode of silence twice, though every sweep looks at all
\* vehicles again, publications fail and the vehicle may be seen during the sweep; two
\* leaderships at work at once report it once each at most.
OneReportPerSilence == \A w \in Terms, v \in Vehicles : reports[w][v] <= 1

\* A silent vehicle is reported, unless it is seen again, while a detector runs; or a sweep
\* that has gone on for longer than a silence has marked it, which may be without a report.
SilenceReported ==
  \A v \in Vehicles :
    Silent(v) ~> \/ Reported(v) \/ v \in late
                 \/ ~Silent(v)
                 \/ \A w \in Terms : spc[w] \in {"none", "returned"}

Stopped(pings) == \A n \in 1..3 : pings[n] # None /\ pings[n].speed = 0

\* When a loop is between two Checks, it has published OVER_SPEED and ROUTE_DEVIATION for
\* the ping of the last one exactly when the ping and its predecessor call for them, and
\* ZERO_SPEED at most when the vehicle stands still: a failed publication holds back no
\* other, and the loop of another leadership, whatever it checks meanwhile, changes nothing.
\* It does not say that ZERO_SPEED is published when it should be: "Zero speed detected"
\* (detector.go:77, 82) is never published, since checkZeroSpeed answers false to all.
SpeedAndRouteRaised ==
  \A w \in Terms : check[w] = None /\ way[w][1] # None =>
    /\ "OVER_SPEED" \in raised[w] <=> way[w][1].speed \in {s \in Speeds : s - 120 > 0}
    /\ "ROUTE_DEVIATION" \in raised[w]
         <=> way[w][2] # None /\ way[w][1].place \notin (way[w][2].place - 500)..(way[w][2].place + 500)
    /\ "ZERO_SPEED" \in raised[w] => Stopped(way[w])
=============================================================================
