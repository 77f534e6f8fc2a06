------------------------------ MODULE GeoStore ------------------------------
(***************************************************************************)
(* The geo store of the optimizer: the index geo:vehicles and one expiring *)
(* key vehicle:last_seen:<id> per vehicle, both in Redis, which the loops  *)
(* of all leaderships write in two calls (UpsertVehicle) and the pruners   *)
(* of all leaderships read and clean in three (StartPruner).  Leaderships  *)
(* of one or several processes may overlap, and no call locks out another. *)
(*                                                                         *)
(* Redis runs one call at a time.  A call that returns an error may have   *)
(* had its effect (a lost answer, a cancelled context) or not.             *)
(***************************************************************************)
EXTENDS Naturals

CONSTANTS
  Vehicles,
  Loops,    \* optimizer loops
  Pruners,
  TTL,      \* life of a key, in units of time: 30 s in the code
  None

ASSUME ConstantsAssumption == TTL \in Nat \ {0} /\ None \notin Vehicles

\* Where a ping comes from: most places; one that is more than 20000 km from 0,0;
\* one beyond the latitudes that GEOADD takes, though ingestion takes them.
Places == {"common", "antipode", "pole"}
GeoAddTakes_Any(place) == TRUE
GeoAddTakes(place) == place # "pole"

VARIABLES
  index,    \* the place of each vehicle in the geo index
  key,      \* time left of each vehicle's key, 0 when there is none
  upsert,   \* the vehicle whose key each loop is about to set
  running,  \* pruners whose goroutine lives
  todo,     \* vehicles of the search that each pruner has still to look up
  doomed,   \* the vehicle that it is about to remove
  clouded   \* history: vehicles that a pruner and an upsert handled at once, or
            \*          whose look-up failed, since they were last added in peace

redis == <<index, key>>
prunerVars == <<running, todo, doomed>>
vars == <<redis, upsert, prunerVars, clouded>>

Init ==
  /\ index = [v \in Vehicles |-> None]
  /\ key = [v \in Vehicles |-> 0]
  /\ upsert = [u \in Loops |-> None]
  /\ running = {}
  /\ todo = [p \in Pruners |-> {}]
  /\ doomed = [p \in Pruners |-> None]
  /\ clouded = {}

BeingRemoved(v)  == \E p \in Pruners : doomed[p] = v
BeingUpserted(v) == \E u \in Loops : upsert[u] = v

----------------------------------------------------------------------------
(* UpsertVehicle.                                                          *)

\* What GEOADD leaves in the index.
Added_OnlyWhenGone(v, place) == IF key[v] > 0 THEN index ELSE [index EXCEPT ![v] = place]
Added(v, place) == [index EXCEPT ![v] = place]

AfterAdd(v) ==
  clouded' = IF index'[v] # None /\ ~BeingRemoved(v) THEN clouded \ {v} ELSE clouded \cup {v}

GeoAdd(u, v, place) ==
  /\ upsert[u] = None
  /\ GeoAddTakes(place)
  /\ index' = Added(v, place)
  /\ AfterAdd(v)
  /\ upsert' = [upsert EXCEPT ![u] = v]
  /\ UNCHANGED <<key, prunerVars>>

\* The error ends UpsertVehicle: the key is not set.
GeoAddError(u, v, place) ==
  /\ upsert[u] = None
  /\ GeoAddTakes(place)
  /\ index' = Added(v, place)
  /\ AfterAdd(v)
  /\ UNCHANGED <<key, upsert, prunerVars>>

Set(u) ==
  /\ upsert[u] # None
  /\ key' = [key EXCEPT ![upsert[u]] = TTL]
  /\ upsert' = [upsert EXCEPT ![u] = None]
  /\ UNCHANGED <<index, prunerVars, clouded>>

\* SET failed, or the process died.
SetError(u) ==
  /\ upsert[u] # None
  /\ upsert' = [upsert EXCEPT ![u] = None]
  /\ UNCHANGED <<redis, prunerVars, clouded>>

----------------------------------------------------------------------------
(* StartPruner.                                                            *)

StartPruner(p) ==
  /\ p \notin running
  /\ running' = running \cup {p}
  /\ UNCHANGED <<redis, upsert, todo, doomed, clouded>>

Resting(p) == p \in running /\ todo[p] = {} /\ doomed[p] = None

\* The search of each tick, 20000 km around 0,0.  One that fails finds nothing.
Found_InMetres(place) == FALSE
Found(place) == place = "common"

GeoSearch(p) ==
  /\ Resting(p)
  /\ todo' = [todo EXCEPT ![p] = {v \in Vehicles : Found(index[v])}]
  /\ UNCHANGED <<redis, upsert, running, doomed, clouded>>

\* A vehicle is removed when its key is gone.
Gone_Unread(v) == TRUE
Gone(v) == key[v] = 0

Exists(p, v) ==
  /\ p \in running /\ doomed[p] = None
  /\ v \in todo[p]
  /\ todo' = [todo EXCEPT ![p] = @ \ {v}]
  /\ doomed' = IF Gone(v) THEN [doomed EXCEPT ![p] = v] ELSE doomed
  /\ clouded' = IF Gone(v) /\ BeingUpserted(v) THEN clouded \cup {v} ELSE clouded
  /\ UNCHANGED <<redis, upsert, running>>

\* The error is dropped, and the answer that is not there reads 0.
ExistsError(p, v) ==
  /\ p \in running /\ doomed[p] = None
  /\ v \in todo[p]
  /\ todo' = [todo EXCEPT ![p] = @ \ {v}]
  /\ doomed' = [doomed EXCEPT ![p] = v]
  /\ clouded' = clouded \cup {v}
  /\ UNCHANGED <<redis, upsert, running>>

ZRem(p, v) ==
  /\ doomed[p] = v
  /\ index' = [index EXCEPT ![v] = None]
  /\ doomed' = [doomed EXCEPT ![p] = None]
  /\ UNCHANGED <<key, upsert, running, todo, clouded>>

\* Logged; the sweep goes on with the next vehicle.
ZRemError(p) ==
  /\ doomed[p] # None
  /\ doomed' = [doomed EXCEPT ![p] = None]
  /\ UNCHANGED <<redis, upsert, running, todo, clouded>>

\* ctx.Done() between two sweeps, or the process dies during one.
StopPruner(p) ==
  /\ p \in running
  /\ running' = running \ {p}
  /\ todo' = [todo EXCEPT ![p] = {}]
  /\ doomed' = [doomed EXCEPT ![p] = None]
  /\ UNCHANGED <<redis, upsert, clouded>>

----------------------------------------------------------------------------
\* A unit of time: the keys come nearer to their end.
Tick ==
  /\ \E v \in Vehicles : key[v] > 0
  /\ key' = [v \in Vehicles |-> IF key[v] > 0 THEN key[v] - 1 ELSE 0]
  /\ UNCHANGED <<index, upsert, prunerVars, clouded>>

UpsertVehicle(u) ==
  \/ \E v \in Vehicles, place \in Places : GeoAdd(u, v, place) \/ GeoAddError(u, v, place)
  \/ Set(u) \/ SetError(u)

Lookup(p) == \E v \in Vehicles : Exists(p, v) \/ ExistsError(p, v)
Removal(p) == (\E v \in Vehicles : ZRem(p, v)) \/ ZRemError(p)

Pruner(p) == StartPruner(p) \/ GeoSearch(p) \/ Lookup(p) \/ Removal(p) \/ StopPruner(p)

Next ==
  \/ \E u \in Loops : UpsertVehicle(u)
  \/ \E p \in Pruners : Pruner(p)
  \/ Tick

Spec == Init /\ [][Next]_vars

\* Time passes; the ticker of a running pruner fires and its steps are scheduled, and
\* Redis does not fail for ever the removal of a vehicle that is asked again and again.
\* Nothing has to be upserted, to start or to stop.
Fairness ==
  /\ WF_vars(Tick)
  /\ \A p \in Pruners :
       /\ WF_vars(GeoSearch(p)) /\ WF_vars(Lookup(p)) /\ WF_vars(Removal(p))
       /\ \A v \in Vehicles : SF_vars(ZRem(p, v))

FairSpec == Spec /\ Fairness

----------------------------------------------------------------------------
(* What the geo store promises.                                            *)

TypeOK ==
  /\ index \in [Vehicles -> (Places \ {"pole"}) \cup {None}]
  /\ key \in [Vehicles -> 0..TTL]
  /\ upsert \in [Loops -> Vehicles \cup {None}]
  /\ running \subseteq Pruners
  /\ todo \in [Pruners -> SUBSET Vehicles]
  /\ doomed \in [Pruners -> Vehicles \cup {None}]
  /\ \A p \in Pruners \ running : todo[p] = {} /\ doomed[p] = None
  /\ clouded \subseteq Vehicles

\* Seen in the last 30 s, and not to be found nearby.
Hidden(v) == key[v] > 0 /\ index[v] = None

\* A vehicle with a live key is missing from the index only when a removal overlapped
\* with the upsert that set the key, or the look-up of the key failed: neither the two
\* calls of an upsert, nor several loops and pruners at once, nor errors of the other
\* calls hide it (UpsertVehicle adds before it sets; the pruner asks before it removes).
HiddenOnlyByRace == \A v \in Vehicles : Hidden(v) => v \in clouded

\* A vehicle that a pruner hid does not stay hidden, though the pings that come keep
\* its key alive: the next one adds it again, or its key runs out.
HiddenEnds == \A v \in Vehicles : Hidden(v) ~> ~Hidden(v)

\* A vehicle that is gone does not stay in the index while one pruner keeps running,
\* whatever single calls fail and whatever other pruners do, unless it is at the place
\* that the search does not reach.
GoneIsPruned ==
  \A v \in Vehicles, p \in Pruners :
    <>[](p \in running) => []<>~(index[v] = "common" /\ key[v] = 0)
=============================================================================
