----------------------------- MODULE PingRelay -----------------------------
(***************************************************************************)
(* What the ingestion service promises for the pings it acknowledges, with *)
(* no stream, channel, worker or shutdown: a relay of bounded memory that  *)
(* takes a ping at most once and settles it once, as published, and then   *)
(* the topic has it, or as failed.  The topic gets no ping the relay has   *)
(* not taken; when it gets one, and how often, is left open.               *)
(***************************************************************************)
EXTENDS Naturals, FiniteSets

CONSTANTS
  Ping,      \* the pings there may be
  Capacity   \* how many the relay may hold

VARIABLES
  pending,    \* acknowledged and held
  topic,      \* the pings the topic has
  published,  \* settled: the topic has them
  failed      \* settled: given up

relayVars == <<pending, topic, published, failed>>

Init ==
  /\ pending = {}
  /\ topic = {}
  /\ published = {}
  /\ failed = {}

Accept(p) ==
  /\ p \notin pending \cup published \cup failed
  /\ Cardinality(pending) < Capacity
  /\ pending' = pending \cup {p}
  /\ UNCHANGED <<topic, published, failed>>

Store(p) ==
  /\ p \in pending \cup published \cup failed
  /\ topic' = topic \cup {p}
  /\ UNCHANGED <<pending, published, failed>>

Publish(p) ==
  /\ p \in pending \cap topic
  /\ pending' = pending \ {p}
  /\ published' = published \cup {p}
  /\ UNCHANGED <<topic, failed>>

GiveUp(p) ==
  /\ p \in pending
  /\ pending' = pending \ {p}
  /\ failed' = failed \cup {p}
  /\ UNCHANGED <<topic, published>>

Next == \E p \in Ping : Accept(p) \/ Store(p) \/ Publish(p) \/ GiveUp(p)

Spec == Init /\ [][Next]_relayVars
=============================================================================
