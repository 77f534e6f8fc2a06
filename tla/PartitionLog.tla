---------------------------- MODULE PartitionLog ----------------------------
(***************************************************************************)
(* What the optimizer promises for the pings of the topic, with no         *)
(* instances, leaderships, rebalances or channel: each partition is worked *)
(* through from its first ping, again from an earlier one when need be;    *)
(* and an offset is committed, once more or after a later one when need    *)
(* be, only when all that it covers is done.                               *)
(***************************************************************************)
EXTENDS Naturals

CONSTANTS
  Partitions,
  Length,       \* pings in each partition
  Unparsable    \* those that are skipped, as <<partition, offset>>

VARIABLES
  handled,      \* the pings that were checked
  committed     \* the last committed offset of each partition

logVars == <<handled, committed>>

Init ==
  /\ handled = {}
  /\ committed = [p \in Partitions |-> 0]

Done(p, o) == <<p, o>> \in handled \cup Unparsable

Handle(p, o) ==
  /\ <<p, o>> \notin Unparsable
  /\ \A n \in 1..(o - 1) : Done(p, n)
  /\ handled' = handled \cup {<<p, o>>}
  /\ UNCHANGED committed

Commit(p, o) ==
  /\ \A n \in 1..o : Done(p, n)
  /\ committed' = [committed EXCEPT ![p] = o]
  /\ UNCHANGED handled

Next == \E p \in Partitions, o \in 1..Length : Handle(p, o) \/ Commit(p, o)

Spec == Init /\ [][Next]_logVars
=============================================================================
