---------------------------- MODULE PingDelivery ----------------------------
(***************************************************************************)
(* How a ping gets from the topic to the detector (services/optimizer):    *)
(* the consumer goroutine of each instance, which hands over one message   *)
(* and waits for its Ack, the channel, and the optimizer loops, one for    *)
(* each leadership of the instance.  Every instance consumes, only a       *)
(* leader takes what was consumed.                                         *)
(*                                                                         *)
(* The consumer group is modelled from how the code uses the reader: a     *)
(* partition has one owner at a time; a new owner, and the same one in a   *)
(* new generation of the group, starts after the last committed offset;    *)
(* and whoever commits an offset last sets it.                             *)
(***************************************************************************)
EXTENDS Integers, Sequences, FiniteSets

CONSTANTS
  Instances,    \* processes of the optimizer
  Partitions,   \* partitions of the topic
  Length,       \* bound: pings in each partition, at the offsets 1..Length
  Unparsable,   \* those the consumer cannot decode, as <<partition, offset>>
  Capacity,     \* of the channel, 100 in the code
  MaxTerm,      \* bound: leaderships of each instance
  MaxMoves,     \* bound: assignments of a partition that has an owner, to another or again
  None

Offsets == 1..Length
Messages == Partitions \X Offsets
Terms == 1..MaxTerm

ASSUME ConstantsAssumption ==
  /\ Length \in Nat /\ MaxTerm \in Nat /\ MaxMoves \in Nat
  /\ Capacity \in Nat \ {0}
  /\ Unparsable \subseteq Messages
  /\ None \notin Instances /\ None \notin Messages

VARIABLES
  proc,        \* each process: running, stopping (main called cancel), dead
  owner,       \* the instance that each partition is assigned to
  position,    \* the offset that the owner's reader fetches next
  committed,   \* the last committed offset of each partition
  moves,       \* such assignments so far
  cpc,         \* where the goroutine of Consumer.Start is
  inflight,    \* the message it fetched and is busy with
  acks,        \* how many times the Ack of that message was called
  channel,     \* optimizerChannel of each instance
  term,        \* how many leaderships each instance had
  leading,     \* whether the context of the last one is live
  lpc,         \* where the optimizer loop of each leadership is
  lmsg,        \* the message it took
  checked      \* history: messages that a detector has checked

groupVars == <<owner, position, committed, moves>>
consumerVars == <<cpc, inflight, acks>>
loopVars == <<term, leading, lpc, lmsg>>
vars == <<proc, groupVars, consumerVars, channel, loopVars, checked>>

Init ==
  /\ proc = [i \in Instances |-> "running"]
  /\ owner = [p \in Partitions |-> None]
  /\ position = [p \in Partitions |-> 1]
  /\ committed = [p \in Partitions |-> 0]
  /\ moves = 0
  /\ cpc = [i \in Instances |-> "fetch"]
  /\ inflight = [i \in Instances |-> None]
  /\ acks = [i \in Instances |-> 0]
  /\ channel = [i \in Instances |-> <<>>]
  /\ term = [i \in Instances |-> 0]
  /\ leading = [i \in Instances |-> FALSE]
  /\ lpc = [i \in Instances |-> [t \in Terms |-> "none"]]
  /\ lmsg = [i \in Instances |-> [t \in Terms |-> None]]
  /\ checked = {}

Alive(i) == proc[i] # "dead"
Cancelled(i) == proc[i] = "stopping"

----------------------------------------------------------------------------
(* The consumer group.                                                     *)

AssignedFrom_WhereRead(p) == position[p]
AssignedFrom(p) == committed[p] + 1

\* A new generation of the group gives p to i, which may have had it before: its reader
\* starts after the last commit all the same.  What was fetched before stays in flight.
Assign(p, i) ==
  /\ proc[i] = "running"
  /\ owner[p] = None \/ moves < MaxMoves
  /\ moves' = IF owner[p] = None THEN moves ELSE moves + 1
  /\ owner' = [owner EXCEPT ![p] = i]
  /\ position' = [position EXCEPT ![p] = AssignedFrom(p)]
  /\ UNCHANGED <<proc, committed, consumerVars, channel, loopVars, checked>>

Release(i) == owner' = [p \in Partitions |-> IF owner[p] = i THEN None ELSE owner[p]]

\* The broker takes any offset of any partition from a member of the group; the
\* error of a commit is logged or ignored.
CommitMessages(m) ==
  committed' \in {committed, [committed EXCEPT ![m[1]] = m[2]]}

----------------------------------------------------------------------------
(* Consumer.Start.                                                         *)

HasNext_PastEnd(p) == position[p] <= Length + 1
HasNext(p) == position[p] <= Length

\* FetchMessage and the decoding of what it returned.  An error leads back to it.
Fetch(i, p) ==
  LET m == <<p, position[p]>>
  IN  /\ Alive(i)
      /\ cpc[i] = "fetch"
      /\ owner[p] = i
      /\ HasNext(p)
      /\ position' = [position EXCEPT ![p] = @ + 1]
      /\ inflight' = [inflight EXCEPT ![i] = m]
      /\ acks' = [acks EXCEPT ![i] = 0]
      /\ cpc' = [cpc EXCEPT ![i] = IF m \in Unparsable THEN "skip" ELSE "send"]
      /\ UNCHANGED <<proc, owner, committed, moves, channel, loopVars, checked>>

SkipUnparsable_Returns(i) ==
  /\ Alive(i) /\ cpc[i] = "skip"
  /\ CommitMessages(inflight[i])
  /\ inflight' = [inflight EXCEPT ![i] = None]
  /\ cpc' = [cpc EXCEPT ![i] = "returned"]
  /\ UNCHANGED <<proc, owner, position, moves, acks, channel, loopVars, checked>>
SkipUnparsable(i) ==
  /\ Alive(i) /\ cpc[i] = "skip"
  /\ CommitMessages(inflight[i])
  /\ inflight' = [inflight EXCEPT ![i] = None]
  /\ cpc' = [cpc EXCEPT ![i] = "fetch"]
  /\ UNCHANGED <<proc, owner, position, moves, acks, channel, loopVars, checked>>

Send(i) ==
  /\ Alive(i) /\ cpc[i] = "send"
  /\ Len(channel[i]) < Capacity
  /\ channel' = [channel EXCEPT ![i] = Append(@, inflight[i])]
  /\ cpc' = [cpc EXCEPT ![i] = "wait"]
  /\ UNCHANGED <<proc, groupVars, inflight, acks, loopVars, checked>>

Acked_NotAwaited(i) == TRUE
Acked(i) == acks[i] > 0

\* done is closed, once the message was acked: the next message.
AwaitAck(i) ==
  /\ Alive(i) /\ cpc[i] = "wait"
  /\ Acked(i)
  /\ inflight' = [inflight EXCEPT ![i] = None]
  /\ cpc' = [cpc EXCEPT ![i] = "fetch"]
  /\ UNCHANGED <<proc, groupVars, acks, channel, loopVars, checked>>

\* ctx.Done(), or the error of FetchMessage that stands for it.
ConsumerReturn(i) ==
  /\ Cancelled(i)
  /\ cpc[i] \in {"fetch", "send", "wait"}
  /\ cpc' = [cpc EXCEPT ![i] = "returned"]
  /\ UNCHANGED <<proc, groupVars, inflight, acks, channel, loopVars, checked>>

Consumer(i) ==
  \/ \E p \in Partitions : Fetch(i, p)
  \/ SkipUnparsable(i) \/ Send(i) \/ AwaitAck(i) \/ ConsumerReturn(i)

----------------------------------------------------------------------------
(* Optimizer.Start.                                                        *)

LeaderDone(i, t) == Cancelled(i) \/ term[i] # t \/ ~leading[i]

\* Won an election: a loop of its own, beside that of a leadership which is over
\* and may not have noticed.
StartOptimizer(i) ==
  /\ Alive(i)
  /\ ~leading[i] /\ term[i] < MaxTerm
  /\ term' = [term EXCEPT ![i] = @ + 1]
  /\ leading' = [leading EXCEPT ![i] = TRUE]
  /\ lpc' = [lpc EXCEPT ![i][term[i] + 1] = "select"]
  /\ UNCHANGED <<proc, groupVars, consumerVars, channel, lmsg, checked>>

\* The session is done: leaderCancel.
CancelLeader(i) ==
  /\ Alive(i) /\ leading[i]
  /\ leading' = [leading EXCEPT ![i] = FALSE]
  /\ UNCHANGED <<proc, groupVars, consumerVars, channel, term, lpc, lmsg, checked>>

\* The select may prefer the message to the context that is done.
Take(i, t) ==
  /\ Alive(i) /\ lpc[i][t] = "select"
  /\ channel[i] # <<>>
  /\ lmsg' = [lmsg EXCEPT ![i][t] = Head(channel[i])]
  /\ channel' = [channel EXCEPT ![i] = Tail(@)]
  /\ lpc' = [lpc EXCEPT ![i][t] = "check"]
  /\ UNCHANGED <<proc, groupVars, consumerVars, term, leading, checked>>

Check_SkippedWhenDone(i, t) ==
  /\ Alive(i) /\ lpc[i][t] = "check"
  /\ checked' = IF LeaderDone(i, t) THEN checked ELSE checked \cup {lmsg[i][t]}
  /\ lpc' = [lpc EXCEPT ![i][t] = "ack"]
  /\ UNCHANGED <<proc, groupVars, consumerVars, channel, term, leading, lmsg>>

\* UpsertVehicle, Check and FindNearby, whose errors are logged.
Check(i, t) ==
  /\ Alive(i) /\ lpc[i][t] = "check"
  /\ checked' = checked \cup {lmsg[i][t]}
  /\ lpc' = [lpc EXCEPT ![i][t] = "ack"]
  /\ UNCHANGED <<proc, groupVars, consumerVars, channel, term, leading, lmsg>>

\* Ack: commits with the context of main, not of the leadership, and closes done.
Ack(i, t) ==
  /\ Alive(i) /\ lpc[i][t] = "ack"
  /\ CommitMessages(lmsg[i][t])
  /\ acks' = [acks EXCEPT ![i] = @ + 1]
  /\ lmsg' = [lmsg EXCEPT ![i][t] = None]
  /\ lpc' = [lpc EXCEPT ![i][t] = "select"]
  /\ UNCHANGED <<proc, owner, position, moves, cpc, inflight, channel, term, leading, checked>>

LoopReturn(i, t) ==
  /\ Alive(i) /\ lpc[i][t] = "select"
  /\ LeaderDone(i, t)
  /\ lpc' = [lpc EXCEPT ![i][t] = "returned"]
  /\ UNCHANGED <<proc, groupVars, consumerVars, channel, term, leading, lmsg, checked>>

OptimizerLoop(i, t) == Take(i, t) \/ Check(i, t) \/ Ack(i, t) \/ LoopReturn(i, t)

----------------------------------------------------------------------------
(* The process.                                                            *)

Cancel(i) ==
  /\ proc[i] = "running"
  /\ proc' = [proc EXCEPT ![i] = "stopping"]
  /\ UNCHANGED <<groupVars, consumerVars, channel, loopVars, checked>>

\* main closes the reader without waiting for the goroutine that uses it.
CloseReader(i) ==
  /\ Cancelled(i)
  /\ Release(i)
  /\ owner' # owner
  /\ UNCHANGED <<proc, position, committed, moves, consumerVars, channel, loopVars, checked>>

\* A crash, or the return of main, at any step: the group notices, and all that the
\* process held is gone.
Die(i) ==
  /\ Alive(i)
  /\ proc' = [proc EXCEPT ![i] = "dead"]
  /\ Release(i)
  /\ cpc' = [cpc EXCEPT ![i] = "returned"]
  /\ inflight' = [inflight EXCEPT ![i] = None]
  /\ channel' = [channel EXCEPT ![i] = <<>>]
  /\ leading' = [leading EXCEPT ![i] = FALSE]
  /\ lpc' = [lpc EXCEPT ![i] = [t \in Terms |-> "returned"]]
  /\ lmsg' = [lmsg EXCEPT ![i] = [t \in Terms |-> None]]
  /\ UNCHANGED <<position, committed, moves, acks, term, checked>>

Process(i) ==
  \/ Consumer(i)
  \/ StartOptimizer(i) \/ CancelLeader(i)
  \/ \E t \in Terms : OptimizerLoop(i, t)
  \/ Cancel(i) \/ CloseReader(i) \/ Die(i)

Next ==
  \/ \E p \in Partitions, i \in Instances : Assign(p, i)
  \/ \E i \in Instances : Process(i)

Spec == Init /\ [][Next]_vars

\* The goroutines of a live process are scheduled, and its reader returns a message
\* of every partition it owns again and again.  Nothing has to lead, to move, to stop
\* or to die.
Fairness ==
  \A i \in Instances :
    /\ WF_vars(SkipUnparsable(i) \/ Send(i) \/ AwaitAck(i))
    /\ \A p \in Partitions : SF_vars(Fetch(i, p))
    /\ \A t \in Terms : WF_vars(OptimizerLoop(i, t)) /\ SF_vars(LoopReturn(i, t))

FairSpec == Spec /\ Fairness

----------------------------------------------------------------------------
(* What the delivery promises.                                             *)

TypeOK ==
  /\ proc \in [Instances -> {"running", "stopping", "dead"}]
  /\ owner \in [Partitions -> Instances \cup {None}]
  /\ position \in [Partitions -> 1..(Length + 1)]
  /\ committed \in [Partitions -> 0..Length]
  /\ moves \in 0..MaxMoves
  /\ cpc \in [Instances -> {"fetch", "skip", "send", "wait", "returned"}]
  /\ inflight \in [Instances -> Messages \cup {None}]
  /\ acks \in [Instances -> Nat]
  /\ channel \in [Instances -> Seq(Messages)]
  /\ term \in [Instances -> 0..MaxTerm]
  /\ leading \in [Instances -> BOOLEAN]
  /\ lpc \in [Instances -> [Terms -> {"none", "select", "check", "ack", "returned"}]]
  /\ lmsg \in [Instances -> [Terms -> Messages \cup {None}]]
  /\ checked \subseteq Messages

Busy(i) == {t \in Terms : lmsg[i][t] # None}

\* An instance has one message between the fetch and the Ack, in the channel or with
\* one of its loops, and it is the one the consumer waits for: no two leaderships
\* work on messages at once, the hundred places of the channel hold one, and no Ack
\* closes a channel that is closed, which would panic.  Nor does the consumer wait for
\* an Ack that nobody is left to give: no loop drops the message it took.
OneInFlight ==
  \A i \in Instances :
    /\ Len(channel[i]) + Cardinality(Busy(i)) <= 1
    /\ channel[i] # <<>> => Head(channel[i]) = inflight[i] /\ acks[i] = 0
    /\ \A t \in Busy(i) : lmsg[i][t] = inflight[i] /\ acks[i] = 0
    /\ cpc[i] = "wait" /\ acks[i] = 0 => channel[i] # <<>> \/ Busy(i) # {}

Settled(p, o) == <<p, o>> \in checked \cup Unparsable

\* At least once: a committed offset leaves no ping behind that nobody checked, even
\* when a process dies at any step, the partition is assigned again while its message is
\* with a loop, or an owner of long ago commits an old offset.
CommittedIsChecked == \A p \in Partitions : \A o \in 1..committed[p] : Settled(p, o)

\* The pings of a partition, and so those of a vehicle, reach a detector in order:
\* none is checked before each of its predecessors was, once at least.
CheckedInOrder ==
  \A p \in Partitions : \A o \in Offsets :
    <<p, o>> \in checked => \A n \in 1..(o - 1) : Settled(p, n)

\* A partition stays with a leader: all its pings get checked, or skipped.
LedPartitionsDrain ==
  \A p \in Partitions, i \in Instances :
    <>[](owner[p] = i /\ leading[i] /\ proc[i] = "running") => <>(\A o \in Offsets : Settled(p, o))

\* Seen from the topic, all this is one reader of each partition that works it through in
\* order and commits what is done: the instances that come, go and take over, their
\* leaderships and channels, add repetitions and nothing else.
Log == INSTANCE PartitionLog WITH handled <- checked

LogSpec == Log!Spec
=============================================================================
