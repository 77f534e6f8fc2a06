------------------------- MODULE PingDeliveryProofs -------------------------
(***************************************************************************)
(* Proofs about PingDelivery, for any number of instances, partitions,     *)
(* pings and leaderships, and any capacity of the channel.                 *)
(***************************************************************************)
EXTENDS PingDelivery, FiniteSetTheorems, TLAPS

\* All that comes before a message in its partition is settled.
BeforeSettled(m) == \A n \in 1..(m[2] - 1) : Settled(m[1], n)

----------------------------------------------------------------------------
(* The inductive invariant.                                                *)

\* The consumer and its one message.
ConsumerInv(i) ==
  /\ cpc[i] = "fetch" => inflight[i] = None
  /\ cpc[i] \in {"skip", "send", "wait"} => inflight[i] # None
  /\ cpc[i] = "skip" <=> inflight[i] \in Unparsable
  /\ cpc[i] = "send" => acks[i] = 0
  /\ cpc[i] = "wait" /\ acks[i] > 0 => inflight[i] \in checked
  /\ inflight[i] # None => BeforeSettled(inflight[i])

\* The message is in one place: with the consumer before it was sent, then in the
\* channel, then with one loop, and nowhere once it was acked, but not before.
PlaceInv(i) ==
  /\ cpc[i] \in {"fetch", "skip", "send"} => channel[i] = <<>> /\ \A t \in Terms : lmsg[i][t] = None
  /\ channel[i] # <<>> =>
       /\ channel[i] = <<inflight[i]>> /\ inflight[i] # None /\ acks[i] = 0
       /\ \A t \in Terms : lmsg[i][t] = None
  /\ \A t \in Terms : lmsg[i][t] # None =>
       /\ lmsg[i][t] = inflight[i] /\ acks[i] = 0
       /\ \A u \in Terms : u # t => lmsg[i][u] = None
  /\ cpc[i] = "wait" /\ acks[i] = 0 => channel[i] # <<>> \/ \E t \in Terms : lmsg[i][t] # None

\* The loops of the leaderships so far.
LoopInv(i) ==
  \A t \in Terms :
    /\ lpc[i][t] \in {"none", "select", "returned"} => lmsg[i][t] = None
    /\ lpc[i][t] \in {"check", "ack"} => lmsg[i][t] # None
    /\ lpc[i][t] = "ack" => lmsg[i][t] \in checked
    /\ t > term[i] => lpc[i][t] \in {"none", "returned"}

LocalInv == \A i \in Instances : ConsumerInv(i) /\ PlaceInv(i) /\ LoopInv(i)

\* What the owner of a partition has fetched is settled, but for what it is busy with.
FetchedInv ==
  \A p \in Partitions : \A i \in Instances : owner[p] = i =>
    \A o \in 1..(position[p] - 1) : Settled(p, o) \/ inflight[i] = <<p, o>>

IInv == TypeOK /\ LocalInv /\ FetchedInv /\ CommittedIsChecked /\ CheckedInOrder

----------------------------------------------------------------------------
(* Types.                                                                  *)

LEMMA MessageParts ==
  ASSUME NEW m \in Messages
  PROVE  /\ m[1] \in Partitions /\ m[2] \in Offsets /\ m = <<m[1], m[2]>>
BY DEF Messages

LEMMA CommitType ==
  ASSUME TypeOK, NEW m \in Messages, CommitMessages(m)
  PROVE  committed' \in [Partitions -> 0..Length]
<1>1. m[2] \in 0..Length /\ m[1] \in Partitions
  BY MessageParts, ConstantsAssumption DEF Offsets
<1>2. [committed EXCEPT ![m[1]] = m[2]] \in [Partitions -> 0..Length]
  BY <1>1 DEF TypeOK
<1> QED
  BY <1>2 DEF CommitMessages, TypeOK

LEMMA InitType == Init => TypeOK
BY ConstantsAssumption DEF Init, TypeOK

\* The invariant says where the messages are that the actions handle.
LEMMA NextType ==
  ASSUME TypeOK, LocalInv, [Next]_vars
  PROVE  TypeOK'
<1> USE ConstantsAssumption DEF TypeOK, groupVars, consumerVars, loopVars
<1>1. ASSUME NEW p \in Partitions, NEW i \in Instances, Assign(p, i)
      PROVE  TypeOK'
  <2>1. position' \in [Partitions -> 1..(Length + 1)]
    BY <1>1 DEF Assign, AssignedFrom
  <2>2. moves' \in 0..MaxMoves
    BY <1>1 DEF Assign
  <2>3. owner' \in [Partitions -> Instances \cup {None}]
    BY <1>1 DEF Assign
  <2> QED
    BY <1>1, <2>1, <2>2, <2>3 DEF Assign
<1>2. ASSUME NEW i \in Instances, Process(i)
      PROVE  TypeOK'
  <2>0. ConsumerInv(i) /\ PlaceInv(i) /\ LoopInv(i)
    BY DEF LocalInv
  <2>1. ASSUME NEW p \in Partitions, Fetch(i, p)
        PROVE  TypeOK'
    <3>1. <<p, position[p]>> \in Messages
      BY <2>1 DEF Fetch, HasNext, Messages, Offsets
    <3>2. position' \in [Partitions -> 1..(Length + 1)]
      BY <2>1 DEF Fetch, HasNext
    <3>3. inflight' \in [Instances -> Messages \cup {None}] /\ acks' \in [Instances -> Nat]
      BY <2>1, <3>1 DEF Fetch
    <3>4. cpc' \in [Instances -> {"fetch", "skip", "send", "wait", "returned"}]
      BY <2>1 DEF Fetch
    <3> QED
      BY <2>1, <3>2, <3>3, <3>4 DEF Fetch
  <2>2. CASE SkipUnparsable(i)
    <3>1. inflight[i] \in Messages
      BY <2>0, <2>2 DEF SkipUnparsable, ConsumerInv
    <3>2. committed' \in [Partitions -> 0..Length]
      BY <2>2, <3>1, CommitType DEF SkipUnparsable
    <3> QED
      BY <2>2, <3>2 DEF SkipUnparsable
  <2>3. CASE Send(i)
    <3>1. inflight[i] \in Messages
      BY <2>0, <2>3 DEF Send, ConsumerInv
    <3>2. Append(channel[i], inflight[i]) \in Seq(Messages)
      BY <3>1
    <3>3. channel' \in [Instances -> Seq(Messages)]
      BY <2>3, <3>2 DEF Send
    <3> QED
      BY <2>3, <3>3 DEF Send
  <2>4. CASE AwaitAck(i) \/ ConsumerReturn(i)
    BY <2>4 DEF AwaitAck, ConsumerReturn
  <2>5. CASE StartOptimizer(i)
    <3>1. term' \in [Instances -> 0..MaxTerm]
      BY <2>5 DEF StartOptimizer
    <3>2. lpc' \in [Instances -> [Terms -> {"none", "select", "check", "ack", "returned"}]]
      BY <2>5 DEF StartOptimizer
    <3> QED
      BY <2>5, <3>1, <3>2 DEF StartOptimizer
  <2>6. CASE CancelLeader(i)
    BY <2>6 DEF CancelLeader
  <2>7. ASSUME NEW t \in Terms, Take(i, t)
        PROVE  TypeOK'
    <3>1. Head(channel[i]) \in Messages /\ Tail(channel[i]) \in Seq(Messages)
      <4>1. channel[i] \in Seq(Messages) /\ channel[i] # <<>>
        BY <2>7 DEF Take
      <4> QED
        BY <4>1
    <3>2. channel' \in [Instances -> Seq(Messages)]
      BY <2>7, <3>1 DEF Take
    <3>3. lmsg' \in [Instances -> [Terms -> Messages \cup {None}]]
      BY <2>7, <3>1 DEF Take
    <3>4. lpc' \in [Instances -> [Terms -> {"none", "select", "check", "ack", "returned"}]]
      BY <2>7 DEF Take
    <3> QED
      BY <2>7, <3>2, <3>3, <3>4 DEF Take
  <2>8. ASSUME NEW t \in Terms, Check(i, t)
        PROVE  TypeOK'
    <3>1. lmsg[i][t] \in Messages
      BY <2>0, <2>8 DEF Check, LoopInv
    <3>2. lpc' \in [Instances -> [Terms -> {"none", "select", "check", "ack", "returned"}]]
      BY <2>8 DEF Check
    <3> QED
      BY <2>8, <3>1, <3>2 DEF Check
  <2>9. ASSUME NEW t \in Terms, Ack(i, t)
        PROVE  TypeOK'
    <3>1. lmsg[i][t] \in Messages
      BY <2>0, <2>9 DEF Ack, LoopInv
    <3>2. committed' \in [Partitions -> 0..Length]
      BY <2>9, <3>1, CommitType DEF Ack
    <3>3. acks' \in [Instances -> Nat]
      BY <2>9 DEF Ack
    <3>4. lmsg' \in [Instances -> [Terms -> Messages \cup {None}]]
      BY <2>9 DEF Ack
    <3>5. lpc' \in [Instances -> [Terms -> {"none", "select", "check", "ack", "returned"}]]
      BY <2>9 DEF Ack
    <3> QED
      BY <2>9, <3>2, <3>3, <3>4, <3>5 DEF Ack
  <2>10. ASSUME NEW t \in Terms, LoopReturn(i, t)
         PROVE  TypeOK'
    <3>1. lpc' \in [Instances -> [Terms -> {"none", "select", "check", "ack", "returned"}]]
      BY <2>10 DEF LoopReturn
    <3> QED
      BY <2>10, <3>1 DEF LoopReturn
  <2>11. CASE Cancel(i) \/ CloseReader(i)
    BY <2>11 DEF Cancel, CloseReader, Release
  <2>12. CASE Die(i)
    <3>1. /\ lpc' \in [Instances -> [Terms -> {"none", "select", "check", "ack", "returned"}]]
          /\ lmsg' \in [Instances -> [Terms -> Messages \cup {None}]]
          /\ channel' \in [Instances -> Seq(Messages)]
          /\ owner' \in [Partitions -> Instances \cup {None}]
      BY <2>12 DEF Die, Release
    <3> QED
      BY <2>12, <3>1 DEF Die
  <2> QED
    BY <1>2, <2>1, <2>2, <2>3, <2>4, <2>5, <2>6, <2>7, <2>8, <2>9, <2>10, <2>11, <2>12
       DEF Process, Consumer, OptimizerLoop
<1>3. CASE UNCHANGED vars
  BY <1>3 DEF vars
<1> QED
  BY <1>1, <1>2, <1>3 DEF Next

----------------------------------------------------------------------------
(* Where the message of an instance is.                                    *)

\* What is settled stays so.
LEMMA SettledGrows ==
  ASSUME checked \subseteq checked'
  PROVE  /\ \A p, o : Settled(p, o) => Settled(p, o)'
         /\ \A m : BeforeSettled(m) => BeforeSettled(m)'
BY DEF Settled, BeforeSettled

\* An instance is disturbed by no step of another.
LEMMA LocalFrame ==
  ASSUME NEW j \in Instances, ConsumerInv(j), PlaceInv(j), LoopInv(j), checked \subseteq checked',
         cpc'[j] = cpc[j], inflight'[j] = inflight[j], acks'[j] = acks[j], channel'[j] = channel[j],
         term'[j] = term[j], lpc'[j] = lpc[j], lmsg'[j] = lmsg[j]
  PROVE  ConsumerInv(j)' /\ PlaceInv(j)' /\ LoopInv(j)'
<1>1. ConsumerInv(j)'
  BY SettledGrows DEF ConsumerInv
<1>2. PlaceInv(j)'
  BY DEF PlaceInv
<1>3. LoopInv(j)'
  BY DEF LoopInv
<1> QED
  BY <1>1, <1>2, <1>3

LEMMA NoneIsParsable == None \notin Unparsable
BY ConstantsAssumption

LEMMA InitLocal == Init => LocalInv
BY NoneIsParsable DEF Init, LocalInv, ConsumerInv, PlaceInv, LoopInv, Terms

\* The consumer fetches from a partition whose earlier messages are settled: it is
\* busy with none.
LEMMA FetchLocal ==
  ASSUME IInv, NEW i \in Instances, NEW p \in Partitions, Fetch(i, p)
  PROVE  ConsumerInv(i)' /\ PlaceInv(i)' /\ LoopInv(i)'
<1>m. PICK m : m = <<p, position[p]>>
  OBVIOUS
<1>0. ConsumerInv(i) /\ PlaceInv(i) /\ LoopInv(i)
  BY DEF IInv, LocalInv
<1>1. /\ cpc[i] = "fetch" /\ owner[p] = i
      /\ inflight'[i] = m /\ acks'[i] = 0
      /\ cpc'[i] = IF m \in Unparsable THEN "skip" ELSE "send"
      /\ UNCHANGED <<channel, term, lpc, lmsg, checked>>
  BY <1>m DEF Fetch, IInv, TypeOK, loopVars
<1>2. m \in Messages /\ m # None /\ m[1] = p /\ m[2] = position[p]
  BY <1>m, ConstantsAssumption DEF Fetch, HasNext, Messages, Offsets, IInv, TypeOK
<1>3. inflight[i] = None
  BY <1>0, <1>1 DEF ConsumerInv
<1>4. \A o \in 1..(position[p] - 1) : Settled(p, o)
  <2>1. \A o : inflight[i] # <<p, o>> \/ o \notin Offsets
    BY <1>3, ConstantsAssumption DEF Messages
  <2>2. \A o \in 1..(position[p] - 1) : o \in Offsets
    <3>1. position[p] \in 1..Length
      BY ConstantsAssumption DEF Fetch, HasNext, IInv, TypeOK
    <3> QED
      BY <3>1, ConstantsAssumption DEF Offsets
  <2> QED
    BY <1>1, <2>1, <2>2 DEF IInv, FetchedInv
<1>5. BeforeSettled(m)'
  BY <1>1, <1>2, <1>4 DEF BeforeSettled, Settled
<1>6. ConsumerInv(i)'
  BY <1>1, <1>2, <1>5 DEF ConsumerInv
<1>7. PlaceInv(i)' /\ LoopInv(i)'
  BY <1>0, <1>1, <1>3 DEF PlaceInv, LoopInv
<1> QED
  BY <1>6, <1>7

LEMMA NextLocal ==
  ASSUME IInv, [Next]_vars
  PROVE  LocalInv'
<1> USE DEF groupVars, consumerVars, loopVars
<1>t. TypeOK /\ LocalInv
  BY DEF IInv
<1>f. ASSUME NEW j \in Instances, checked \subseteq checked',
             cpc'[j] = cpc[j], inflight'[j] = inflight[j], acks'[j] = acks[j], channel'[j] = channel[j],
             term'[j] = term[j], lpc'[j] = lpc[j], lmsg'[j] = lmsg[j]
      PROVE  ConsumerInv(j)' /\ PlaceInv(j)' /\ LoopInv(j)'
  BY <1>t, <1>f, LocalFrame DEF LocalInv
<1>1. ASSUME NEW p \in Partitions, NEW i \in Instances, Assign(p, i)
      PROVE  LocalInv'
  BY <1>1, <1>f DEF Assign, LocalInv
<1>2. ASSUME NEW i \in Instances, Process(i)
      PROVE  LocalInv'
  <2>0. ConsumerInv(i) /\ PlaceInv(i) /\ LoopInv(i)
    BY <1>t DEF LocalInv
  <2>1. ASSUME NEW p \in Partitions, Fetch(i, p)
        PROVE  LocalInv'
    BY <2>1, <1>f, <1>t, FetchLocal DEF Fetch, LocalInv, TypeOK
  <2>2. CASE SkipUnparsable(i)
    <3>1. ConsumerInv(i)' /\ PlaceInv(i)' /\ LoopInv(i)'
      BY <2>0, <2>2, <1>t, NoneIsParsable DEF SkipUnparsable, TypeOK, ConsumerInv, PlaceInv, LoopInv
    <3> QED
      BY <2>2, <3>1, <1>f, <1>t DEF SkipUnparsable, LocalInv, TypeOK
  <2>3. CASE Send(i)
    <3>1. Append(<<>>, inflight[i]) = <<inflight[i]>>
      OBVIOUS
    <3>2. /\ cpc[i] = "send" /\ channel[i] = <<>>
          /\ channel'[i] = <<inflight[i]>> /\ cpc'[i] = "wait"
          /\ UNCHANGED <<inflight, acks, term, lpc, lmsg, checked>>
      BY <2>0, <2>3, <3>1, <1>t DEF Send, TypeOK, PlaceInv
    <3>3. ConsumerInv(i)'
      BY <2>0, <3>2 DEF ConsumerInv, BeforeSettled, Settled
    <3>4. PlaceInv(i)'
      BY <2>0, <3>2 DEF PlaceInv, ConsumerInv
    <3>5. LoopInv(i)'
      BY <2>0, <3>2 DEF LoopInv
    <3> QED
      BY <2>3, <3>3, <3>4, <3>5, <1>f, <1>t DEF Send, LocalInv, TypeOK
  <2>4. CASE AwaitAck(i)
    <3>1. /\ acks[i] > 0 /\ inflight'[i] = None /\ cpc'[i] = "fetch"
          /\ UNCHANGED <<acks, channel, term, lpc, lmsg, checked>>
      BY <2>4, <1>t DEF AwaitAck, Acked, TypeOK
    <3>2. channel[i] = <<>> /\ \A t \in Terms : lmsg[i][t] = None
      BY <2>0, <3>1 DEF PlaceInv
    <3>3. ConsumerInv(i)' /\ PlaceInv(i)' /\ LoopInv(i)'
      BY <2>0, <3>1, <3>2, NoneIsParsable DEF ConsumerInv, PlaceInv, LoopInv
    <3> QED
      BY <2>4, <3>3, <1>f, <1>t DEF AwaitAck, LocalInv, TypeOK
  <2>5. CASE ConsumerReturn(i)
    <3>1. /\ cpc[i] # "skip" /\ cpc'[i] = "returned"
          /\ UNCHANGED <<inflight, acks, channel, term, lpc, lmsg, checked>>
      BY <2>5, <1>t DEF ConsumerReturn, TypeOK
    <3>2. ConsumerInv(i)' /\ PlaceInv(i)' /\ LoopInv(i)'
      BY <2>0, <3>1 DEF ConsumerInv, PlaceInv, LoopInv, BeforeSettled, Settled
    <3> QED
      BY <2>5, <3>2, <1>f, <1>t DEF ConsumerReturn, LocalInv, TypeOK
  <2>6. CASE StartOptimizer(i)
    <3>1. /\ term[i] + 1 \in Terms /\ term'[i] = term[i] + 1
          /\ lpc'[i] = [lpc[i] EXCEPT ![term[i] + 1] = "select"]
          /\ UNCHANGED <<cpc, inflight, acks, channel, lmsg, checked>>
      BY <2>6, <1>t, ConstantsAssumption DEF StartOptimizer, TypeOK, Terms
    <3>2. ConsumerInv(i)' /\ PlaceInv(i)'
      BY <2>0, <3>1 DEF ConsumerInv, PlaceInv, BeforeSettled, Settled
    <3>3. LoopInv(i)'
      BY <2>0, <3>1, <1>t DEF LoopInv, TypeOK, Terms
    <3> QED
      BY <2>6, <3>2, <3>3, <1>f, <1>t DEF StartOptimizer, LocalInv, TypeOK
  <2>7. CASE CancelLeader(i)
    BY <2>7, <1>f DEF CancelLeader, LocalInv
  <2>8. ASSUME NEW t \in Terms, Take(i, t)
        PROVE  LocalInv'
    <3>1. channel[i] = <<inflight[i]>> /\ lpc[i][t] = "select"
      BY <2>0, <2>8 DEF Take, PlaceInv
    <3>2. Head(channel[i]) = inflight[i] /\ Tail(channel[i]) = <<>>
      BY <3>1
    <3>3. /\ channel'[i] = <<>>
          /\ lmsg'[i] = [lmsg[i] EXCEPT ![t] = inflight[i]]
          /\ lpc'[i] = [lpc[i] EXCEPT ![t] = "check"]
          /\ UNCHANGED <<cpc, inflight, acks, term, checked>>
      BY <2>8, <3>2, <1>t DEF Take, TypeOK
    <3>4. ConsumerInv(i)'
      BY <2>0, <3>3 DEF ConsumerInv, BeforeSettled, Settled
    <3>5. PlaceInv(i)'
      BY <2>0, <2>8, <3>1, <3>3, <1>t DEF PlaceInv, TypeOK, Take
    <3>6. LoopInv(i)'
      BY <2>0, <2>8, <3>1, <3>3, <1>t DEF LoopInv, PlaceInv, TypeOK, Take, Terms
    <3> QED
      BY <2>8, <3>4, <3>5, <3>6, <1>f, <1>t DEF Take, LocalInv, TypeOK
  <2>9. ASSUME NEW t \in Terms, Check(i, t)
        PROVE  LocalInv'
    <3>1. /\ lpc[i][t] = "check" /\ lpc'[i] = [lpc[i] EXCEPT ![t] = "ack"]
          /\ checked' = checked \cup {lmsg[i][t]}
          /\ UNCHANGED <<cpc, inflight, acks, channel, term, lmsg>>
      BY <2>9, <1>t DEF Check, TypeOK
    <3>2. ConsumerInv(i)'
      BY <2>0, <3>1, SettledGrows DEF ConsumerInv
    <3>3. PlaceInv(i)'
      BY <2>0, <3>1 DEF PlaceInv
    <3>4. LoopInv(i)'
      BY <2>0, <3>1, <1>t DEF LoopInv, TypeOK, Terms
    <3> QED
      BY <2>9, <3>1, <3>2, <3>3, <3>4, <1>f, <1>t DEF Check, LocalInv, TypeOK
  <2>10. ASSUME NEW t \in Terms, Ack(i, t)
         PROVE  LocalInv'
    <3>1. /\ lpc[i][t] = "ack" /\ lpc'[i] = [lpc[i] EXCEPT ![t] = "select"]
          /\ lmsg'[i] = [lmsg[i] EXCEPT ![t] = None]
          /\ acks'[i] = acks[i] + 1
          /\ UNCHANGED <<cpc, inflight, channel, term, checked>>
      BY <2>10, <1>t DEF Ack, TypeOK
    <3>2. /\ lmsg[i][t] # None /\ lmsg[i][t] \in checked /\ lmsg[i][t] = inflight[i]
          /\ \A u \in Terms : u # t => lmsg[i][u] = None
      BY <2>0, <3>1 DEF LoopInv, PlaceInv
    <3>3. channel[i] = <<>> /\ cpc[i] \in {"wait", "returned"}
      BY <2>0, <3>2, <1>t DEF PlaceInv, TypeOK
    <3>4. ConsumerInv(i)'
      BY <2>0, <3>1, <3>2, <3>3 DEF ConsumerInv, BeforeSettled, Settled
    <3>5. PlaceInv(i)'
      BY <2>0, <3>1, <3>2, <3>3, <1>t DEF PlaceInv, TypeOK
    <3>6. LoopInv(i)'
      BY <2>0, <3>1, <3>2, <1>t DEF LoopInv, TypeOK, Terms
    <3> QED
      BY <2>10, <3>4, <3>5, <3>6, <1>f, <1>t DEF Ack, LocalInv, TypeOK
  <2>11. ASSUME NEW t \in Terms, LoopReturn(i, t)
         PROVE  LocalInv'
    <3>1. /\ lpc[i][t] = "select" /\ lpc'[i] = [lpc[i] EXCEPT ![t] = "returned"]
          /\ UNCHANGED <<cpc, inflight, acks, channel, term, lmsg, checked>>
      BY <2>11, <1>t DEF LoopReturn, TypeOK
    <3>2. ConsumerInv(i)' /\ PlaceInv(i)'
      BY <2>0, <3>1 DEF ConsumerInv, PlaceInv, BeforeSettled, Settled
    <3>3. LoopInv(i)'
      BY <2>0, <3>1, <1>t DEF LoopInv, TypeOK, Terms
    <3> QED
      BY <2>11, <3>2, <3>3, <1>f, <1>t DEF LoopReturn, LocalInv, TypeOK
  <2>12. CASE Cancel(i) \/ CloseReader(i)
    BY <2>12, <1>f DEF Cancel, CloseReader, LocalInv
  <2>13. CASE Die(i)
    <3>1. /\ cpc'[i] = "returned" /\ inflight'[i] = None /\ channel'[i] = <<>>
          /\ lpc'[i] = [t \in Terms |-> "returned"] /\ lmsg'[i] = [t \in Terms |-> None]
          /\ UNCHANGED <<acks, term, checked>>
      BY <2>13, <1>t DEF Die, TypeOK
    <3>2. ConsumerInv(i)' /\ PlaceInv(i)' /\ LoopInv(i)'
      BY <3>1, NoneIsParsable DEF ConsumerInv, PlaceInv, LoopInv
    <3> QED
      BY <2>13, <3>2, <1>f, <1>t DEF Die, LocalInv, TypeOK
  <2> QED
    BY <1>2, <2>1, <2>2, <2>3, <2>4, <2>5, <2>6, <2>7, <2>8, <2>9, <2>10, <2>11, <2>12, <2>13
       DEF Process, Consumer, OptimizerLoop
<1>3. CASE UNCHANGED vars
  BY <1>3, <1>f DEF vars, LocalInv
<1> QED
  BY <1>1, <1>2, <1>3 DEF Next

----------------------------------------------------------------------------
(* What is fetched, committed and checked.                                 *)

LEMMA InitGlobal == Init => FetchedInv /\ CommittedIsChecked /\ CheckedInOrder
BY DEF Init, FetchedInv, CommittedIsChecked, CheckedInOrder

\* A commit of a settled message whose predecessors are settled, be it an old one.
LEMMA CommitSettled ==
  ASSUME TypeOK, CommittedIsChecked, NEW m \in Messages, CommitMessages(m), UNCHANGED checked,
         BeforeSettled(m), m \in checked \cup Unparsable
  PROVE  CommittedIsChecked'
<1>1. m[1] \in Partitions /\ m[2] \in Nat /\ m = <<m[1], m[2]>>
  BY MessageParts, ConstantsAssumption DEF Offsets
<1>2. \A o \in 1..m[2] : Settled(m[1], o)
  <2> SUFFICES ASSUME NEW o \in 1..m[2]
               PROVE  Settled(m[1], o)
    OBVIOUS
  <2>1. CASE o = m[2]
    BY <1>1, <2>1 DEF Settled
  <2>2. CASE o # m[2]
    <3>1. o \in 1..(m[2] - 1)
      BY <1>1, <2>2
    <3> QED
      BY <3>1 DEF BeforeSettled
  <2> QED
    BY <2>1, <2>2
<1>3. CASE committed' = committed
  BY <1>3 DEF CommittedIsChecked, Settled
<1>4. CASE committed' = [committed EXCEPT ![m[1]] = m[2]]
  <2> SUFFICES ASSUME NEW p \in Partitions, NEW o \in 1..committed'[p]
               PROVE  Settled(p, o)
    BY DEF CommittedIsChecked, Settled
  <2>1. CASE p = m[1]
    BY <1>1, <1>2, <1>4, <2>1 DEF TypeOK
  <2>2. CASE p # m[1]
    BY <1>4, <2>2 DEF TypeOK, CommittedIsChecked
  <2> QED
    BY <2>1, <2>2
<1> QED
  BY <1>3, <1>4 DEF CommitMessages

\* The owners, what they fetched and what is in flight stay, or end with the process.
LEMMA FetchedFrame ==
  ASSUME FetchedInv, UNCHANGED position, checked \subseteq checked',
         \A p \in Partitions : owner'[p] = owner[p] \/ owner'[p] = None,
         \A p \in Partitions : owner'[p] \in Instances => inflight'[owner[p]] = inflight[owner[p]],
         None \notin Instances
  PROVE  FetchedInv'
BY SettledGrows DEF FetchedInv

\* The message that an owner is done with is settled.
LEMMA FetchedDone ==
  ASSUME TypeOK, FetchedInv, UNCHANGED <<position, owner, checked>>, NEW i \in Instances,
         inflight' = [inflight EXCEPT ![i] = None], inflight[i] \in checked \cup Unparsable
  PROVE  FetchedInv'
<1> SUFFICES ASSUME NEW p \in Partitions, NEW j \in Instances, owner[p] = j,
                    NEW o \in 1..(position[p] - 1)
             PROVE  Settled(p, o) \/ inflight'[j] = <<p, o>>
  BY DEF FetchedInv, Settled
<1>1. Settled(p, o) \/ inflight[j] = <<p, o>>
  BY DEF FetchedInv
<1>2. CASE i = j
  BY <1>1, <1>2 DEF Settled
<1>3. CASE i # j
  BY <1>1, <1>3 DEF TypeOK
<1> QED
  BY <1>2, <1>3

LEMMA NextGlobal ==
  ASSUME IInv, TypeOK', [Next]_vars
  PROVE  FetchedInv' /\ CommittedIsChecked' /\ CheckedInOrder'
<1> USE DEF groupVars, consumerVars, loopVars
<1>t. TypeOK /\ LocalInv /\ FetchedInv /\ CommittedIsChecked /\ CheckedInOrder
  BY DEF IInv
<1>n. None \notin Instances
  BY ConstantsAssumption
<1>c. UNCHANGED <<committed, checked>> => CommittedIsChecked'
  BY <1>t DEF CommittedIsChecked, Settled
<1>k. UNCHANGED checked => CheckedInOrder'
  BY <1>t DEF CheckedInOrder, Settled
<1>f. UNCHANGED <<position, owner, inflight, checked>> => FetchedInv'
  BY <1>t DEF FetchedInv, Settled
<1>1. ASSUME NEW p \in Partitions, NEW i \in Instances, Assign(p, i)
      PROVE  FetchedInv' /\ CommittedIsChecked' /\ CheckedInOrder'
  <2>1. /\ position' = [position EXCEPT ![p] = committed[p] + 1]
        /\ owner' = [owner EXCEPT ![p] = i]
        /\ UNCHANGED <<committed, inflight, checked>>
    BY <1>1 DEF Assign, AssignedFrom
  <2>2. FetchedInv'
    <3> SUFFICES ASSUME NEW q \in Partitions, NEW j \in Instances, owner'[q] = j,
                        NEW o \in 1..(position'[q] - 1)
                 PROVE  Settled(q, o) \/ inflight[j] = <<q, o>>
      BY <2>1 DEF FetchedInv, Settled
    <3>1. CASE q = p
      <4>1. committed[p] \in Nat /\ position'[q] = committed[p] + 1
        BY <2>1, <3>1, <1>t, ConstantsAssumption DEF TypeOK
      <4>2. o \in 1..committed[p]
        BY <4>1
      <4> QED
        BY <4>2, <3>1, <1>t DEF CommittedIsChecked
    <3>2. CASE q # p
      BY <2>1, <3>2, <1>t DEF TypeOK, FetchedInv
    <3> QED
      BY <3>1, <3>2
  <2> QED
    BY <2>1, <2>2, <1>c, <1>k
<1>2. ASSUME NEW i \in Instances, Process(i)
      PROVE  FetchedInv' /\ CommittedIsChecked' /\ CheckedInOrder'
  <2>0. ConsumerInv(i) /\ PlaceInv(i) /\ LoopInv(i)
    BY <1>t DEF LocalInv
  <2>1. ASSUME NEW p \in Partitions, Fetch(i, p)
        PROVE  FetchedInv' /\ CommittedIsChecked' /\ CheckedInOrder'
    <3>1. /\ cpc[i] = "fetch" /\ owner[p] = i
          /\ position' = [position EXCEPT ![p] = position[p] + 1]
          /\ inflight' = [inflight EXCEPT ![i] = <<p, position[p]>>]
          /\ UNCHANGED <<owner, committed, checked>>
      BY <2>1 DEF Fetch
    <3>2. inflight[i] = None
      BY <2>0, <3>1 DEF ConsumerInv
    <3>3. FetchedInv'
      <4> SUFFICES ASSUME NEW q \in Partitions, NEW j \in Instances, owner[q] = j,
                          NEW o \in 1..(position'[q] - 1)
                   PROVE  Settled(q, o) \/ inflight'[j] = <<q, o>>
        BY <3>1 DEF FetchedInv, Settled
      <4>p. position[q] \in 1..(Length + 1) /\ position[p] \in 1..(Length + 1)
        BY <1>t DEF TypeOK
      <4>1. CASE q = p /\ o = position[p]
        BY <3>1, <4>1, <1>t DEF TypeOK
      <4>2. CASE ~(q = p /\ o = position[p])
        <5>1. o \in 1..(position[q] - 1)
          <6>1. CASE q = p
            <7>1. position'[q] = position[p] + 1 /\ o # position[p]
              BY <3>1, <4>2, <6>1, <1>t DEF TypeOK
            <7> QED
              BY <7>1, <6>1, <4>p, ConstantsAssumption
          <6>2. CASE q # p
            BY <3>1, <6>2, <1>t DEF TypeOK
          <6> QED
            BY <6>1, <6>2
        <5>2. Settled(q, o) \/ inflight[j] = <<q, o>>
          BY <5>1, <1>t DEF FetchedInv
        <5>3. o \in Offsets
          BY <5>1, <4>p, ConstantsAssumption DEF Offsets
        <5>4. inflight[i] # <<q, o>>
          BY <3>2, <5>3, ConstantsAssumption DEF Messages
        <5>5. CASE j = i
          BY <5>2, <5>4, <5>5
        <5>6. CASE j # i
          BY <5>2, <5>6, <3>1, <1>t DEF TypeOK
        <5> QED
          BY <5>5, <5>6
      <4> QED
        BY <4>1, <4>2
    <3> QED
      BY <3>1, <3>3, <1>c, <1>k
  <2>2. CASE SkipUnparsable(i)
    <3>1. /\ inflight[i] \in Messages /\ inflight[i] \in Unparsable /\ BeforeSettled(inflight[i])
      BY <2>0, <2>2, <1>t, ConstantsAssumption DEF SkipUnparsable, ConsumerInv, TypeOK
    <3>2. CommittedIsChecked'
      BY <2>2, <3>1, <1>t, CommitSettled DEF SkipUnparsable
    <3>3. FetchedInv'
      BY <2>2, <3>1, <1>t, FetchedDone DEF SkipUnparsable
    <3> QED
      BY <2>2, <3>2, <3>3, <1>k DEF SkipUnparsable
  <2>3. CASE AwaitAck(i)
    <3>1. inflight[i] \in checked
      BY <2>0, <2>3 DEF AwaitAck, Acked, ConsumerInv
    <3>2. FetchedInv'
      BY <2>3, <3>1, <1>t, FetchedDone DEF AwaitAck
    <3> QED
      BY <2>3, <3>2, <1>c, <1>k DEF AwaitAck
  <2>4. CASE Send(i) \/ ConsumerReturn(i) \/ StartOptimizer(i) \/ CancelLeader(i) \/ Cancel(i)
    BY <2>4, <1>c, <1>k, <1>f DEF Send, ConsumerReturn, StartOptimizer, CancelLeader, Cancel
  <2>5. ASSUME NEW t \in Terms, Take(i, t) \/ LoopReturn(i, t)
        PROVE  FetchedInv' /\ CommittedIsChecked' /\ CheckedInOrder'
    BY <2>5, <1>c, <1>k, <1>f DEF Take, LoopReturn
  <2>6. ASSUME NEW t \in Terms, Check(i, t)
        PROVE  FetchedInv' /\ CommittedIsChecked' /\ CheckedInOrder'
    <3>1. /\ checked' = checked \cup {lmsg[i][t]}
          /\ UNCHANGED <<owner, position, committed, inflight>>
      BY <2>6 DEF Check
    <3>2. lmsg[i][t] # None /\ lmsg[i][t] = inflight[i]
      BY <2>0, <2>6 DEF Check, LoopInv, PlaceInv
    <3>3. BeforeSettled(lmsg[i][t])
      BY <2>0, <3>2 DEF ConsumerInv
    <3>4. checked \subseteq checked'
      BY <3>1
    <3>5. CommittedIsChecked'
      BY <3>1, <3>4, <1>t, SettledGrows DEF CommittedIsChecked
    <3>6. FetchedInv'
      BY <3>1, <3>4, <1>t, SettledGrows DEF FetchedInv
    <3>7. CheckedInOrder'
      <4> SUFFICES ASSUME NEW p \in Partitions, NEW o \in Offsets, <<p, o>> \in checked',
                          NEW n \in 1..(o - 1)
                   PROVE  Settled(p, n)
        BY <3>4, SettledGrows DEF CheckedInOrder
      <4>1. CASE <<p, o>> \in checked
        BY <4>1, <1>t DEF CheckedInOrder
      <4>2. CASE <<p, o>> = lmsg[i][t]
        BY <4>2, <3>3 DEF BeforeSettled
      <4> QED
        BY <3>1, <4>1, <4>2
    <3> QED
      BY <3>5, <3>6, <3>7
  <2>7. ASSUME NEW t \in Terms, Ack(i, t)
        PROVE  FetchedInv' /\ CommittedIsChecked' /\ CheckedInOrder'
    <3>1. /\ lmsg[i][t] \in Messages /\ lmsg[i][t] \in checked /\ lmsg[i][t] = inflight[i]
      BY <2>0, <2>7, <1>t DEF Ack, LoopInv, PlaceInv, TypeOK
    <3>2. BeforeSettled(lmsg[i][t])
      BY <2>0, <3>1, ConstantsAssumption DEF ConsumerInv
    <3>3. CommittedIsChecked'
      BY <2>7, <3>1, <3>2, <1>t, CommitSettled DEF Ack
    <3> QED
      BY <2>7, <3>3, <1>f, <1>k DEF Ack
  <2>8. CASE CloseReader(i)
    <3>1. FetchedInv'
      BY <2>8, <1>t, <1>n, FetchedFrame DEF CloseReader, Release, TypeOK
    <3> QED
      BY <2>8, <3>1, <1>c, <1>k DEF CloseReader
  <2>9. CASE Die(i)
    <3>1. \A p \in Partitions : owner'[p] = owner[p] \/ owner'[p] = None
      BY <2>9, <1>t DEF Die, Release, TypeOK
    <3>2. \A p \in Partitions : owner'[p] \in Instances => inflight'[owner[p]] = inflight[owner[p]]
      BY <2>9, <1>t, <1>n DEF Die, Release, TypeOK
    <3>3. FetchedInv'
      BY <2>9, <3>1, <3>2, <1>t, <1>n, FetchedFrame DEF Die
    <3> QED
      BY <2>9, <3>3, <1>c, <1>k DEF Die
  <2> QED
    BY <1>2, <2>1, <2>2, <2>3, <2>4, <2>5, <2>6, <2>7, <2>8, <2>9
       DEF Process, Consumer, OptimizerLoop
<1>3. CASE UNCHANGED vars
  BY <1>3, <1>c, <1>k, <1>f DEF vars
<1> QED
  BY <1>1, <1>2, <1>3 DEF Next

----------------------------------------------------------------------------
(* The theorems.                                                           *)

LEMMA Inductive == Spec => []IInv
<1>1. Init => IInv
  BY InitType, InitLocal, InitGlobal DEF IInv
<1>2. IInv /\ [Next]_vars => IInv'
  <2> SUFFICES ASSUME IInv, [Next]_vars
               PROVE  IInv'
    OBVIOUS
  <2>1. TypeOK'
    BY NextType DEF IInv
  <2>2. LocalInv'
    BY NextLocal
  <2> QED
    BY <2>1, <2>2, NextGlobal DEF IInv
<1> QED
  BY <1>1, <1>2, PTL DEF Spec

LEMMA InitLog == Init => Log!Init
BY DEF Init, Log!Init

\* A settled message whose predecessors are settled is a commit of the log, or is not
\* committed at all.
LEMMA CommitOfLog ==
  ASSUME NEW m \in Messages, CommitMessages(m), UNCHANGED checked,
         BeforeSettled(m), m \in checked \cup Unparsable
  PROVE  [Log!Next]_(Log!logVars)
<1>1. m[1] \in Partitions /\ m[2] \in 1..Length /\ m = <<m[1], m[2]>>
  BY MessageParts DEF Offsets
<1>2. \A n \in 1..m[2] : Log!Done(m[1], n)
  <2> SUFFICES ASSUME NEW n \in 1..m[2]
               PROVE  <<m[1], n>> \in checked \cup Unparsable
    BY DEF Log!Done
  <2>1. CASE n = m[2]
    BY <1>1, <2>1
  <2>2. CASE n # m[2]
    <3>1. n \in 1..(m[2] - 1)
      BY <1>1, <2>2, ConstantsAssumption
    <3> QED
      BY <3>1 DEF BeforeSettled, Settled
  <2> QED
    BY <2>1, <2>2
<1>3. CASE committed' = committed
  BY <1>3 DEF Log!logVars
<1>4. CASE committed' = [committed EXCEPT ![m[1]] = m[2]]
  <2>1. Log!Commit(m[1], m[2])
    BY <1>2, <1>4 DEF Log!Commit
  <2> QED
    BY <1>1, <2>1 DEF Log!Next
<1> QED
  BY <1>3, <1>4 DEF CommitMessages

LEMMA NextLog == IInv /\ [Next]_vars => [Log!Next]_(Log!logVars)
<1> SUFFICES ASSUME IInv, [Next]_vars
             PROVE  [Log!Next]_(Log!logVars)
  OBVIOUS
<1> USE DEF groupVars, consumerVars, loopVars
<1>t. TypeOK /\ LocalInv
  BY DEF IInv
<1>u. UNCHANGED <<checked, committed>> => [Log!Next]_(Log!logVars)
  BY DEF Log!logVars
<1>1. ASSUME NEW p \in Partitions, NEW i \in Instances, Assign(p, i)
      PROVE  [Log!Next]_(Log!logVars)
  BY <1>1, <1>u DEF Assign
<1>2. ASSUME NEW i \in Instances, Process(i)
      PROVE  [Log!Next]_(Log!logVars)
  <2>0. ConsumerInv(i) /\ PlaceInv(i) /\ LoopInv(i)
    BY <1>t DEF LocalInv
  <2>1. CASE SkipUnparsable(i)
    <3>1. inflight[i] \in Messages /\ inflight[i] \in Unparsable /\ BeforeSettled(inflight[i])
      BY <2>0, <2>1, <1>t, ConstantsAssumption DEF SkipUnparsable, ConsumerInv, TypeOK
    <3> QED
      BY <2>1, <3>1, CommitOfLog DEF SkipUnparsable
  <2>2. ASSUME NEW t \in Terms, Check(i, t)
        PROVE  [Log!Next]_(Log!logVars)
    <3>1. /\ checked' = checked \cup {lmsg[i][t]} /\ UNCHANGED committed
          /\ lmsg[i][t] = inflight[i] /\ inflight[i] \in Messages
      BY <2>0, <2>2, <1>t DEF Check, LoopInv, PlaceInv, TypeOK
    <3>2. BeforeSettled(inflight[i]) /\ inflight[i] \notin Unparsable
      <4>1. lmsg[i][t] # None /\ cpc[i] # "skip"
        BY <2>0, <2>2 DEF Check, LoopInv, PlaceInv
      <4> QED
        BY <2>0, <3>1, <4>1 DEF ConsumerInv
    <3>3. PICK p, o : p \in Partitions /\ o \in 1..Length /\ inflight[i] = <<p, o>>
      BY <3>1, MessageParts DEF Offsets
    <3>4. Log!Handle(p, o)
      BY <3>1, <3>2, <3>3 DEF Log!Handle, Log!Done, BeforeSettled, Settled
    <3> QED
      BY <3>3, <3>4 DEF Log!Next
  <2>3. ASSUME NEW t \in Terms, Ack(i, t)
        PROVE  [Log!Next]_(Log!logVars)
    <3>1. /\ lmsg[i][t] \in Messages /\ lmsg[i][t] \in checked /\ lmsg[i][t] = inflight[i]
      BY <2>0, <2>3, <1>t DEF Ack, LoopInv, PlaceInv, TypeOK
    <3>2. BeforeSettled(lmsg[i][t])
      BY <2>0, <3>1, ConstantsAssumption DEF ConsumerInv
    <3> QED
      BY <2>3, <3>1, <3>2, CommitOfLog DEF Ack
  <2>4. CASE \/ (\E p \in Partitions : Fetch(i, p)) \/ Send(i) \/ AwaitAck(i) \/ ConsumerReturn(i)
             \/ StartOptimizer(i) \/ CancelLeader(i) \/ Cancel(i) \/ CloseReader(i) \/ Die(i)
    BY <2>4, <1>u DEF Fetch, Send, AwaitAck, ConsumerReturn, StartOptimizer, CancelLeader, Cancel, CloseReader, Die
  <2>5. ASSUME NEW t \in Terms, Take(i, t) \/ LoopReturn(i, t)
        PROVE  [Log!Next]_(Log!logVars)
    BY <2>5, <1>u DEF Take, LoopReturn
  <2> QED
    BY <1>2, <2>1, <2>2, <2>3, <2>4, <2>5 DEF Process, Consumer, OptimizerLoop
<1>3. CASE UNCHANGED vars
  BY <1>3, <1>u DEF vars
<1> QED
  BY <1>1, <1>2, <1>3 DEF Next

\* The delivery implements the log: a step of a process is a step of the reader of one
\* partition, or none, so no failover and no rebalance leaves out or overtakes a ping.
THEOREM ImplementsLog == Spec => LogSpec
<1>1. Init => Log!Init
  BY InitLog
<1>2. IInv /\ [Next]_vars => [Log!Next]_(Log!logVars)
  BY NextLog
<1> QED
  BY <1>1, <1>2, Inductive, PTL DEF Spec, LogSpec, Log!Spec

\* The log alone promises delivery in order, once at least, and that what is committed
\* was delivered: whatever works a partition through in this way loses no ping.
THEOREM LogKeepsPromise == LogSpec => [](CommittedIsChecked /\ CheckedInOrder)
<1> DEFINE Kept == CommittedIsChecked /\ CheckedInOrder /\ committed \in [Partitions -> Nat]
<1>1. Log!Init => Kept
  BY DEF Log!Init, CommittedIsChecked, CheckedInOrder
<1>2. Kept /\ [Log!Next]_(Log!logVars) => Kept'
  <2> SUFFICES ASSUME Kept, [Log!Next]_(Log!logVars)
               PROVE  Kept'
    OBVIOUS
  <2>1. ASSUME NEW p \in Partitions, NEW o \in 1..Length, Log!Handle(p, o)
        PROVE  Kept'
    BY <2>1 DEF Log!Handle, Log!Done, CommittedIsChecked, CheckedInOrder, Settled
  <2>2. ASSUME NEW p \in Partitions, NEW o \in 1..Length, Log!Commit(p, o)
        PROVE  Kept'
    BY <2>2 DEF Log!Commit, Log!Done, CommittedIsChecked, CheckedInOrder, Settled
  <2>3. CASE UNCHANGED Log!logVars
    BY <2>3 DEF Log!logVars, CommittedIsChecked, CheckedInOrder, Settled
  <2> QED
    BY <2>1, <2>2, <2>3 DEF Log!Next
<1> QED
  BY <1>1, <1>2, PTL DEF LogSpec, Log!Spec

----------------------------------------------------------------------------
(* Without a new generation and a process that stops, exactly once.        *)

\* No process has stopped or died, and no partition was assigned again since it got its
\* owner, to another instance or to the same.
Steady == moves = 0 /\ \A i \in Instances : proc[i] = "running"

\* The message of i has still to be checked.
Unchecked(i) == cpc[i] = "send" \/ channel[i] # <<>> \/ \E t \in Terms : lpc[i][t] = "check"

\* What was fetched lies before the position of the reader, which never goes back, and
\* is busy with its owner only.
SteadyInv ==
  Steady =>
    /\ \A m \in checked : owner[m[1]] # None /\ m[2] < position[m[1]]
    /\ \A i \in Instances : inflight[i] # None =>
         owner[inflight[i][1]] = i /\ inflight[i][2] < position[inflight[i][1]]
    /\ \A i \in Instances : Unchecked(i) => inflight[i] \notin checked

LEMMA InitSteady == Init => SteadyInv
BY DEF Init, SteadyInv, Unchecked

LEMMA SteadyBefore ==
  ASSUME TypeOK, [Next]_vars, Steady'
  PROVE  Steady
<1> USE DEF Steady, TypeOK
<1>1. ASSUME NEW p \in Partitions, NEW i \in Instances, Assign(p, i)
      PROVE  Steady
  BY <1>1 DEF Assign
<1>2. ASSUME NEW i \in Instances, Consumer(i) \/ StartOptimizer(i) \/ CancelLeader(i)
                                 \/ \E t \in Terms : OptimizerLoop(i, t)
      PROVE  Steady
  BY <1>2 DEF Consumer, Fetch, SkipUnparsable, Send, AwaitAck, ConsumerReturn, StartOptimizer, CancelLeader,
              OptimizerLoop, Take, Check, Ack, LoopReturn, groupVars
<1>3. ASSUME NEW i \in Instances, Cancel(i) \/ CloseReader(i) \/ Die(i)
      PROVE  Steady
  BY <1>3 DEF Cancel, CloseReader, Cancelled, Die
<1>4. CASE UNCHANGED vars
  BY <1>4 DEF vars, groupVars
<1> QED
  BY <1>1, <1>2, <1>3, <1>4 DEF Next, Process

\* A step of i that neither fetches nor checks.
LEMMA SteadyFrame ==
  ASSUME SteadyInv, [Next]_vars, TypeOK, NEW i \in Instances,
         UNCHANGED <<owner, position, checked>>,
         \A j \in Instances \ {i} : UNCHANGED <<inflight[j], cpc[j], channel[j], lpc[j]>>,
         inflight'[i] \in {inflight[i], None},
         Unchecked(i)' => Unchecked(i) /\ inflight'[i] = inflight[i]
  PROVE  SteadyInv'
<1> SUFFICES ASSUME Steady'
             PROVE  SteadyInv'
  BY DEF SteadyInv
<1>1. Steady
  BY SteadyBefore
<1>2. \A j \in Instances : Unchecked(j)' => Unchecked(j) /\ inflight'[j] = inflight[j]
  BY DEF Unchecked
<1>3. \A j \in Instances : inflight'[j] \in {inflight[j], None}
  OBVIOUS
<1> QED
  BY <1>1, <1>2, <1>3 DEF SteadyInv

LEMMA NextSteady ==
  ASSUME IInv, SteadyInv, [Next]_vars
  PROVE  SteadyInv'
<1> USE DEF groupVars, consumerVars, loopVars
<1>t. TypeOK /\ LocalInv
  BY DEF IInv
<1>1. ASSUME NEW p \in Partitions, NEW i \in Instances, Assign(p, i)
      PROVE  SteadyInv'
  <2> SUFFICES ASSUME Steady'
               PROVE  SteadyInv'
    BY DEF SteadyInv
  <2>1. Steady /\ owner[p] = None
    BY <1>1, <1>t, SteadyBefore DEF Steady, Assign, TypeOK
  <2>2. \A q \in Partitions \ {p} : owner'[q] = owner[q] /\ position'[q] = position[q]
    BY <1>1, <1>t DEF Assign, TypeOK
  <2>3. UNCHANGED <<checked, inflight, cpc, channel, lpc>>
    BY <1>1 DEF Assign
  <2>4. \A m \in checked : m[1] \in Partitions \ {p}
    BY <1>t, <2>1, MessageParts DEF SteadyInv, TypeOK
  <2>5. \A j \in Instances : inflight[j] # None => inflight[j][1] \in Partitions \ {p}
    BY <1>t, <2>1, MessageParts, ConstantsAssumption DEF SteadyInv, TypeOK
  <2>6. \A j \in Instances : Unchecked(j)' = Unchecked(j)
    BY <2>3 DEF Unchecked
  <2> QED
    BY <2>1, <2>2, <2>3, <2>4, <2>5, <2>6 DEF SteadyInv
<1>2. ASSUME NEW i \in Instances, Process(i)
      PROVE  SteadyInv'
  <2>0. ConsumerInv(i) /\ PlaceInv(i) /\ LoopInv(i)
    BY <1>t DEF LocalInv
  <2>1. ASSUME NEW p \in Partitions, Fetch(i, p)
        PROVE  SteadyInv'
    <3> DEFINE m == <<p, position[p]>>
    <3> SUFFICES ASSUME Steady'
                 PROVE  SteadyInv'
      BY DEF SteadyInv
    <3>1. Steady
      BY SteadyBefore, <1>t
    <3>2. /\ owner[p] = i /\ position[p] \in Nat
          /\ position' = [position EXCEPT ![p] = @ + 1] /\ inflight' = [inflight EXCEPT ![i] = m]
          /\ UNCHANGED <<owner, checked, channel, lpc>> /\ \A j \in Instances \ {i} : cpc'[j] = cpc[j]
      BY <1>t, <2>1 DEF Fetch, TypeOK
    <3>3. \A q \in Partitions : position'[q] \in Nat /\ position[q] <= position'[q]
      BY <1>t, <3>2, ConstantsAssumption DEF TypeOK
    <3>4. \A x \in checked : x \in Messages /\ x[1] \in Partitions /\ x[2] \in Nat
      BY <1>t, MessageParts, ConstantsAssumption DEF TypeOK, Offsets
    <3>5. \A j \in Instances : inflight[j] # None => inflight[j][1] \in Partitions /\ inflight[j][2] \in Nat
      BY <1>t, MessageParts, ConstantsAssumption DEF TypeOK, Offsets
    <3>6. m \notin checked
      BY <3>1, <3>2 DEF SteadyInv
    <3>7. ASSUME NEW x \in checked
          PROVE  owner'[x[1]] # None /\ x[2] < position'[x[1]]
      <4>1. owner[x[1]] # None /\ x[2] < position[x[1]]
        BY <3>1 DEF SteadyInv
      <4>2. x[1] \in Partitions /\ x[2] \in Nat
        BY <3>4
      <4>3. position[x[1]] \in Nat /\ position'[x[1]] \in Nat /\ position[x[1]] <= position'[x[1]]
        BY <1>t, <3>3, <4>2, ConstantsAssumption DEF TypeOK
      <4> HIDE DEF m
      <4> QED
        BY <3>2, <4>1, <4>2, <4>3
    <3>8. ASSUME NEW j \in Instances, inflight'[j] # None
          PROVE  owner'[inflight'[j][1]] = j /\ inflight'[j][2] < position'[inflight'[j][1]]
      <4>1. CASE j = i
        <5>1. inflight'[j] = m /\ position'[p] = position[p] + 1
          BY <1>t, <3>2, <4>1 DEF TypeOK
        <5> QED
          BY <3>2, <4>1, <5>1
      <4>2. CASE j # i
        <5>1. inflight'[j] = inflight[j]
          BY <1>t, <3>2, <4>2 DEF TypeOK
        <5>2. owner[inflight[j][1]] = j /\ inflight[j][2] < position[inflight[j][1]]
          BY <3>1, <3>8, <5>1 DEF SteadyInv
        <5>3. position[inflight[j][1]] \in Nat
          BY <1>t, <3>5, <3>8, <5>1, ConstantsAssumption DEF TypeOK
        <5> QED
          BY <3>2, <3>3, <3>5, <3>8, <5>1, <5>2, <5>3
      <4> QED
        BY <4>1, <4>2
    <3>9. ASSUME NEW j \in Instances, Unchecked(j)'
          PROVE  inflight'[j] \notin checked'
      <4>1. CASE j = i
        BY <1>t, <3>2, <3>6, <4>1 DEF TypeOK
      <4>2. CASE j # i
        BY <1>t, <3>1, <3>2, <3>9, <4>2 DEF TypeOK, SteadyInv, Unchecked
      <4> QED
        BY <4>1, <4>2
    <3> QED
      BY <3>2, <3>7, <3>8, <3>9 DEF SteadyInv
  <2>2. CASE SkipUnparsable(i) \/ AwaitAck(i)
    <3>1. /\ UNCHANGED <<owner, position, checked, channel, lpc>>
          /\ inflight' = [inflight EXCEPT ![i] = None] /\ cpc' = [cpc EXCEPT ![i] = "fetch"]
      BY <2>2 DEF SkipUnparsable, AwaitAck
    <3>2. channel[i] = <<>> /\ \A t \in Terms : lpc[i][t] # "check"
      BY <1>t, <2>0, <2>2 DEF SkipUnparsable, AwaitAck, Acked, PlaceInv, LoopInv, TypeOK
    <3>3. ~Unchecked(i)'
      BY <1>t, <3>1, <3>2 DEF Unchecked, TypeOK
    <3> QED
      BY <1>t, <3>1, <3>3, SteadyFrame DEF TypeOK
  <2>3. CASE Send(i) \/ ConsumerReturn(i)
    <3>1. /\ UNCHANGED <<owner, position, checked, inflight, lpc>>
          /\ \A j \in Instances \ {i} : cpc'[j] = cpc[j] /\ channel'[j] = channel[j]
      BY <1>t, <2>3 DEF Send, ConsumerReturn, TypeOK
    <3>2. Unchecked(i)' => Unchecked(i)
      BY <1>t, <2>3 DEF Send, ConsumerReturn, TypeOK, Unchecked
    <3> QED
      BY <1>t, <3>1, <3>2, SteadyFrame
  <2>4. CASE StartOptimizer(i) \/ CancelLeader(i)
    <3>1. /\ UNCHANGED <<owner, position, checked, inflight, cpc, channel>>
          /\ \A j \in Instances \ {i} : lpc'[j] = lpc[j]
          /\ \A t \in Terms : lpc'[i][t] \in {lpc[i][t], "select"}
      BY <1>t, <2>4 DEF StartOptimizer, CancelLeader, TypeOK
    <3>2. Unchecked(i)' => Unchecked(i)
      BY <3>1 DEF Unchecked
    <3> QED
      BY <1>t, <3>1, <3>2, SteadyFrame
  <2>5. ASSUME NEW t \in Terms, Take(i, t) \/ Ack(i, t) \/ LoopReturn(i, t)
        PROVE  SteadyInv'
    <3>1. /\ UNCHANGED <<owner, position, checked, inflight, cpc>>
          /\ \A j \in Instances \ {i} : lpc'[j] = lpc[j] /\ channel'[j] = channel[j]
      BY <1>t, <2>5 DEF Take, Ack, LoopReturn, TypeOK
    <3>2. Unchecked(i)' => Unchecked(i)
      BY <1>t, <2>5 DEF Take, Ack, LoopReturn, TypeOK, Unchecked
    <3> QED
      BY <1>t, <3>1, <3>2, SteadyFrame
  <2>6. ASSUME NEW t \in Terms, Check(i, t)
        PROVE  SteadyInv'
    <3> SUFFICES ASSUME Steady'
                 PROVE  SteadyInv'
      BY DEF SteadyInv
    <3>1. Steady
      BY SteadyBefore, <1>t
    <3>2. /\ checked' = checked \cup {lmsg[i][t]} /\ lpc' = [lpc EXCEPT ![i][t] = "ack"]
          /\ UNCHANGED <<owner, position, inflight, cpc, channel>> /\ lpc[i][t] = "check"
      BY <2>6 DEF Check
    <3>3. lmsg[i][t] = inflight[i] /\ inflight[i] # None
      BY <2>0, <3>2 DEF LoopInv, PlaceInv
    <3>4. owner[inflight[i][1]] = i /\ inflight[i][2] < position[inflight[i][1]]
      BY <3>1, <3>3 DEF SteadyInv
    <3>5. \A x \in checked' : owner'[x[1]] # None /\ x[2] < position'[x[1]]
      BY <3>1, <3>2, <3>3, <3>4, ConstantsAssumption DEF SteadyInv
    <3>6. ~Unchecked(i)'
      <4>1. cpc[i] # "send" /\ channel[i] = <<>>
        BY <2>0, <3>3 DEF PlaceInv
      <4>2. \A u \in Terms : u # t => lpc[i][u] # "check"
        BY <2>0, <3>3 DEF PlaceInv, LoopInv
      <4> QED
        BY <1>t, <3>2, <4>1, <4>2 DEF Unchecked, TypeOK
    <3>7. ASSUME NEW j \in Instances, Unchecked(j)'
          PROVE  inflight'[j] \notin checked'
      <4>1. j # i
        BY <3>6, <3>7
      <4>2. Unchecked(j)
        BY <1>t, <3>2, <3>7, <4>1 DEF Unchecked, TypeOK
      <4>3. inflight[j] \notin checked
        BY <3>1, <4>2 DEF SteadyInv
      <4>4. inflight[j] # inflight[i]
        BY <3>1, <3>3, <3>4, <4>1 DEF SteadyInv
      <4> QED
        BY <3>2, <3>3, <4>3, <4>4
    <3> QED
      BY <3>1, <3>2, <3>5, <3>7 DEF SteadyInv
  <2>7. CASE Cancel(i) \/ CloseReader(i) \/ Die(i)
    <3>1. ~Steady'
      BY <1>t, <2>7 DEF Cancel, CloseReader, Cancelled, Die, Steady, TypeOK
    <3> QED
      BY <3>1 DEF SteadyInv
  <2> QED
    BY <1>2, <2>1, <2>2, <2>3, <2>4, <2>5, <2>6, <2>7 DEF Process, Consumer, OptimizerLoop
<1>3. CASE UNCHANGED vars
  BY <1>3 DEF vars, SteadyInv, Steady, Unchecked
<1> QED
  BY <1>1, <1>2, <1>3 DEF Next

\* As long as every process runs and no partition was assigned again, what a loop is
\* about to check was not checked before: leaderships that come and go, loops of those
\* that are over, and commits that fail repeat nothing.
OnceWhileSteady ==
  Steady => \A i \in Instances, t \in Terms : lpc[i][t] = "check" => lmsg[i][t] \notin checked

\* Until an instance stops or dies, or a new generation of the group assigns a partition
\* that has an owner, to another or to the same, no ping is checked twice; with AtLeastOnce,
\* those that are committed were checked exactly once.
THEOREM ExactlyOnceWhileSteady == Spec => []OnceWhileSteady
<1>1. IInv /\ SteadyInv => OnceWhileSteady
  <2> SUFFICES ASSUME IInv, SteadyInv, Steady, NEW i \in Instances, NEW t \in Terms, lpc[i][t] = "check"
               PROVE  lmsg[i][t] \notin checked
    BY DEF OnceWhileSteady
  <2>1. lmsg[i][t] = inflight[i] /\ Unchecked(i)
    BY DEF IInv, LocalInv, LoopInv, PlaceInv, Unchecked
  <2> QED
    BY <2>1 DEF SteadyInv
<1> QED
  BY <1>1, Inductive, InitSteady, NextSteady, PTL DEF Spec

\* The delivery keeps its types: no offset runs past the end of its partition.
THEOREM DeliveryTypeCorrect == Spec => []TypeOK
<1>1. IInv => TypeOK
  BY DEF IInv
<1> QED
  BY <1>1, Inductive, PTL

\* A ping whose offset is committed was given to a detector, in whatever way the
\* processes die, stop, lose partitions or leadership, and commits fail.
THEOREM AtLeastOnce == Spec => []CommittedIsChecked
<1>1. IInv => CommittedIsChecked
  BY DEF IInv
<1> QED
  BY <1>1, Inductive, PTL

\* The pings of a partition reach a detector in the order of the partition.
THEOREM PartitionsInOrder == Spec => []CheckedInOrder
<1>1. IInv => CheckedInOrder
  BY DEF IInv
<1> QED
  BY <1>1, Inductive, PTL

\* An instance works on one message, and acks it once.
THEOREM OneMessageEach == Spec => []OneInFlight
<1>1. IInv => OneInFlight
  <2> SUFFICES ASSUME IInv, NEW i \in Instances
               PROVE  /\ Len(channel[i]) + Cardinality(Busy(i)) <= 1
                      /\ channel[i] # <<>> => Head(channel[i]) = inflight[i] /\ acks[i] = 0
                      /\ \A t \in Busy(i) : lmsg[i][t] = inflight[i] /\ acks[i] = 0
                      /\ cpc[i] = "wait" /\ acks[i] = 0 => channel[i] # <<>> \/ Busy(i) # {}
    BY DEF OneInFlight
  <2>1. PlaceInv(i)
    BY DEF IInv, LocalInv
  <2>2. CASE channel[i] # <<>>
    <3>1. channel[i] = <<inflight[i]>> /\ acks[i] = 0 /\ Busy(i) = {}
      BY <2>1, <2>2 DEF PlaceInv, Busy
    <3>2. Len(channel[i]) = 1 /\ Head(channel[i]) = inflight[i]
      BY <3>1
    <3> QED
      BY <3>1, <3>2, FS_EmptySet
  <2>3. CASE channel[i] = <<>> /\ Busy(i) = {}
    <3>1. Len(channel[i]) = 0 /\ Cardinality(Busy(i)) = 0
      BY <2>3, FS_EmptySet
    <3>2. ~(cpc[i] = "wait" /\ acks[i] = 0)
      BY <2>1, <2>3 DEF PlaceInv, Busy
    <3> QED
      BY <2>3, <3>1, <3>2
  <2>4. CASE channel[i] = <<>> /\ Busy(i) # {}
    <3>1. PICK t \in Terms : lmsg[i][t] # None
      BY <2>4 DEF Busy
    <3>2. Busy(i) = {t} /\ lmsg[i][t] = inflight[i] /\ acks[i] = 0
      BY <2>1, <3>1 DEF PlaceInv, Busy
    <3>3. Cardinality({t}) = 1
      BY FS_Singleton
    <3>4. Len(channel[i]) = 0
      BY <2>4
    <3> QED
      BY <2>4, <3>2, <3>3, <3>4
  <2> QED
    BY <2>2, <2>3, <2>4
<1> QED
  BY <1>1, Inductive, PTL
=============================================================================
