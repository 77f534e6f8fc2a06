------------------------ MODULE LeaderElectionProofs ------------------------
(***************************************************************************)
(* Proofs about LeaderElection, for any set of instances.                  *)
(***************************************************************************)
EXTENDS LeaderElection, FiniteSetTheorems, TLAPS

\* Inside Campaign and after it, until the end of the leadership.
Candidate(i) == lpc[i] \in {"wait", "won", "lead"} /\ ~Cancelled(i) /\ lease[i] = "live"

\* A key lives no longer than the lease of its instance.
KeysLeased == \A i \in Instances : present[i] => lease[i] = "live"

\* No two keys were put by the same transaction.
KeysDistinct ==
  /\ \A i \in Instances : present[i] => crev[i] > 0
  /\ \A i, j \in Instances : i # j /\ crev[i] = crev[j] => crev[i] = 0

\* A candidate that has its lease has its key, and knows its revision: nothing in
\* the instance deletes the key before the context is cancelled.
CandidateHasKey == \A i \in Instances : Candidate(i) => present[i] /\ crev[i] = myRev[i]

\* The key of a leader that has its lease is the oldest.
LeaderIsOldest ==
  \A i \in Instances : Candidate(i) /\ lpc[i] \in {"won", "lead"} =>
    \A j \in Instances : present[j] => crev[j] >= myRev[i]

IInv == TypeOK /\ KeysLeased /\ KeysDistinct /\ CandidateHasKey /\ LeaderIsOldest

LEMMA InitInv == Init => IInv
BY DEF Init, IInv, TypeOK, KeysLeased, KeysDistinct, CandidateHasKey, LeaderIsOldest, Candidate

\* What the transaction of Campaign does to the keys.
LEMMA PutKeyInv ==
  ASSUME IInv, NEW i \in Instances, PutKey(i), UNCHANGED <<lpc, mpc, lease, done, myRev, held, running>>,
         lpc[i] = "campaign"
  PROVE  /\ IInv' /\ present'[i] /\ crev'[i] \in 1..rev' /\ rev' \in Nat /\ rev' >= rev
<1> USE DEF IInv, TypeOK, KeysLeased, KeysDistinct, CandidateHasKey, LeaderIsOldest, Candidate, Cancelled
<1>1. CASE ~KeyMissing(i)
  BY <1>1 DEF PutKey, KeyMissing
<1>2. CASE KeyMissing(i)
  <2>1. /\ present' = [present EXCEPT ![i] = TRUE]
        /\ crev' = [crev EXCEPT ![i] = rev + 1]
        /\ rev' = rev + 1
        /\ lease[i] = "live"
    BY <1>2 DEF PutKey, NewRevision
  <2>2. TypeOK'
    BY <2>1
  <2>3. KeysLeased' /\ KeysDistinct' /\ CandidateHasKey'
    BY <2>1
  <2>4. LeaderIsOldest'
    BY <2>1
  <2> QED
    BY <2>1, <2>2, <2>3, <2>4
<1> QED
  BY <1>1, <1>2

\* Deleting keys and ending candidacies disturbs nothing.
LEMMA ShrinkInv ==
  ASSUME IInv, TypeOK', UNCHANGED <<crev, myRev>>,
         \A i \in Instances : present'[i] => present[i] /\ lease'[i] = "live",
         \A i \in Instances : Candidate(i)' => Candidate(i) /\ lpc'[i] = lpc[i] /\ present'[i] = present[i]
  PROVE  IInv'
BY DEF IInv, TypeOK, KeysLeased, KeysDistinct, CandidateHasKey, LeaderIsOldest

LEMMA NextInv == IInv /\ [Next]_vars => IInv'
<1> SUFFICES ASSUME IInv, [Next]_vars
             PROVE  IInv'
  OBVIOUS
<1> USE DEF loopVars, etcdVars
<1>t. TypeOK
  BY DEF IInv
<1>1. ASSUME NEW i \in Instances, LeaderLoop(i)
      PROVE  IInv'
  <2>1. CASE Campaign(i)
    <3> DEFINE mid == [myRev EXCEPT ![i] = crev'[i]]
    <3>1. /\ PutKey(i) /\ lpc[i] = "campaign" /\ ~Cancelled(i)
          /\ lpc' = [lpc EXCEPT ![i] = "wait"] /\ myRev' = mid /\ held' = [held EXCEPT ![i] = TRUE]
          /\ UNCHANGED <<mpc, lease, done, running>>
      BY <2>1 DEF Campaign
    <3>2. CASE ~KeyMissing(i)
      BY <3>1, <3>2 DEF PutKey, KeyMissing, IInv, TypeOK, KeysLeased, KeysDistinct, CandidateHasKey,
                        LeaderIsOldest, Candidate, Cancelled
    <3>3. CASE KeyMissing(i)
      <4>1. /\ present' = [present EXCEPT ![i] = TRUE]
            /\ crev' = [crev EXCEPT ![i] = rev + 1]
            /\ rev' = rev + 1
            /\ lease[i] = "live"
            /\ crev'[i] = rev + 1
        BY <3>1, <3>3, <1>t DEF PutKey, NewRevision, TypeOK
      <4>2. TypeOK'
        BY <3>1, <4>1, <1>t DEF TypeOK
      <4>3. KeysLeased' /\ KeysDistinct'
        BY <3>1, <4>1 DEF IInv, TypeOK, KeysLeased, KeysDistinct
      <4>4. CandidateHasKey'
        BY <3>1, <4>1 DEF IInv, TypeOK, CandidateHasKey, Candidate, Cancelled
      <4>5. LeaderIsOldest'
        BY <3>1, <4>1 DEF IInv, TypeOK, LeaderIsOldest, Candidate, Cancelled
      <4> QED
        BY <4>2, <4>3, <4>4, <4>5 DEF IInv
    <3> QED
      BY <3>2, <3>3
  <2>2. CASE CampaignLost(i)
    BY <2>2, PutKeyInv DEF CampaignLost
  <2>3. CASE CampaignError(i)
    <3>1. TypeOK'
      BY <1>t, <2>3 DEF CampaignError, TypeOK
    <3> QED
      BY <1>t, <2>3, <3>1, ShrinkInv DEF CampaignError, TypeOK, Candidate, Cancelled, IInv, KeysLeased
  <2>4. CASE Elected(i)
    <3>1. \A j \in Instances : present[j] => crev[j] >= myRev[i]
      BY <2>4 DEF Elected, OlderGone
    <3> QED
      BY <2>4, <3>1 DEF Elected, IInv, TypeOK, KeysLeased, KeysDistinct, CandidateHasKey, LeaderIsOldest,
                        Candidate, Cancelled
  <2>5. CASE StartOptimizer(i)
    BY <2>5 DEF StartOptimizer, IInv, TypeOK, KeysLeased, KeysDistinct, CandidateHasKey, LeaderIsOldest,
                Candidate, Cancelled
  <2>6. CASE OptimizerReturns(i)
    BY <2>6 DEF OptimizerReturns, IInv, TypeOK, KeysLeased, KeysDistinct, CandidateHasKey, LeaderIsOldest,
                Candidate, Cancelled
  <2>7. CASE LoseLeadership(i)
    <3>1. TypeOK'
      BY <1>t, <2>7 DEF LoseLeadership, TypeOK
    <3> QED
      BY <1>t, <2>7, <3>1, ShrinkInv DEF LoseLeadership, TypeOK, Candidate, Cancelled, IInv, KeysLeased
  <2>8. CASE Return(i)
    <3>1. TypeOK'
      BY <1>t, <2>8 DEF Return, ResignKey, TypeOK
    <3>2. \A j \in Instances : present'[j] => present[j]
      BY <1>t, <2>8 DEF Return, ResignKey, TypeOK
    <3>3. \A j \in Instances \ {i} : present'[j] = present[j] /\ lpc'[j] = lpc[j]
      BY <1>t, <2>8 DEF Return, ResignKey, TypeOK
    <3>4. UNCHANGED <<crev, myRev, mpc, lease>> /\ Cancelled(i)
      BY <2>8 DEF Return
    <3> QED
      BY <3>1, <3>2, <3>3, <3>4, ShrinkInv DEF Candidate, Cancelled, IInv, KeysLeased
  <2> QED
    BY <1>1, <2>1, <2>2, <2>3, <2>4, <2>5, <2>6, <2>7, <2>8 DEF LeaderLoop
<1>2. ASSUME NEW i \in Instances, Process(i)
      PROVE  IInv'
  <2>1. CASE StartInstance(i)
    BY <2>1 DEF StartInstance, IInv, TypeOK, KeysLeased, KeysDistinct, CandidateHasKey, LeaderIsOldest,
                Candidate, Cancelled
  <2>2. CASE Cancel(i)
    <3>1. TypeOK'
      BY <1>t, <2>2 DEF Cancel, TypeOK
    <3> QED
      BY <1>t, <2>2, <3>1, ShrinkInv DEF Cancel, TypeOK, Candidate, Cancelled, IInv, KeysLeased
  <2>3. CASE Resign(i)
    <3>1. TypeOK'
      BY <1>t, <2>3 DEF Resign, ResignKey, TypeOK
    <3>2. \A j \in Instances : present'[j] => present[j]
      BY <1>t, <2>3 DEF Resign, ResignKey, TypeOK
    <3>3. \A j \in Instances \ {i} : present'[j] = present[j] /\ mpc'[j] = mpc[j]
      BY <1>t, <2>3 DEF Resign, ResignKey, TypeOK
    <3>4. UNCHANGED <<crev, myRev, lpc, lease>> /\ mpc'[i] = "resigned"
      BY <1>t, <2>3 DEF Resign, TypeOK
    <3> QED
      BY <3>1, <3>2, <3>3, <3>4, ShrinkInv DEF Candidate, Cancelled, IInv, KeysLeased
  <2>4. CASE CloseSession(i)
    <3>1. TypeOK'
      BY <1>t, <2>4 DEF CloseSession, TypeOK
    <3>2. \A j \in Instances : present'[j] => present[j] /\ lease'[j] = lease[j]
      BY <1>t, <2>4 DEF CloseSession, TypeOK
    <3>3. \A j \in Instances \ {i} : present'[j] = present[j] /\ mpc'[j] = mpc[j] /\ lease'[j] = lease[j]
      BY <1>t, <2>4 DEF CloseSession, TypeOK
    <3>4. UNCHANGED <<crev, myRev, lpc>> /\ mpc'[i] = "closed"
      BY <1>t, <2>4 DEF CloseSession, TypeOK
    <3> QED
      BY <3>1, <3>2, <3>3, <3>4, ShrinkInv DEF Candidate, Cancelled, IInv, KeysLeased
  <2>5. CASE Die(i)
    <3>1. TypeOK'
      BY <1>t, <2>5 DEF Die, TypeOK
    <3>2. mpc'[i] = "gone" /\ \A j \in Instances \ {i} : mpc'[j] = mpc[j] /\ lpc'[j] = lpc[j] /\ myRev'[j] = myRev[j]
      BY <1>t, <2>5 DEF Die, TypeOK
    <3>3. UNCHANGED <<present, crev, rev, lease>>
      BY <2>5 DEF Die
    <3> QED
      BY <3>1, <3>2, <3>3 DEF IInv, KeysLeased, KeysDistinct, CandidateHasKey, LeaderIsOldest, Candidate, Cancelled
  <2> QED
    BY <1>2, <2>1, <2>2, <2>3, <2>4, <2>5 DEF Process
<1>3. ASSUME NEW i \in Instances, Session(i)
      PROVE  IInv'
  <2>1. CASE Expire(i)
    <3>1. TypeOK'
      BY <1>t, <2>1 DEF Expire, Drop, TypeOK
    <3>2. \A j \in Instances : present'[j] => present[j] /\ lease'[j] = lease[j]
      BY <1>t, <2>1 DEF Expire, Drop, TypeOK
    <3>3. /\ \A j \in Instances \ {i} : present'[j] = present[j] /\ lease'[j] = lease[j]
          /\ lease'[i] = "expired" /\ UNCHANGED <<crev, myRev, lpc, mpc>>
      BY <1>t, <2>1 DEF Expire, Drop, TypeOK
    <3> QED
      BY <3>1, <3>2, <3>3, ShrinkInv DEF Candidate, Cancelled, IInv, KeysLeased
  <2>2. CASE LoseSession(i)
    <3>1. TypeOK'
      BY <1>t, <2>2 DEF LoseSession, TypeOK
    <3> QED
      BY <2>2, <3>1, ShrinkInv DEF LoseSession, Candidate, Cancelled, IInv, KeysLeased
  <2> QED
    BY <1>3, <2>1, <2>2 DEF Session
<1>4. CASE AllGone \/ UNCHANGED vars
  BY <1>4 DEF AllGone, vars, IInv, TypeOK, KeysLeased, KeysDistinct, CandidateHasKey, LeaderIsOldest, Candidate, Cancelled
<1> QED
  BY <1>1, <1>2, <1>3, <1>4 DEF Next

\* Every variable keeps its type.
THEOREM ElectionTypeCorrect == Spec => []TypeOK
<1>1. Spec => []IInv
  BY InitInv, NextInv, PTL DEF Spec
<1> QED
  BY <1>1, PTL DEF IInv

----------------------------------------------------------------------------
(* One optimizer at work.                                                  *)

\* Where the optimizer of an instance that has its lease and was not told to end is at
\* work, perhaps for a leadership before the present one, the instance has the oldest key.
WorkerIsOldest ==
  \A i \in Instances : running[i] /\ ~Cancelled(i) /\ Leased(i) =>
    present[i] /\ \A j \in Instances : present[j] => crev[i] <= crev[j]

\* A goroutine of the optimizer runs as long as its context lives, and none before Start.
RunningAsStarted ==
  \A i \in Instances : (Active(i) => running[i]) /\ (lpc[i] = "down" => ~running[i])

WorkInv == IInv /\ RunningAsStarted /\ WorkerIsOldest

LEMMA InitWorkInv == Init => WorkInv
BY InitInv DEF Init, WorkInv, WorkerIsOldest, RunningAsStarted, Active

\* Fewer workers and fewer keys disturb nothing, where a worker keeps its key.
LEMMA ShrinkWork ==
  ASSUME WorkerIsOldest, crev' = crev,
         \A i \in Instances : present'[i] => present[i],
         \A i \in Instances : running'[i] /\ ~Cancelled(i)' /\ Leased(i)' =>
                                running[i] /\ ~Cancelled(i) /\ Leased(i) /\ present'[i] = present[i]
  PROVE  WorkerIsOldest'
BY DEF WorkerIsOldest

\* A key that is put is younger than every key there is.
LEMMA PutKeyWork ==
  ASSUME WorkInv, NEW i \in Instances, PutKey(i), UNCHANGED <<mpc, lease, running>>
  PROVE  WorkerIsOldest'
<1>1. CASE ~KeyMissing(i)
  BY <1>1 DEF PutKey, KeyMissing, WorkInv, WorkerIsOldest, Cancelled, Leased
<1>2. CASE KeyMissing(i)
  <2>1. /\ present' = [present EXCEPT ![i] = TRUE] /\ ~present[i]
        /\ crev' = [crev EXCEPT ![i] = rev + 1]
    BY <1>2 DEF PutKey, KeyMissing, NewRevision
  <2>2. \A j \in Instances : crev[j] \in Nat /\ rev \in Nat /\ crev[j] <= rev + 1
    BY DEF WorkInv, IInv, TypeOK
  <2> QED
    BY <2>1, <2>2 DEF WorkInv, IInv, TypeOK, WorkerIsOldest, Cancelled, Leased
<1> QED
  BY <1>1, <1>2

LEMMA NextRunning == WorkInv /\ [Next]_vars => RunningAsStarted'
<1> SUFFICES ASSUME TypeOK, RunningAsStarted, [Next]_vars
             PROVE  RunningAsStarted'
  BY DEF WorkInv, IInv
<1> USE DEF loopVars, etcdVars, TypeOK, RunningAsStarted, Active, Cancelled
<1>1. ASSUME NEW i \in Instances, LeaderLoop(i)
      PROVE  RunningAsStarted'
  <2>1. CASE StartOptimizer(i) \/ OptimizerReturns(i)
    BY <2>1 DEF StartOptimizer, OptimizerReturns
  <2>2. CASE Campaign(i) \/ CampaignLost(i) \/ CampaignError(i) \/ Elected(i) \/ LoseLeadership(i) \/ Return(i)
    BY <2>2 DEF Campaign, CampaignLost, CampaignError, Elected, LoseLeadership, Return
  <2> QED
    BY <1>1, <2>1, <2>2 DEF LeaderLoop
<1>2. ASSUME NEW i \in Instances, Process(i) \/ Session(i)
      PROVE  RunningAsStarted'
  BY <1>2 DEF Process, StartInstance, Cancel, Resign, CloseSession, Die, Session, Expire, Drop, LoseSession
<1>3. CASE AllGone \/ UNCHANGED vars
  BY <1>3 DEF AllGone, vars
<1> QED
  BY <1>1, <1>2, <1>3 DEF Next

LEMMA NextWork == WorkInv /\ [Next]_vars => WorkInv'
<1> SUFFICES ASSUME WorkInv, [Next]_vars
             PROVE  WorkerIsOldest'
  BY NextInv, NextRunning DEF WorkInv
<1> USE DEF loopVars, etcdVars
<1>t. TypeOK /\ WorkerIsOldest
  BY DEF WorkInv, IInv
<1>1. ASSUME NEW i \in Instances, LeaderLoop(i)
      PROVE  WorkerIsOldest'
  <2>1. CASE Campaign(i)
    BY <2>1, PutKeyWork DEF Campaign
  <2>2. CASE CampaignLost(i)
    BY <2>2, PutKeyWork DEF CampaignLost
  <2>3. CASE CampaignError(i) \/ Elected(i) \/ LoseLeadership(i)
    BY <1>t, <2>3 DEF CampaignError, Elected, LoseLeadership, WorkerIsOldest, Cancelled, Leased
  <2>4. CASE StartOptimizer(i)
    <3>1. ASSUME ~Cancelled(i), Leased(i)
          PROVE  present[i] /\ \A j \in Instances : present[j] => crev[i] <= crev[j]
      <4>1. Candidate(i) /\ lpc[i] = "won"
        BY <2>4, <3>1 DEF StartOptimizer, Candidate, Leased
      <4>2. present[i] /\ crev[i] = myRev[i] /\ \A j \in Instances : present[j] => crev[j] >= crev[i]
        BY <4>1 DEF WorkInv, IInv, CandidateHasKey, LeaderIsOldest
      <4> QED
        BY <1>t, <4>2 DEF TypeOK
    <3> QED
      BY <1>t, <2>4, <3>1 DEF StartOptimizer, TypeOK, WorkerIsOldest, Cancelled, Leased
  <2>5. CASE OptimizerReturns(i)
    BY <1>t, <2>5 DEF OptimizerReturns, TypeOK, WorkerIsOldest, Cancelled, Leased
  <2>6. CASE Return(i)
    <3>1. /\ Cancelled(i) /\ UNCHANGED <<mpc, lease, crev, running>>
          /\ \A j \in Instances : present'[j] => present[j]
          /\ \A j \in Instances \ {i} : present'[j] = present[j]
      BY <1>t, <2>6 DEF Return, ResignKey, TypeOK
    <3> QED
      BY <1>t, <3>1, ShrinkWork DEF Cancelled, Leased
  <2> QED
    BY <1>1, <2>1, <2>2, <2>3, <2>4, <2>5, <2>6 DEF LeaderLoop
<1>2. ASSUME NEW i \in Instances, Process(i)
      PROVE  WorkerIsOldest'
  <2>1. CASE StartInstance(i)
    <3>1. /\ UNCHANGED <<mpc, present, crev, running>>
          /\ \A j \in Instances \ {i} : lease'[j] = lease[j]
      BY <1>t, <2>1 DEF StartInstance, TypeOK
    <3>2. ~running[i]
      BY <2>1 DEF StartInstance, WorkInv, RunningAsStarted
    <3> QED
      BY <1>t, <3>1, <3>2, ShrinkWork DEF Cancelled, Leased
  <2>2. CASE Cancel(i)
    BY <1>t, <2>2, ShrinkWork DEF Cancel, TypeOK, Cancelled, Leased
  <2>3. CASE Resign(i) \/ CloseSession(i)
    <3>1. /\ mpc'[i] # "run" /\ UNCHANGED <<crev, running>>
          /\ \A j \in Instances : present'[j] => present[j]
          /\ \A j \in Instances \ {i} : mpc'[j] = mpc[j] /\ present'[j] = present[j] /\ lease'[j] = lease[j]
      BY <1>t, <2>3 DEF Resign, ResignKey, CloseSession, TypeOK
    <3> QED
      BY <1>t, <3>1, ShrinkWork DEF Cancelled, Leased
  <2>4. CASE Die(i)
    BY <1>t, <2>4, ShrinkWork DEF Die, TypeOK, Cancelled, Leased
  <2> QED
    BY <1>2, <2>1, <2>2, <2>3, <2>4 DEF Process
<1>3. ASSUME NEW i \in Instances, Session(i)
      PROVE  WorkerIsOldest'
  <2>1. CASE Expire(i)
    <3>1. /\ lease'[i] = "expired" /\ UNCHANGED <<mpc, crev, running>>
          /\ \A j \in Instances : present'[j] => present[j]
          /\ \A j \in Instances \ {i} : present'[j] = present[j] /\ lease'[j] = lease[j]
      BY <1>t, <2>1 DEF Expire, Drop, TypeOK
    <3> QED
      BY <1>t, <3>1, ShrinkWork DEF Cancelled, Leased
  <2>2. CASE LoseSession(i)
    BY <1>t, <2>2 DEF LoseSession, WorkerIsOldest, Cancelled, Leased
  <2> QED
    BY <1>3, <2>1, <2>2 DEF Session
<1>4. CASE AllGone \/ UNCHANGED vars
  BY <1>t, <1>4 DEF AllGone, vars, WorkerIsOldest, Cancelled, Leased
<1> QED
  BY <1>1, <1>2, <1>3, <1>4 DEF Next

\* However many instances campaign, stop, crash and lose their sessions, two optimizers
\* are at work at once only when one of their instances has lost its lease or was told to
\* end by its main, which waits for no optimizer.
THEOREM LeaderIsSole == Spec => []SoleLeader
<1>1. WorkInv => SoleLeader
  <2> SUFFICES ASSUME WorkInv, NEW i \in Instances, NEW j \in Instances, i # j,
                      running[i], running[j], Leased(i), Leased(j), ~Cancelled(i), ~Cancelled(j)
               PROVE  FALSE
    BY DEF SoleLeader, Leased
  <2>1. present[i] /\ present[j] /\ crev[i] <= crev[j] /\ crev[j] <= crev[i]
    BY DEF WorkInv, WorkerIsOldest
  <2> QED
    BY <2>1 DEF WorkInv, IInv, TypeOK, KeysDistinct
<1>2. Spec => []WorkInv
  BY InitWorkInv, NextWork, PTL DEF Spec
<1> QED
  BY <1>1, <1>2, PTL

----------------------------------------------------------------------------
(* The lock with a queue, step by step.                                    *)

Leads(i) == Active(i) /\ Leased(i)
Finishes(i) == running[i] /\ ~Active(i) /\ Leased(i)

TicketOf(i) == IF present[i] THEN crev[i] ELSE 0

Queue     == [i \in Instances |-> TicketOf(i)]
Leading   == {i \in Instances : Leads(i)}
Finishing == {i \in Instances : Finishes(i)}
Ending    == {i \in Instances : Cancelled(i)}

\* What a step of one instance leaves alone.
OthersKeep(i) ==
  \A j \in Instances \ {i} : UNCHANGED <<TicketOf(j), Leads(j), Finishes(j), Cancelled(j)>>

\* A set of instances when only the membership of i, as it now is, may have changed.
With(S, i, in) == IF in THEN S \cup {i} ELSE S \ {i}

LEMMA OthersQueue ==
  ASSUME NEW i \in Instances, OthersKeep(i)
  PROVE  /\ Queue' = [Queue EXCEPT ![i] = TicketOf(i)']
         /\ Leading' = With(Leading, i, Leads(i)')
         /\ Finishing' = With(Finishing, i, Finishes(i)')
         /\ Ending' = With(Ending, i, Cancelled(i)')
<1>1. \A j \in Instances \ {i} : /\ TicketOf(j)' = TicketOf(j) /\ Leads(j)' = Leads(j)
                                 /\ Finishes(j)' = Finishes(j) /\ Cancelled(j)' = Cancelled(j)
  BY DEF OthersKeep
<1>2. Queue' = [Queue EXCEPT ![i] = TicketOf(i)']
  BY <1>1 DEF Queue
<1>3. ASSUME NEW j
      PROVE  /\ j \in Leading' <=> j \in With(Leading, i, Leads(i)')
             /\ j \in Finishing' <=> j \in With(Finishing, i, Finishes(i)')
             /\ j \in Ending' <=> j \in With(Ending, i, Cancelled(i)')
  BY <1>1 DEF Leading, Finishing, Ending, With
<1> QED
  BY <1>2, <1>3

\* The steps of the lock in which i keeps its number.
LEMMA LockMoves ==
  ASSUME NEW i \in Instances, OthersKeep(i), TicketOf(i)' = TicketOf(i), rev' = rev,
         \/ /\ Queue[i] # 0 /\ \A j \in Instances : Queue[j] # 0 => Queue[i] <= Queue[j]
            /\ ~Cancelled(i) /\ ~Cancelled(i)' /\ Leads(i)' /\ ~Finishes(i)'
         \/ Leads(i) /\ ~Leads(i)' /\ Finishes(i)' /\ (Cancelled(i)' <=> Cancelled(i))
         \/ ~Finishes(i)' /\ (Leads(i)' <=> Leads(i)) /\ (Cancelled(i)' <=> Cancelled(i))
         \/ Cancelled(i)' /\ ~Leads(i)' /\ (Finishes(i)' <=> (Finishes(i) \/ Leads(i)))
         \/ Cancelled(i) /\ Cancelled(i)' /\ Finishes(i)' /\ (Leads(i)' <=> Leads(i))
         \/ Cancelled(i)' /\ ~Leads(i)' /\ ~Finishes(i)'
         \/ (Leads(i)' <=> Leads(i)) /\ (Finishes(i)' <=> Finishes(i)) /\ (Cancelled(i)' <=> Cancelled(i))
  PROVE  [Lock!Next]_(Lock!lockVars)
<1>1. /\ Queue' = Queue
      /\ Leading' = With(Leading, i, Leads(i)')
      /\ Finishing' = With(Finishing, i, Finishes(i)')
      /\ Ending' = With(Ending, i, Cancelled(i)')
  BY OthersQueue DEF Queue
<1>2. /\ i \in Leading <=> Leads(i)
      /\ i \in Finishing <=> Finishes(i)
      /\ i \in Ending <=> Cancelled(i)
  BY DEF Leading, Finishing, Ending
<1>3. /\ Lock!Lead(i) <=> /\ Queue[i] # 0 /\ \A j \in Instances : Queue[j] # 0 => Queue[i] <= Queue[j]
                          /\ i \notin Ending /\ Leading' = Leading \cup {i}
                          /\ Finishing' = Finishing \ {i} /\ Queue' = Queue /\ rev' = rev /\ Ending' = Ending
      /\ Lock!Pause(i) <=> /\ i \in Leading /\ Leading' = Leading \ {i} /\ Finishing' = Finishing \cup {i}
                           /\ Queue' = Queue /\ rev' = rev /\ Ending' = Ending
      /\ Lock!Finish(i) <=> /\ Finishing' = Finishing \ {i} /\ Leading' = Leading
                            /\ Queue' = Queue /\ rev' = rev /\ Ending' = Ending
      /\ Lock!End(i) <=> /\ Ending' = Ending \cup {i} /\ Leading' = Leading \ {i}
                         /\ Finishing' = Finishing \cup ({i} \cap Leading) /\ Queue' = Queue /\ rev' = rev
      /\ Lock!BeginLate(i) <=> /\ i \in Ending /\ Finishing' = Finishing \cup {i} /\ Leading' = Leading
                               /\ Queue' = Queue /\ rev' = rev /\ Ending' = Ending
      /\ Lock!Crash(i) <=> /\ Ending' = Ending \cup {i} /\ Leading' = Leading \ {i}
                           /\ Finishing' = Finishing \ {i} /\ Queue' = Queue /\ rev' = rev
      /\ UNCHANGED Lock!lockVars <=> UNCHANGED <<Queue, rev, Leading, Finishing, Ending>>
  BY DEF Lock!Lead, Lock!Pause, Lock!Finish, Lock!End, Lock!BeginLate, Lock!Crash, Lock!InQueue, Lock!lockVars,
         Queue, Leading, Finishing, Ending, TicketOf, Leads, Finishes
<1> HIDE DEF Lock!Lead, Lock!Pause, Lock!Finish, Lock!End, Lock!BeginLate, Lock!Crash
<1>4. \/ Lock!Lead(i) \/ Lock!Pause(i) \/ Lock!Finish(i) \/ Lock!End(i) \/ Lock!BeginLate(i) \/ Lock!Crash(i)
      \/ UNCHANGED Lock!lockVars
  BY <1>1, <1>2, <1>3 DEF With
<1> QED
  BY <1>4 DEF Lock!Next

\* The steps of the lock in which i leaves the queue.
LEMMA LockLeaves ==
  ASSUME NEW i \in Instances, OthersKeep(i), TicketOf(i)' = 0, rev' = rev, (Cancelled(i)' <=> Cancelled(i)),
         \/ Cancelled(i) /\ (Leads(i)' <=> Leads(i)) /\ (Finishes(i)' <=> Finishes(i))
         \/ ~Leads(i)' /\ ~Finishes(i)'
  PROVE  Lock!Next
<1>1. /\ Queue' = [Queue EXCEPT ![i] = 0]
      /\ Leading' = With(Leading, i, Leads(i)')
      /\ Finishing' = With(Finishing, i, Finishes(i)')
      /\ Ending' = With(Ending, i, Cancelled(i)')
  BY OthersQueue
<1>2. /\ i \in Leading <=> Leads(i)
      /\ i \in Finishing <=> Finishes(i)
      /\ i \in Ending <=> Cancelled(i)
  BY DEF Leading, Finishing, Ending
<1>3. /\ Lock!Leave(i) <=> /\ i \in Ending /\ Queue' = [Queue EXCEPT ![i] = 0] /\ rev' = rev
                           /\ Leading' = Leading /\ Finishing' = Finishing /\ Ending' = Ending
      /\ Lock!Evict(i) <=> /\ Queue' = [Queue EXCEPT ![i] = 0] /\ Leading' = Leading \ {i}
                           /\ Finishing' = Finishing \ {i} /\ rev' = rev /\ Ending' = Ending
  BY DEF Lock!Leave, Lock!Evict, Queue, Leading, Finishing, Ending, TicketOf, Leads, Finishes
<1> HIDE DEF Lock!Leave, Lock!Evict
<1>4. Lock!Leave(i) \/ Lock!Evict(i)
  BY <1>1, <1>2, <1>3 DEF With
<1> QED
  BY <1>4 DEF Lock!Next

\* The transaction of Campaign joins the queue, or finds that the instance is in it.
LEMMA PutKeyJoins ==
  ASSUME IInv, NEW i \in Instances, PutKey(i), lpc[i] = "campaign", lpc'[i] \in {"campaign", "wait"},
         \A j \in Instances \ {i} : lpc'[j] = lpc[j], UNCHANGED <<mpc, lease, running>>
  PROVE  [Lock!Next]_(Lock!lockVars)
<1>1. \A j \in Instances : /\ Leads(j)' = Leads(j) /\ Finishes(j)' = Finishes(j)
                           /\ Cancelled(j)' = Cancelled(j)
  BY DEF Leads, Finishes, Active, Cancelled, Leased
<1>2. CASE ~KeyMissing(i)
  <2>1. UNCHANGED <<present, crev, rev>>
    BY <1>2 DEF PutKey, KeyMissing
  <2>2. \A j \in Instances : TicketOf(j)' = TicketOf(j)
    BY <2>1 DEF TicketOf
  <2> QED
    BY <1>1, <2>1, <2>2, LockMoves DEF OthersKeep
<1>3. CASE KeyMissing(i)
  <2>1. /\ ~present[i] /\ present' = [present EXCEPT ![i] = TRUE]
        /\ crev' = [crev EXCEPT ![i] = rev + 1] /\ rev' = rev + 1
    BY <1>3 DEF PutKey, KeyMissing, NewRevision
  <2>2. TicketOf(i)' = rev' /\ TicketOf(i) = 0 /\ \A j \in Instances \ {i} : TicketOf(j)' = TicketOf(j)
    BY <2>1 DEF IInv, TypeOK, TicketOf
  <2>3. OthersKeep(i)
    BY <1>1, <2>2 DEF OthersKeep
  <2>4. Queue' = [Queue EXCEPT ![i] = rev'] /\ Queue[i] = 0
    BY <2>2, <2>3, OthersQueue DEF Queue
  <2>5. UNCHANGED <<Leading, Finishing, Ending>>
    BY <1>1 DEF Leading, Finishing, Ending
  <2>6. Lock!Join(i)
    BY <2>1, <2>4, <2>5 DEF Lock!Join, Lock!InQueue, Queue, Leading, Finishing, Ending, TicketOf, Leads, Finishes
  <2> QED
    BY <2>6 DEF Lock!Next
<1> QED
  BY <1>2, <1>3

LEMMA NextLock == WorkInv /\ [Next]_vars => [Lock!Next]_(Lock!lockVars)
<1> SUFFICES ASSUME WorkInv, [Next]_vars
             PROVE  [Lock!Next]_(Lock!lockVars)
  OBVIOUS
<1> USE DEF loopVars, etcdVars
<1>t. TypeOK /\ IInv
  BY DEF WorkInv, IInv
<1>1. ASSUME NEW i \in Instances, LeaderLoop(i)
      PROVE  [Lock!Next]_(Lock!lockVars)
  <2>1. CASE Campaign(i)
    BY <2>1, <1>t, PutKeyJoins DEF Campaign, TypeOK
  <2>2. CASE CampaignLost(i)
    BY <2>2, <1>t, PutKeyJoins DEF CampaignLost, TypeOK
  <2>3. CASE CampaignError(i) \/ Elected(i)
    <3>1. /\ lpc[i] = "wait" /\ lpc'[i] \in {"campaign", "won"} /\ \A j \in Instances \ {i} : lpc'[j] = lpc[j]
          /\ UNCHANGED <<mpc, lease, present, crev, rev, running>>
      BY <2>3, <1>t DEF CampaignError, Elected, TypeOK
    <3> QED
      BY <3>1, LockMoves DEF OthersKeep, TicketOf, Leads, Finishes, Active, Cancelled, Leased
  <2>4. CASE StartOptimizer(i)
    <3>1. /\ lpc[i] = "won" /\ lpc'[i] = "lead" /\ \A j \in Instances \ {i} : lpc'[j] = lpc[j]
          /\ running'[i] /\ \A j \in Instances \ {i} : running'[j] = running[j]
          /\ UNCHANGED <<mpc, lease, present, crev, rev>>
      BY <2>4, <1>t DEF StartOptimizer, TypeOK
    <3>2. OthersKeep(i) /\ TicketOf(i)' = TicketOf(i) /\ (Cancelled(i)' <=> Cancelled(i)) /\ ~Leads(i)
      BY <3>1 DEF OthersKeep, TicketOf, Leads, Finishes, Active, Cancelled, Leased
    <3>3. CASE ~Leased(i)
      <4>1. ~Finishes(i)' /\ ~Leads(i)'
        BY <3>1, <3>3 DEF Finishes, Leads, Leased
      <4> QED
        BY <3>1, <3>2, <4>1, LockMoves
    <3>4. CASE Leased(i) /\ Cancelled(i)
      <4>1. Finishes(i)' /\ ~Leads(i)'
        BY <3>1, <3>4 DEF Finishes, Leads, Leased, Active, Cancelled
      <4> QED
        BY <3>1, <3>2, <3>4, <4>1, LockMoves
    <3>5. CASE Leased(i) /\ ~Cancelled(i)
      <4>1. Candidate(i) /\ Leads(i)' /\ ~Finishes(i)'
        BY <3>1, <3>5 DEF Candidate, Leads, Finishes, Active, Cancelled, Leased
      <4>2. present[i] /\ crev[i] = myRev[i] /\ \A j \in Instances : present[j] => crev[j] >= crev[i]
        BY <3>1, <4>1, <1>t DEF IInv, CandidateHasKey, LeaderIsOldest
      <4>3. Queue[i] # 0 /\ \A j \in Instances : Queue[j] # 0 => Queue[i] <= Queue[j]
        BY <4>2, <1>t DEF Queue, TicketOf, IInv, KeysDistinct, TypeOK
      <4> QED
        BY <3>1, <3>2, <3>5, <4>1, <4>3, LockMoves
    <3> QED
      BY <3>3, <3>4, <3>5
  <2>5. CASE OptimizerReturns(i)
    <3>1. /\ ~running'[i] /\ \A j \in Instances \ {i} : running'[j] = running[j]
          /\ UNCHANGED <<lpc, mpc, lease, present, crev, rev>>
      BY <2>5, <1>t DEF OptimizerReturns, TypeOK
    <3> QED
      BY <3>1, LockMoves DEF OthersKeep, TicketOf, Leads, Finishes, Active, Cancelled, Leased
  <2>6. CASE LoseLeadership(i)
    <3>1. /\ lpc[i] = "lead" /\ lpc'[i] = "campaign" /\ \A j \in Instances \ {i} : lpc'[j] = lpc[j]
          /\ UNCHANGED <<mpc, lease, present, crev, rev, running>>
      BY <2>6, <1>t DEF LoseLeadership, TypeOK
    <3>2. OthersKeep(i) /\ TicketOf(i)' = TicketOf(i) /\ (Cancelled(i)' <=> Cancelled(i)) /\ ~Leads(i)'
      BY <3>1 DEF OthersKeep, TicketOf, Leads, Finishes, Active, Cancelled, Leased
    <3>3. CASE Leads(i)
      <4>1. Finishes(i)'
        BY <3>1, <3>3 DEF WorkInv, RunningAsStarted, Leads, Finishes, Active, Leased
      <4> QED
        BY <3>1, <3>2, <3>3, <4>1, LockMoves
    <3>4. CASE ~Leads(i)
      <4>1. (Finishes(i)' <=> Finishes(i))
        BY <3>1, <3>4 DEF Leads, Finishes, Active, Leased, Cancelled
      <4> QED
        BY <3>1, <3>2, <3>4, <4>1, LockMoves
    <3> QED
      BY <3>3, <3>4
  <2>7. CASE Return(i)
    <3>1. /\ \A j \in Instances \ {i} : lpc'[j] = lpc[j] /\ present'[j] = present[j]
          /\ Cancelled(i) /\ (present'[i] = present[i] \/ ~present'[i])
          /\ UNCHANGED <<mpc, lease, crev, rev, running>>
      BY <2>7, <1>t DEF Return, ResignKey, TypeOK
    <3>2. OthersKeep(i) /\ (Leads(i)' <=> Leads(i)) /\ (Finishes(i)' <=> Finishes(i)) /\ (Cancelled(i)' <=> Cancelled(i))
      BY <3>1 DEF OthersKeep, TicketOf, Leads, Finishes, Active, Cancelled, Leased
    <3>3. TicketOf(i)' = TicketOf(i) \/ TicketOf(i)' = 0
      BY <3>1 DEF TicketOf
    <3> QED
      BY <3>1, <3>2, <3>3, LockMoves, LockLeaves
  <2> QED
    BY <1>1, <2>1, <2>2, <2>3, <2>4, <2>5, <2>6, <2>7 DEF LeaderLoop
<1>2. ASSUME NEW i \in Instances, Process(i)
      PROVE  [Lock!Next]_(Lock!lockVars)
  <2>1. CASE StartInstance(i)
    <3>1. /\ lpc[i] = "down" /\ lpc'[i] = "campaign"
          /\ \A j \in Instances \ {i} : lpc'[j] = lpc[j] /\ lease'[j] = lease[j]
          /\ UNCHANGED <<mpc, present, crev, rev, running>>
      BY <2>1, <1>t DEF StartInstance, TypeOK
    <3>2. ~running[i]
      BY <3>1 DEF WorkInv, RunningAsStarted
    <3>3. OthersKeep(i) /\ TicketOf(i)' = TicketOf(i) /\ (Cancelled(i)' <=> Cancelled(i))
      BY <3>1 DEF OthersKeep, TicketOf, Leads, Finishes, Active, Cancelled, Leased
    <3>4. ~Leads(i) /\ ~Leads(i)' /\ ~Finishes(i)'
      BY <3>1, <3>2 DEF Leads, Finishes, Active
    <3> QED
      BY <3>1, <3>3, <3>4, LockMoves
  <2>2. CASE Cancel(i)
    <3>1. /\ mpc[i] = "run" /\ mpc'[i] # "run" /\ \A j \in Instances \ {i} : mpc'[j] = mpc[j]
          /\ UNCHANGED <<lpc, lease, present, crev, rev, running>>
      BY <2>2, <1>t DEF Cancel, TypeOK
    <3>2. OthersKeep(i) /\ TicketOf(i)' = TicketOf(i) /\ Cancelled(i)' /\ ~Leads(i)'
      BY <3>1 DEF OthersKeep, TicketOf, Leads, Finishes, Active, Cancelled, Leased
    <3>3. Leads(i) => running[i]
      BY DEF WorkInv, RunningAsStarted, Leads
    <3>4. (Finishes(i)' <=> (Finishes(i) \/ Leads(i)))
      BY <3>1, <3>3 DEF Leads, Finishes, Active, Cancelled, Leased
    <3> QED
      BY <3>1, <3>2, <3>4, LockMoves
  <2>3. CASE Resign(i) \/ CloseSession(i)
    <3>1. /\ mpc[i] # "run" /\ mpc'[i] # "run"
          /\ \A j \in Instances \ {i} : mpc'[j] = mpc[j] /\ present'[j] = present[j] /\ lease'[j] = lease[j]
          /\ \/ present'[i] = present[i] /\ lease'[i] = lease[i]
             \/ ~present'[i] /\ lease'[i] = lease[i]
             \/ ~present'[i] /\ lease'[i] = "expired"
          /\ UNCHANGED <<lpc, crev, rev, running>>
      BY <2>3, <1>t DEF Resign, ResignKey, CloseSession, TypeOK
    <3>2. OthersKeep(i) /\ Cancelled(i) /\ Cancelled(i)' /\ ~Leads(i) /\ ~Leads(i)'
      BY <3>1 DEF OthersKeep, TicketOf, Leads, Finishes, Active, Cancelled, Leased
    <3>3. \/ TicketOf(i)' = TicketOf(i) /\ (Finishes(i)' <=> Finishes(i))
          \/ TicketOf(i)' = 0 /\ (Finishes(i)' <=> Finishes(i))
          \/ TicketOf(i)' = 0 /\ ~Finishes(i)'
      BY <3>1, <3>2 DEF TicketOf, Finishes, Active, Leased
    <3> QED
      BY <3>1, <3>2, <3>3, LockMoves, LockLeaves
  <2>4. CASE Die(i)
    <3>1. /\ mpc'[i] # "run" /\ ~running'[i]
          /\ \A j \in Instances \ {i} : mpc'[j] = mpc[j] /\ lpc'[j] = lpc[j] /\ running'[j] = running[j]
          /\ UNCHANGED <<lease, present, crev, rev>>
      BY <2>4, <1>t DEF Die, TypeOK
    <3>2. OthersKeep(i) /\ TicketOf(i)' = TicketOf(i) /\ Cancelled(i)' /\ ~Leads(i)' /\ ~Finishes(i)'
      BY <3>1 DEF OthersKeep, TicketOf, Leads, Finishes, Active, Cancelled, Leased
    <3> QED
      BY <3>1, <3>2, LockMoves
  <2> QED
    BY <1>2, <2>1, <2>2, <2>3, <2>4 DEF Process
<1>3. ASSUME NEW i \in Instances, Session(i)
      PROVE  [Lock!Next]_(Lock!lockVars)
  <2>1. CASE Expire(i)
    <3>1. /\ lease'[i] # "live" /\ ~present'[i]
          /\ \A j \in Instances \ {i} : present'[j] = present[j] /\ lease'[j] = lease[j]
          /\ UNCHANGED <<lpc, mpc, crev, rev, running>>
      BY <2>1, <1>t DEF Expire, Drop, TypeOK
    <3> QED
      BY <3>1, LockLeaves DEF OthersKeep, TicketOf, Leads, Finishes, Active, Cancelled, Leased
  <2>2. CASE LoseSession(i)
    BY <2>2, LockMoves DEF LoseSession, OthersKeep, TicketOf, Leads, Finishes, Active, Cancelled, Leased
  <2> QED
    BY <1>3, <2>1, <2>2 DEF Session
<1>4. CASE AllGone \/ UNCHANGED vars
  <2>1. UNCHANGED vars
    BY <1>4 DEF AllGone
  <2> QED
    BY <2>1 DEF vars, Lock!lockVars, Active, Cancelled, Leased
<1> QED
  BY <1>1, <1>2, <1>3, <1>4 DEF Next

\* The election is a lock with a queue: the sessions, retries, late transactions and the
\* shutdown of any number of instances change neither the order in which they lead nor
\* that only an instance that was told to end, or has no lease, gives up its place.
THEOREM ImplementsLock == Spec => LockSpec
<1>1. Init => Lock!Init
  BY DEF Init, Lock!Init, Active, Cancelled
<1>2. WorkInv /\ [Next]_vars => [Lock!Next]_(Lock!lockVars)
  BY NextLock
<1> QED
  BY <1>1, <1>2, InitWorkInv, NextWork, PTL DEF Spec, LockSpec, Lock!Spec

\* Who is at work and was not told to end: it leads, or finishes and keeps its place.
AtWork == Leading \cup (Finishing \ Ending)

\* In the queue no two have the same number, and who is at work has the lowest.
QueueInv ==
  /\ rev \in Nat /\ \A i \in Instances : Queue[i] \in 0..rev
  /\ \A i, j \in Instances : i # j /\ Queue[i] # 0 => Queue[i] # Queue[j]
  /\ Leading \cap Ending = {}
  /\ \A i \in AtWork : Queue[i] # 0 /\ \A j \in Instances : Queue[j] # 0 => Queue[i] <= Queue[j]

LEMMA LockInit == Lock!Init => QueueInv
<1> SUFFICES ASSUME Lock!Init
             PROVE  QueueInv
  OBVIOUS
<1>1. rev = 0 /\ Leading = {} /\ Finishing = {} /\ Queue = [i \in Instances |-> 0]
  BY DEF Lock!Init, Queue, Leading, Finishing, TicketOf, Leads, Finishes
<1> QED
  BY <1>1 DEF QueueInv, AtWork

LEMMA LockNext == QueueInv /\ [Lock!Next]_(Lock!lockVars) => QueueInv'
<1> SUFFICES ASSUME QueueInv, [Lock!Next]_(Lock!lockVars)
             PROVE  QueueInv'
  OBVIOUS
<1>1. /\ rev \in Nat /\ \A i \in Instances : Queue[i] \in 0..rev
      /\ \A i, j \in Instances : i # j /\ Queue[i] # 0 => Queue[i] # Queue[j]
      /\ Leading \cap Ending = {}
      /\ \A i \in AtWork : Queue[i] # 0 /\ \A j \in Instances : Queue[j] # 0 => Queue[i] <= Queue[j]
      /\ AtWork \subseteq Instances /\ DOMAIN Queue = Instances
  BY DEF QueueInv, AtWork, Leading, Finishing, Queue
<1>2. CASE \E i \in Instances : /\ Queue[i] = 0 /\ rev' = rev + 1 /\ Queue' = [Queue EXCEPT ![i] = rev']
                                /\ UNCHANGED <<Leading, Finishing, Ending>>
  BY <1>1, <1>2 DEF QueueInv, AtWork
<1>3. CASE \E i \in Instances : /\ Queue[i] # 0 /\ \A j \in Instances : Queue[j] # 0 => Queue[i] <= Queue[j]
                                /\ i \notin Ending /\ Leading' = Leading \cup {i} /\ Finishing' = Finishing \ {i}
                                /\ UNCHANGED <<Queue, rev, Ending>>
  BY <1>1, <1>3 DEF QueueInv, AtWork
<1>4. CASE /\ UNCHANGED <<Queue, rev>> /\ AtWork' \subseteq AtWork /\ Leading' \cap Ending' = {}
  BY <1>1, <1>4 DEF QueueInv
<1>5. CASE \E i \in Instances : /\ Queue' = [Queue EXCEPT ![i] = 0] /\ rev' = rev /\ i \notin AtWork'
                                /\ AtWork' \subseteq AtWork /\ Leading' \cap Ending' = {}
  BY <1>1, <1>5 DEF QueueInv
<1>6. ASSUME NEW i \in Instances,
             Lock!Join(i) \/ Lock!Lead(i) \/ Lock!Pause(i) \/ Lock!Finish(i) \/ Lock!End(i)
               \/ Lock!BeginLate(i) \/ Lock!Leave(i) \/ Lock!Evict(i) \/ Lock!Crash(i)
      PROVE  QueueInv'
  <2>1. CASE Lock!Join(i)
    <3>1. Queue[i] = 0 /\ rev' = rev + 1 /\ Queue' = [Queue EXCEPT ![i] = rev'] /\ UNCHANGED <<Leading, Finishing, Ending>>
      BY <2>1 DEF Lock!Join, Lock!InQueue, Queue, Leading, Finishing, Ending, TicketOf, Leads, Finishes
    <3> QED
      BY <1>2, <3>1
  <2>2. CASE Lock!Lead(i)
    <3>1. /\ Queue[i] # 0 /\ \A j \in Instances : Queue[j] # 0 => Queue[i] <= Queue[j]
          /\ i \notin Ending /\ Leading' = Leading \cup {i} /\ Finishing' = Finishing \ {i}
          /\ UNCHANGED <<Queue, rev, Ending>>
      BY <2>2 DEF Lock!Lead, Lock!InQueue, Queue, Leading, Finishing, Ending, TicketOf, Leads, Finishes
    <3> QED
      BY <1>3, <3>1
  <2>3. CASE Lock!Pause(i) \/ Lock!Finish(i) \/ Lock!End(i) \/ Lock!BeginLate(i) \/ Lock!Crash(i)
    <3>1. /\ UNCHANGED <<Queue, rev>>
          /\ \/ i \in Leading /\ Leading' = Leading \ {i} /\ Finishing' = Finishing \cup {i} /\ Ending' = Ending
             \/ Finishing' = Finishing \ {i} /\ UNCHANGED <<Leading, Ending>>
             \/ /\ Ending' = Ending \cup {i} /\ Leading' = Leading \ {i}
                /\ Finishing' = Finishing \cup ({i} \cap Leading)
             \/ i \in Ending /\ Finishing' = Finishing \cup {i} /\ UNCHANGED <<Leading, Ending>>
             \/ Ending' = Ending \cup {i} /\ Leading' = Leading \ {i} /\ Finishing' = Finishing \ {i}
      BY <2>3 DEF Lock!Pause, Lock!Finish, Lock!End, Lock!BeginLate, Lock!Crash,
                  Queue, Leading, Finishing, Ending, TicketOf, Leads, Finishes
    <3>2. AtWork' \subseteq AtWork /\ Leading' \cap Ending' = {}
      BY <1>1, <3>1 DEF AtWork
    <3> QED
      BY <1>4, <3>1, <3>2
  <2>4. CASE Lock!Leave(i) \/ Lock!Evict(i)
    <3>1. /\ Queue' = [Queue EXCEPT ![i] = 0] /\ rev' = rev /\ Ending' = Ending
          /\ \/ i \in Ending /\ UNCHANGED <<Leading, Finishing>>
             \/ Leading' = Leading \ {i} /\ Finishing' = Finishing \ {i}
      BY <2>4 DEF Lock!Leave, Lock!Evict, Queue, Leading, Finishing, Ending, TicketOf, Leads, Finishes
    <3>2. i \notin AtWork' /\ AtWork' \subseteq AtWork /\ Leading' \cap Ending' = {}
      BY <1>1, <3>1 DEF AtWork
    <3> QED
      BY <1>5, <3>1, <3>2
  <2> QED
    BY <1>6, <2>1, <2>2, <2>3, <2>4
<1>7. CASE UNCHANGED Lock!lockVars
  <2>1. UNCHANGED <<Queue, rev, Leading, Finishing, Ending>>
    BY <1>7 DEF Lock!lockVars, Queue, Leading, Finishing, Ending, TicketOf, Leads, Finishes
  <2> QED
    BY <1>1, <2>1 DEF QueueInv, AtWork
<1> QED
  BY <1>6, <1>7 DEF Lock!Next

\* The order of the queue, and that only those told to end give up their place with their
\* lease, are enough: in anything that keeps the lock at most one instance that has its
\* lease and was not told to end is at work, leading or finishing.
THEOREM LockIsExclusive == LockSpec => [](\A i, j \in AtWork : i = j)
<1>1. QueueInv => \A i, j \in AtWork : i = j
  <2> SUFFICES ASSUME QueueInv, NEW i \in AtWork, NEW j \in AtWork, i # j
               PROVE  FALSE
    OBVIOUS
  <2>1. i \in Instances /\ j \in Instances /\ Queue[i] # 0 /\ Queue[j] # 0
    BY DEF QueueInv, AtWork, Leading, Finishing
  <2>2. Queue[i] <= Queue[j] /\ Queue[j] <= Queue[i] /\ Queue[i] # Queue[j]
    BY <2>1 DEF QueueInv
  <2>3. Queue[i] \in Nat /\ Queue[j] \in Nat
    BY <2>1 DEF QueueInv
  <2> QED
    BY <2>2, <2>3
<1> QED
  BY <1>1, LockInit, LockNext, PTL DEF LockSpec, Lock!Spec

----------------------------------------------------------------------------
(* The number of keys.                                                     *)

\* main has resigned: it does so once.
Resigned(i) == mpc[i] \in {"resigned", "closed", "gone"}

\* An instance whose loop and lease live on has lost its key to that Resign, if it had one.
KeyLostOnce ==
  \A i \in Instances :
    /\ lpc[i] = "down" => crev[i] = 0
    /\ lease[i] = "live" /\ crev[i] > 0 /\ lpc[i] # "returned" /\ ~present[i] => Resigned(i)

\* The instances that put a key, and those that can put no more, at two keys at most.
HadKey == {i \in Instances : crev[i] > 0}
NoneLeft == {i \in HadKey : Resigned(i) /\ (lpc[i] = "returned" \/ lease[i] # "live" \/ present[i])}

KeysCounted == rev <= Cardinality(HadKey) + Cardinality(NoneLeft)

\* What a step does to one instance.
KeyStep(i) ==
  /\ lpc'[i] = "down" => crev'[i] = 0
  /\ lease'[i] = "live" /\ crev'[i] > 0 /\ lpc'[i] # "returned" /\ ~present'[i] => Resigned(i)'
  /\ crev[i] > 0 => crev'[i] > 0
  /\ i \in NoneLeft => Resigned(i)' /\ (lpc'[i] = "returned" \/ lease'[i] # "live" \/ present'[i])

LEMMA PutKeyStep ==
  ASSUME IInv, KeyLostOnce, NEW i \in Instances, lpc[i] = "campaign", PutKey(i),
         UNCHANGED <<mpc, lease>>, lpc'[i] \in {"campaign", "wait"}
  PROVE  /\ KeyStep(i)
         /\ \A j \in Instances \ {i} : UNCHANGED <<present[j], crev[j]>>
         /\ rev' # rev => rev' = rev + 1 /\ present'[i] /\ crev'[i] > 0 /\ (crev[i] > 0 => Resigned(i) /\ i \notin NoneLeft)
<1> USE DEF IInv, TypeOK, KeyLostOnce, KeyStep, HadKey, NoneLeft, Resigned
<1>1. CASE ~KeyMissing(i)
  BY <1>1 DEF PutKey, KeyMissing
<1>2. CASE KeyMissing(i)
  <2>1. /\ present' = [present EXCEPT ![i] = TRUE] /\ ~present[i] /\ lease[i] = "live"
        /\ crev' = [crev EXCEPT ![i] = rev + 1] /\ rev' = rev + 1
    BY <1>2 DEF PutKey, NewRevision, KeyMissing
  <2>2. present'[i] /\ crev'[i] = rev + 1 /\ rev \in Nat
    BY <2>1
  <2> QED
    BY <2>1, <2>2
<1> QED
  BY <1>1, <1>2

\* Each step of an instance puts a key at most, and keeps the count.
LEMMA InstanceStep ==
  ASSUME IInv, KeyLostOnce, NEW i \in Instances, LeaderLoop(i) \/ Process(i) \/ Session(i)
  PROVE  /\ KeyStep(i)
         /\ \A j \in Instances \ {i} : UNCHANGED <<lpc[j], mpc[j], lease[j], present[j], crev[j]>>
         /\ rev' # rev => rev' = rev + 1 /\ present'[i] /\ crev'[i] > 0 /\ (crev[i] > 0 => Resigned(i)' /\ i \notin NoneLeft)
<1>t. TypeOK
  BY DEF IInv
<1>1. CASE Campaign(i)
  <2>1. /\ lpc' = [lpc EXCEPT ![i] = "wait"] /\ lpc[i] = "campaign" /\ PutKey(i) /\ UNCHANGED <<mpc, lease>>
    BY <1>1 DEF Campaign
  <2>2. lpc'[i] = "wait" /\ \A j \in Instances \ {i} : lpc'[j] = lpc[j]
    BY <2>1, <1>t DEF TypeOK
  <2> QED
    BY <2>1, <2>2, PutKeyStep DEF Resigned
<1>2. CASE CampaignLost(i)
  <2>1. /\ lpc[i] = "campaign" /\ PutKey(i) /\ UNCHANGED <<lpc, mpc, lease>>
    BY <1>2 DEF CampaignLost, loopVars
  <2> QED
    BY <2>1, PutKeyStep DEF Resigned
<1> USE DEF TypeOK, KeyLostOnce, KeyStep, HadKey, NoneLeft, Resigned, etcdVars, loopVars
<1>3. CASE CampaignError(i) \/ Elected(i) \/ StartOptimizer(i) \/ OptimizerReturns(i) \/ LoseLeadership(i)
  BY <1>3, <1>t DEF CampaignError, Elected, StartOptimizer, OptimizerReturns, LoseLeadership
<1>4. CASE Return(i)
  BY <1>4, <1>t DEF Return, ResignKey
<1>5. CASE StartInstance(i)
  BY <1>5, <1>t DEF StartInstance
<1>6. CASE Cancel(i)
  BY <1>6, <1>t DEF Cancel
<1>7. CASE Resign(i)
  BY <1>7, <1>t DEF Resign, ResignKey
<1>8. CASE CloseSession(i)
  BY <1>8, <1>t DEF CloseSession
<1>9. CASE Die(i)
  BY <1>9, <1>t DEF Die
<1>10. CASE Session(i)
  BY <1>10, <1>t DEF Session, Expire, Drop, LoseSession
<1> QED
  BY <1>1, <1>2, <1>3, <1>4, <1>5, <1>6, <1>7, <1>8, <1>9, <1>10 DEF LeaderLoop, Process

\* A set that grows by an element counts one more.
LEMMA GrownSet ==
  ASSUME NEW S, NEW T, S \subseteq T, T \subseteq Instances, NEW x, x \in T, x \notin S
  PROVE  Cardinality(T) >= Cardinality(S) + 1
<1>1. IsFiniteSet(S) /\ IsFiniteSet(T)
  BY InstancesFinite, FS_Subset
<1>2. Cardinality(S \cup {x}) = Cardinality(S) + 1 /\ IsFiniteSet(S \cup {x})
  BY <1>1, FS_AddElement
<1>3. Cardinality(S \cup {x}) <= Cardinality(T) /\ Cardinality(S) \in Nat /\ Cardinality(T) \in Nat
  BY <1>1, FS_Subset, FS_CardinalityType
<1> QED
  BY <1>2, <1>3

LEMMA KeptSet ==
  ASSUME NEW S, NEW T, S \subseteq T, T \subseteq Instances
  PROVE  Cardinality(S) <= Cardinality(T) /\ Cardinality(S) \in Nat /\ Cardinality(T) \in Nat
BY InstancesFinite, FS_Subset, FS_CardinalityType

LEMMA InitCount == Init => KeyLostOnce /\ KeysCounted
<1> SUFFICES ASSUME Init
             PROVE  KeyLostOnce /\ KeysCounted
  OBVIOUS
<1>1. KeyLostOnce /\ rev = 0
  BY DEF Init, KeyLostOnce
<1>2. Cardinality(HadKey) \in Nat /\ Cardinality(NoneLeft) \in Nat
  BY KeptSet DEF HadKey, NoneLeft
<1> QED
  BY <1>1, <1>2 DEF KeysCounted

LEMMA NextCount == IInv /\ KeyLostOnce /\ KeysCounted /\ [Next]_vars => KeyLostOnce' /\ KeysCounted'
<1> SUFFICES ASSUME IInv, KeyLostOnce, KeysCounted, [Next]_vars
             PROVE  KeyLostOnce' /\ KeysCounted'
  OBVIOUS
<1>1. ASSUME NEW i \in Instances, LeaderLoop(i) \/ Process(i) \/ Session(i)
      PROVE  KeyLostOnce' /\ KeysCounted'
  <2>1. /\ KeyStep(i)
        /\ \A j \in Instances \ {i} : UNCHANGED <<lpc[j], mpc[j], lease[j], present[j], crev[j]>>
        /\ rev' # rev => rev' = rev + 1 /\ present'[i] /\ crev'[i] > 0 /\ (crev[i] > 0 => Resigned(i)' /\ i \notin NoneLeft)
    BY <1>1, InstanceStep
  <2>2. KeyLostOnce'
    BY <2>1 DEF KeyLostOnce, KeyStep, Resigned
  <2>3. HadKey \subseteq HadKey' /\ HadKey' \subseteq Instances
    BY <2>1 DEF HadKey, KeyStep
  <2>4. NoneLeft \subseteq NoneLeft' /\ NoneLeft' \subseteq Instances
    BY <2>1, <2>3 DEF NoneLeft, HadKey, KeyStep, Resigned
  <2>5. rev' # rev => (i \in HadKey' /\ i \notin HadKey) \/ (i \in NoneLeft' /\ i \notin NoneLeft)
    <3>1. CASE crev[i] > 0
      BY <2>1, <3>1 DEF HadKey, NoneLeft
    <3>2. CASE ~(crev[i] > 0)
      BY <2>1, <3>2 DEF HadKey
    <3> QED
      BY <3>1, <3>2
  <2>6. /\ Cardinality(HadKey') >= Cardinality(HadKey) /\ Cardinality(NoneLeft') >= Cardinality(NoneLeft)
        /\ Cardinality(HadKey) \in Nat /\ Cardinality(NoneLeft) \in Nat
        /\ Cardinality(HadKey') \in Nat /\ Cardinality(NoneLeft') \in Nat
    BY <2>3, <2>4, KeptSet
  <2>7. CASE rev' = rev
    BY <2>2, <2>6, <2>7 DEF KeysCounted, IInv, TypeOK
  <2>8. CASE rev' # rev
    <3>1. Cardinality(HadKey') >= Cardinality(HadKey) + 1 \/ Cardinality(NoneLeft') >= Cardinality(NoneLeft) + 1
      BY <2>3, <2>4, <2>5, <2>8, GrownSet
    <3> QED
      BY <2>1, <2>2, <2>6, <2>8, <3>1 DEF KeysCounted, IInv, TypeOK
  <2> QED
    BY <2>2, <2>7, <2>8
<1>2. CASE AllGone \/ UNCHANGED vars
  BY <1>2 DEF AllGone, vars, KeyLostOnce, KeysCounted, HadKey, NoneLeft, Resigned
<1> QED
  BY <1>1, <1>2 DEF Next

\* An instance puts two keys at most in its life, in whatever order its transactions,
\* its shutdown and the loss of its session come: retries do not fill etcd.
THEOREM KeysAreBounded == Spec => []KeysBounded
<1>1. IInv /\ KeysCounted => KeysBounded
  <2> SUFFICES ASSUME IInv, KeysCounted
               PROVE  KeysBounded
    OBVIOUS
  <2>1. HadKey \subseteq Instances /\ NoneLeft \subseteq Instances
    BY DEF HadKey, NoneLeft
  <2>2. /\ Cardinality(HadKey) <= Cardinality(Instances) /\ Cardinality(NoneLeft) <= Cardinality(Instances)
        /\ Cardinality(HadKey) \in Nat /\ Cardinality(NoneLeft) \in Nat /\ Cardinality(Instances) \in Nat
    BY <2>1, KeptSet
  <2>3. rev <= Cardinality(HadKey) + Cardinality(NoneLeft) /\ rev \in Nat
    BY DEF KeysCounted, IInv, TypeOK
  <2>4. \A r, a, b, n \in Nat : r <= a + b /\ a <= n /\ b <= n => r <= 2 * n
    OBVIOUS
  <2> QED
    BY <2>2, <2>3, <2>4 DEF KeysBounded
<1>2. Spec => [](IInv /\ KeyLostOnce /\ KeysCounted)
  BY InitInv, NextInv, InitCount, NextCount, PTL DEF Spec
<1> QED
  BY <1>1, <1>2, PTL
=============================================================================
