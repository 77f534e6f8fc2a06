--------------------------- MODULE LeaderElection ---------------------------
(***************************************************************************)
(* The election of the optimizer's leader (services/optimizer): LeaderLoop,*)
(* the etcd session of each instance, the optimizer as far as it runs or   *)
(* has returned, and the shutdown sequence of main.                        *)
(*                                                                         *)
(* An instance is one process from start to end; a restarted process is    *)
(* another instance.  NewElection creates the instance's only session, so  *)
(* an instance has one lease.  Of etcd's concurrency package the model     *)
(* keeps what LeaderLoop and main rely on: the lease and the closing of    *)
(* Done(), the candidate's key with its create revision, the transaction   *)
(* and the wait of Campaign, and Resign.                                   *)
(***************************************************************************)
EXTENDS Naturals, FiniteSets

CONSTANTS
  Instances   \* processes of the optimizer service

ASSUME InstancesFinite == IsFiniteSet(Instances)

VARIABLES
  lpc,      \* where LeaderLoop of each instance is
  mpc,      \* where main of each instance is; "gone" once the process is dead
  lease,    \* etcd: the lease of each instance
  done,     \* whether SessionDone() of each instance is closed
  present,  \* etcd: whether the key of each instance exists
  crev,     \* etcd: create revision of the last key of each instance, 0 if none
  rev,      \* etcd: create revision of the last key of all
  myRev,    \* leaderRev of each Election
  held,     \* whether leaderSession of each Election is set
  running   \* whether a goroutine that a Start of the optimizer began has not returned

loopVars == <<lpc, myRev, held>>
etcdVars == <<lease, present, crev, rev>>
vars == <<lpc, mpc, lease, done, present, crev, rev, myRev, held, running>>

Leased(i) == lease[i] = "live"

Alive(i) == lpc[i] # "down" /\ mpc[i] # "gone"

\* cancel() of main cancels the context of LeaderLoop and, through it, the context
\* of the optimizer that LeaderLoop started.
Cancelled(i) == mpc[i] # "run"

\* The context that LeaderLoop gave the optimizer of i is not cancelled.
Active(i) == lpc[i] = "lead" /\ ~Cancelled(i)

Init ==
  /\ lpc = [i \in Instances |-> "down"]
  /\ mpc = [i \in Instances |-> "run"]
  /\ lease = [i \in Instances |-> "none"]
  /\ done = [i \in Instances |-> FALSE]
  /\ present = [i \in Instances |-> FALSE]
  /\ crev = [i \in Instances |-> 0]
  /\ rev = 0
  /\ myRev = [i \in Instances |-> 0]
  /\ held = [i \in Instances |-> FALSE]
  /\ running = [i \in Instances |-> FALSE]

\* NewElection: main starts LeaderLoop once the session has its lease.
StartInstance(i) ==
  /\ lpc[i] = "down"
  /\ mpc[i] = "run"
  /\ lpc' = [lpc EXCEPT ![i] = "campaign"]
  /\ lease' = [lease EXCEPT ![i] = "live"]
  /\ UNCHANGED <<mpc, done, present, crev, rev, myRev, held, running>>

----------------------------------------------------------------------------
(* The lease.                                                              *)

Drop(i) ==
  /\ lease[i] = "live"
  /\ lease' = [lease EXCEPT ![i] = "expired"]
  /\ present' = [present EXCEPT ![i] = FALSE]
  /\ UNCHANGED <<lpc, mpc, crev, rev, myRev, held, running>>

\* etcd has heard nothing for sessionTTL seconds and deletes the instance's key.
Expire(i) == Drop(i) /\ UNCHANGED done

\* Done() is closed when the client learns of the expiry, or when its own deadline
\* passes with no answer from etcd, which may still hold the lease.
LoseSession(i) ==
  /\ Alive(i)
  /\ ~done[i]
  /\ done' = [done EXCEPT ![i] = TRUE]
  /\ UNCHANGED <<lpc, mpc, etcdVars, myRev, held, running>>

\* Nobody renews the lease any more: the client gave up, or is dead.
Unrenewed(i) == done[i]

----------------------------------------------------------------------------
(* LeaderLoop.                                                             *)

NewRevision_Stale == rev
NewRevision == rev + 1

\* Campaign puts the instance's key unless it is there already, in a transaction
\* that fails when the lease is gone.
KeyMissing_Unchecked(i) == TRUE
KeyMissing(i) == ~present[i]

PutKey(i) ==
  /\ lease[i] = "live"
  /\ IF KeyMissing(i)
       THEN /\ present' = [present EXCEPT ![i] = TRUE]
            /\ crev' = [crev EXCEPT ![i] = rev + 1]
            /\ rev' = NewRevision
       ELSE UNCHANGED <<present, crev, rev>>

Campaign(i) ==
  /\ lpc[i] = "campaign"
  /\ ~Cancelled(i)
  /\ PutKey(i)
  /\ lpc' = [lpc EXCEPT ![i] = "wait"]
  /\ myRev' = [myRev EXCEPT ![i] = crev'[i]]
  /\ held' = [held EXCEPT ![i] = TRUE]
  /\ UNCHANGED <<mpc, lease, done, running>>

\* The transaction is applied and its answer lost, or main cancelled the context
\* meanwhile: Campaign returns an error, and the loop retries or returns.
CampaignLost(i) ==
  /\ Alive(i)
  /\ lpc[i] = "campaign"
  /\ PutKey(i)
  /\ UNCHANGED <<loopVars, mpc, lease, done, running>>

\* The wait for the older keys fails: Campaign returns the error, the loop retries.
CampaignError_GivesUp(i) ==
  /\ lpc[i] = "wait"
  /\ ~Cancelled(i)
  /\ lpc' = [lpc EXCEPT ![i] = "returned"]
  /\ held' = [held EXCEPT ![i] = FALSE]
  /\ UNCHANGED <<mpc, done, etcdVars, myRev, running>>

CampaignError_Ignored(i) ==
  /\ lpc[i] = "wait"
  /\ ~Cancelled(i)
  /\ lpc' = [lpc EXCEPT ![i] = "won"]
  /\ UNCHANGED <<mpc, done, etcdVars, myRev, held, running>>

CampaignError(i) ==
  /\ lpc[i] = "wait"
  /\ ~Cancelled(i)
  /\ lpc' = [lpc EXCEPT ![i] = "campaign"]
  /\ held' = [held EXCEPT ![i] = FALSE]
  /\ UNCHANGED <<mpc, done, etcdVars, myRev, running>>

\* waitDeletes finds no key older than the instance's own, and does not look at
\* that one: Campaign returns nil.
OlderGone(i) == \A j \in Instances : present[j] => crev[j] >= myRev[i]

Elected(i) ==
  /\ Alive(i)
  /\ lpc[i] = "wait"
  /\ OlderGone(i)
  /\ lpc' = [lpc EXCEPT ![i] = "won"]
  /\ UNCHANGED <<mpc, done, etcdVars, myRev, held, running>>

\* o.Start(leaderContext), even when main has cancelled the context meanwhile.
StartOptimizer(i) ==
  /\ Alive(i)
  /\ lpc[i] = "won"
  /\ lpc' = [lpc EXCEPT ![i] = "lead"]
  /\ running' = [running EXCEPT ![i] = TRUE]
  /\ UNCHANGED <<mpc, done, etcdVars, myRev, held>>

\* The last goroutine of the optimizer sees ctx.Done() and returns.  Until then it may
\* finish the message it is at, and take more; neither LeaderLoop nor main waits for it.
OptimizerReturns(i) ==
  /\ running[i]
  /\ ~Active(i)
  /\ running' = [running EXCEPT ![i] = FALSE]
  /\ UNCHANGED <<loopVars, mpc, done, etcdVars>>

\* "session expired, lost leadership": leaderCancel, and round the loop again.
LoseLeadership_Ignored(i) == FALSE
LoseLeadership(i) ==
  /\ Alive(i)
  /\ lpc[i] = "lead"
  /\ done[i]
  /\ lpc' = [lpc EXCEPT ![i] = "campaign"]
  /\ UNCHANGED <<mpc, done, etcdVars, myRev, held, running>>

\* Resign deletes the key its Campaign put, if that one is still there; the
\* transaction may fail, and nobody looks at its error.
ResignKey(i) ==
  /\ held' = [held EXCEPT ![i] = FALSE]
  /\ \/ held[i] /\ crev[i] = myRev[i] /\ present' = [present EXCEPT ![i] = FALSE]
     \/ UNCHANGED present

\* ctx.Done(): LeaderLoop returns; Campaign resigns if it was waiting.
Return(i) ==
  /\ Alive(i)
  /\ Cancelled(i)
  /\ lpc[i] \in {"campaign", "wait", "lead"}
  /\ lpc' = [lpc EXCEPT ![i] = "returned"]
  /\ IF lpc[i] = "wait" THEN ResignKey(i) ELSE UNCHANGED <<held, present>>
  /\ UNCHANGED <<mpc, lease, done, crev, rev, myRev, running>>

----------------------------------------------------------------------------
(* main: signal and cancel(), Resign, Close of the session, exit.  Nothing *)
(* waits for LeaderLoop or the optimizer to return.                        *)

Cancel(i) ==
  /\ lpc[i] # "down"
  /\ mpc[i] = "run"
  /\ mpc' = [mpc EXCEPT ![i] = "cancelled"]
  /\ UNCHANGED <<loopVars, done, etcdVars, running>>

Resign_BeforeCancel(i) ==
  /\ lpc[i] # "down"
  /\ mpc[i] = "run"
  /\ ResignKey(i)
  /\ UNCHANGED <<mpc, lpc, myRev, done, lease, crev, rev, running>>

Resign(i) ==
  /\ mpc[i] = "cancelled"
  /\ mpc' = [mpc EXCEPT ![i] = "resigned"]
  /\ ResignKey(i)
  /\ UNCHANGED <<lpc, myRev, done, lease, crev, rev, running>>

\* Close stops the renewal of the lease and revokes it; a failure is ignored.
CloseSession(i) ==
  /\ mpc[i] = "resigned"
  /\ mpc' = [mpc EXCEPT ![i] = "closed"]
  /\ done' = [done EXCEPT ![i] = TRUE]
  /\ \/ /\ lease' = [lease EXCEPT ![i] = "expired"]
        /\ present' = [present EXCEPT ![i] = FALSE]
     \/ UNCHANGED <<lease, present>>
  /\ UNCHANGED <<loopVars, crev, rev, running>>

\* The process ends, at the end of main or in a crash, and its memory with it.
Die(i) ==
  /\ lpc[i] # "down"
  /\ mpc[i] # "gone"
  /\ mpc' = [mpc EXCEPT ![i] = "gone"]
  /\ lpc' = [lpc EXCEPT ![i] = "returned"]
  /\ done' = [done EXCEPT ![i] = TRUE]
  /\ myRev' = [myRev EXCEPT ![i] = 0]
  /\ held' = [held EXCEPT ![i] = FALSE]
  /\ running' = [running EXCEPT ![i] = FALSE]
  /\ UNCHANGED etcdVars

\* Every process has ended and every lease with it.
AllGone ==
  /\ \A i \in Instances : mpc[i] = "gone" /\ lease[i] = "expired"
  /\ UNCHANGED vars

----------------------------------------------------------------------------
LeaderLoop(i) ==
  \/ Campaign(i) \/ CampaignLost(i) \/ CampaignError(i) \/ Elected(i)
  \/ StartOptimizer(i) \/ OptimizerReturns(i) \/ LoseLeadership(i) \/ Return(i)

Process(i) == StartInstance(i) \/ Cancel(i) \/ Resign(i) \/ CloseSession(i) \/ Die(i)

Session(i) == Expire(i) \/ LoseSession(i)

Next ==
  \/ \E i \in Instances : LeaderLoop(i) \/ Process(i) \/ Session(i)
  \/ AllGone

Spec == Init /\ [][Next]_vars

\* The goroutines of a live instance run, an optimizer whose context is cancelled returns
\* (its calls take that context, and select picks at random among the ready cases), a
\* client learns that its lease is gone, a lease that nobody renews expires, and etcd does
\* not refuse for ever the calls of an instance that makes them again and again.  No
\* instance has to start, to be stopped, to crash, or to lose a session that etcd keeps.
Fairness ==
  \A i \in Instances :
    /\ SF_vars(Campaign(i))
    /\ SF_vars(Elected(i))
    /\ WF_vars(StartOptimizer(i))
    /\ WF_vars(OptimizerReturns(i))
    /\ WF_vars(LoseLeadership(i))
    /\ WF_vars(Return(i))
    /\ WF_vars(Resign(i) \/ CloseSession(i))
    /\ WF_vars(mpc[i] = "closed" /\ Die(i))
    /\ WF_vars(lease[i] = "expired" /\ LoseSession(i))
    /\ WF_vars(Unrenewed(i) /\ Expire(i))

FairSpec == Spec /\ Fairness

----------------------------------------------------------------------------
(* What the election promises.                                             *)

TypeOK ==
  /\ lpc \in [Instances -> {"down", "campaign", "wait", "won", "lead", "returned"}]
  /\ mpc \in [Instances -> {"run", "cancelled", "resigned", "closed", "gone"}]
  /\ lease \in [Instances -> {"none", "live", "expired"}]
  /\ done \in [Instances -> BOOLEAN]
  /\ present \in [Instances -> BOOLEAN]
  /\ rev \in Nat
  /\ crev \in [Instances -> 0..rev]
  /\ myRev \in [Instances -> 0..rev]
  /\ held \in [Instances -> BOOLEAN]
  /\ running \in [Instances -> BOOLEAN]

\* Two optimizers run at once only while one of them has lost its lease and not yet
\* learnt of it, or was told to stop by its main and has not returned: Resign gives the
\* key away while the optimizer may be in the middle of a message, but never before it
\* was told.  An optimizer that is stopped because its session seems lost keeps the others
\* out, with its lease, until it has returned (LeaderLoop; cancel before Resign in main).
SoleLeader ==
  \A i, j \in Instances :
    i # j /\ running[i] /\ running[j] =>
      \/ lease[i] # "live" \/ lease[j] # "live"
      \/ Cancelled(i) \/ Cancelled(j)

\* Seen from etcd all this is a lock with a queue: instances lead in the order of their
\* keys, none before the older keys are gone, and only one that was told to end, or whose
\* lease is gone, gives up its place, perhaps while its optimizer is finishing.  A session
\* that is lost and found gone, a retry, a late transaction, a shutdown at any point or a
\* crash add nothing to it.
Lock == INSTANCE LeaseLock WITH
  ticket    <- [i \in Instances |-> IF present[i] THEN crev[i] ELSE 0],
  last      <- rev,
  leaders   <- {i \in Instances : Active(i) /\ Leased(i)},
  finishing <- {i \in Instances : running[i] /\ ~Active(i) /\ Leased(i)},
  ending    <- {i \in Instances : Cancelled(i)}

LockSpec == Lock!Spec

\* Losing the session over and over creates no keys: an instance puts one, and at
\* most one more when its last transaction crosses the Resign of main.
KeysBounded == rev <= 2 * Cardinality(Instances)

Healthy(i) == lpc[i] # "down" /\ ~Cancelled(i) /\ lease[i] = "live" /\ ~done[i]

\* While an instance keeps its session, the service does not stay without a leader:
\* whatever the others were doing when they stopped, crashed or lost theirs.
SurvivorLeads ==
  \A i \in Instances : Healthy(i) ~> (~Healthy(i) \/ \E j \in Instances : Active(j))

\* No optimizer runs for ever without the lease of its instance: the loss of the session
\* reaches it, and it returns.
StaleLeaderStops ==
  \A i \in Instances : (running[i] /\ lease[i] # "live") ~> ~running[i]

----------------------------------------------------------------------------
(* What the log messages say and the code does not do.                     *)

\* "campaign error, retrying" (leader.go:28): an instance that keeps running and
\* trying does not campaign in vain for ever.
RetrySucceeds ==
  \A i \in Instances : lpc[i] = "campaign" ~> (lpc[i] # "campaign" \/ Cancelled(i))
=============================================================================
