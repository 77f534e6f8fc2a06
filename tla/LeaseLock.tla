----------------------------- MODULE LeaseLock ------------------------------
(***************************************************************************)
(* What the election promises, with no processes, sessions, retries or     *)
(* transactions: a lock whose queue is open to all.  Who holds a number    *)
(* leads only after all that have a lower one left the queue.  Who leads   *)
(* no more may be finishing its work; it keeps its place unless it was     *)
(* told to end for good, or its lease is gone.                             *)
(***************************************************************************)
EXTENDS Naturals

CONSTANTS Instances

VARIABLES
  ticket,     \* the number each instance has in the queue, 0 if it is not in it
  last,       \* the last number that was given away
  leaders,    \* the instances that lead
  finishing,  \* the instances at work although they do not lead, or not any more
  ending      \* the instances told to end

lockVars == <<ticket, last, leaders, finishing, ending>>

InQueue(i) == ticket[i] # 0

Init ==
  /\ ticket = [i \in Instances |-> 0]
  /\ last = 0
  /\ leaders = {}
  /\ finishing = {}
  /\ ending = {}

\* At the end of the queue, again after having left it.
Join(i) ==
  /\ ~InQueue(i)
  /\ last' = last + 1
  /\ ticket' = [ticket EXCEPT ![i] = last']
  /\ UNCHANGED <<leaders, finishing, ending>>

Lead(i) ==
  /\ InQueue(i)
  /\ \A j \in Instances : InQueue(j) => ticket[i] <= ticket[j]
  /\ i \notin ending
  /\ leaders' = leaders \cup {i}
  /\ finishing' = finishing \ {i}
  /\ UNCHANGED <<ticket, last, ending>>

\* The place in the queue is kept.
Pause(i) ==
  /\ i \in leaders
  /\ leaders' = leaders \ {i}
  /\ finishing' = finishing \cup {i}
  /\ UNCHANGED <<ticket, last, ending>>

Finish(i) ==
  /\ finishing' = finishing \ {i}
  /\ UNCHANGED <<ticket, last, leaders, ending>>

\* Told to end: a leader leads no more, and finishes.
End(i) ==
  /\ ending' = ending \cup {i}
  /\ leaders' = leaders \ {i}
  /\ finishing' = finishing \cup ({i} \cap leaders)
  /\ UNCHANGED <<ticket, last>>

\* It was elected and told to end at once: it begins, and finishes.
BeginLate(i) ==
  /\ i \in ending
  /\ finishing' = finishing \cup {i}
  /\ UNCHANGED <<ticket, last, leaders, ending>>

\* Only who was told to end gives up its place, finished or not.
Leave(i) ==
  /\ i \in ending
  /\ ticket' = [ticket EXCEPT ![i] = 0]
  /\ UNCHANGED <<last, leaders, finishing, ending>>

\* The lease is gone, and with it the place.
Evict(i) ==
  /\ ticket' = [ticket EXCEPT ![i] = 0]
  /\ leaders' = leaders \ {i}
  /\ finishing' = finishing \ {i}
  /\ UNCHANGED <<last, ending>>

\* The place stays until the lease is gone.
Crash(i) ==
  /\ ending' = ending \cup {i}
  /\ leaders' = leaders \ {i}
  /\ finishing' = finishing \ {i}
  /\ UNCHANGED <<ticket, last>>

Next ==
  \E i \in Instances :
    \/ Join(i) \/ Lead(i) \/ Pause(i) \/ Finish(i) \/ End(i)
    \/ BeginLate(i) \/ Leave(i) \/ Evict(i) \/ Crash(i)

Spec == Init /\ [][Next]_lockVars
=============================================================================
