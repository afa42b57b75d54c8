-------------------------------- MODULE JobLock --------------------------------
(***************************************************************************)
(* What the advisory locks of the cron jobs are for: of all the instances  *)
(* of the Hub, at most one works under a lock.  Only when the lock is lost *)
(* from under an instance at work may another one come to work beside it.  *)
(***************************************************************************)
CONSTANTS
  Instances,   \* processes of the Hub
  Locks        \* lock ids

VARIABLES
  workers,     \* workers[l]: the instances at work under lock l
  lost         \* the locks an instance at work no longer holds

Init ==
  /\ workers = [l \in Locks |-> {}]
  /\ lost = {}

\* Two instances work under one lock only if it has been lost.
Exclusive == \A l \in Locks \ lost : \A i, j \in workers[l] : i = j

\* Locks are held again, but never while two instances rely on them.
Regained == lost' \subseteq lost /\ Exclusive'

\* An instance that works already may begin another run beside its own.
Enter(i, l) ==
  /\ workers[l] \subseteq {i} \/ l \in lost
  /\ workers' = [workers EXCEPT ![l] = @ \cup {i}]
  /\ Regained

Leave(i, l) ==
  /\ i \in workers[l]
  /\ workers' = [workers EXCEPT ![l] = @ \ {i}]
  /\ lost' = lost

\* The session that held the locks ls is closed.
Lose(ls) ==
  /\ lost' = lost \cup ls
  /\ workers' = workers

\* The instance is gone, and with it its sessions.
Crash(i) ==
  /\ workers' = [l \in Locks |-> workers[l] \ {i}]
  /\ Regained

\* What was lost is made good once the run it was lost by is over.
Recover ==
  /\ Regained
  /\ workers' = workers

Next ==
  \/ \E i \in Instances, l \in Locks : Enter(i, l) \/ Leave(i, l)
  \/ \E ls \in SUBSET Locks : Lose(ls)
  \/ \E i \in Instances : Crash(i)
  \/ Recover

Spec == Init /\ [][Next]_<<workers, lost>>
================================================================================
