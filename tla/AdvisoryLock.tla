----------------------------- MODULE AdvisoryLock -----------------------------
(***************************************************************************)
(* The advisory locks of the cron jobs: three payment syncs every minute   *)
(* and the licence sweep every hour, in every instance of the Hub.         *)
(*                                                                         *)
(* pg_try_advisory_lock and pg_advisory_unlock act on the session of the   *)
(* connection they run on.  A job sends both through the pool, so each     *)
(* goes to any connection of its instance: the unlock may reach a session  *)
(* that does not hold the lock, which does nothing and leaves the lock     *)
(* held until the pool closes the other connection.  A session may take a  *)
(* lock it holds once more; it then has to release it as often.            *)
(*                                                                         *)
(* A run is one firing of a cron job.  Firings do not wait for each other, *)
(* so runs of the same job can overlap in one instance.                    *)
(***************************************************************************)
EXTENDS Integers, FiniteSets

CONSTANTS
  Instances,    \* processes of the Hub
  Conns,        \* the slots of their connection pools
  Runs,         \* runs of jobs that can be under way at once
  HomeOf,       \* the instance of each run and of each connection
  Locks,        \* lock ids
  LockOf,       \* the lock of each run's job; two jobs share one by default
  MaxDepth      \* bound: how often a session takes a lock it holds

ASSUME AdvisoryLockAssumption ==
  /\ HomeOf \in [Runs \cup Conns -> Instances]
  /\ LockOf \in [Runs -> Locks]
  /\ IsFiniteSet(Runs)
  /\ MaxDepth \in Nat

VARIABLES
  depth,   \* depth[l][k]: how often the session of connection k holds lock l
  run      \* run[r]: "idle", at "work", or past it and to "unlock"

vars == <<depth, run>>

TypeOK ==
  /\ depth \in [Locks -> [Conns -> Nat]]
  /\ run \in [Runs -> {"idle", "work", "unlock"}]

Init ==
  /\ depth = [l \in Locks |-> [k \in Conns |-> 0]]
  /\ run = [r \in Runs |-> "idle"]

\* The connections through which run r can send a query.
PoolOf(r) == {k \in Conns : HomeOf[k] = HomeOf[r]}

-----------------------------------------------------------------------------

\* A bug for the run to catch: PostgreSQL is asked for a shared lock.
NeverTaken(l, k) == FALSE

\* Another session holds l, so that a session cannot take it.
Taken(l, k) == \E m \in Conns \ {k} : depth[l][m] > 0

\* pg_try_advisory_lock through connection k.  A run that does not get the
\* lock is over: nothing changes.
TryLock(r, k) ==
  /\ run[r] = "idle" /\ k \in PoolOf(r)
  /\ ~ Taken(LockOf[r], k)
  /\ depth[LockOf[r]][k] < MaxDepth
  /\ depth' = [depth EXCEPT ![LockOf[r]][k] = @ + 1]
  /\ run' = [run EXCEPT ![r] = "work"]

\* The batch is done or has thrown: finally.
Finish(r) ==
  /\ run[r] = "work"
  /\ run' = [run EXCEPT ![r] = "unlock"]
  /\ UNCHANGED depth

\* A bug for the run to catch: every lock of the session is released.
ReleasedAll(l, k) == [depth EXCEPT ![l][k] = 0]

\* pg_advisory_unlock: a session that does not hold the lock is only warned.
Released(l, k) == [depth EXCEPT ![l][k] = IF @ = 0 THEN 0 ELSE @ - 1]

\* The unlock, through any connection.  One that does not reach the database
\* changes as little as one that reaches the wrong session.
Unlock(r) ==
  /\ run[r] = "unlock"
  /\ \/ \E k \in PoolOf(r) : depth' = Released(LockOf[r], k)
     \/ UNCHANGED depth
  /\ run' = [run EXCEPT ![r] = "idle"]

\* The pool closes connection k, idle for 30 seconds or at the end of its
\* lifetime: the locks of its session are gone, even while a run relies on them.
Close(k) ==
  /\ depth' = [l \in Locks |-> [depth[l] EXCEPT ![k] = 0]]
  /\ UNCHANGED run

\* The instance stops, its runs and its sessions with it.
Crash(i) ==
  /\ depth' = [l \in Locks |-> [k \in Conns |-> IF HomeOf[k] = i THEN 0 ELSE depth[l][k]]]
  /\ run' = [r \in Runs |-> IF HomeOf[r] = i THEN "idle" ELSE run[r]]

Next ==
  \/ \E r \in Runs : (\E k \in Conns : TryLock(r, k)) \/ Finish(r) \/ Unlock(r)
  \/ \E k \in Conns : Close(k)
  \/ \E i \in Instances : Crash(i)

Spec == Init /\ [][Next]_vars

\* A bug for the run to catch: connections are kept for good.
ConnectionsLast == \A r \in Runs : WF_vars(Finish(r)) /\ WF_vars(Unlock(r))

\* The event loop ends a batch, and no connection lasts for ever.
Fairness ==
  /\ \A r \in Runs : WF_vars(Finish(r)) /\ WF_vars(Unlock(r))
  /\ \A k \in Conns : WF_vars(Close(k))

FairSpec == Spec /\ Fairness

-----------------------------------------------------------------------------
(* What the locks promise.                                                 *)

\* The runs of instance i that rely on lock l.
RunsOf(i, l) == {r \in Runs : HomeOf[r] = i /\ LockOf[r] = l /\ run[r] # "idle"}

\* Instance i holds l often enough for all its runs.
Backed(i, l) ==
  RunsOf(i, l) # {} =>
    \E k \in Conns : HomeOf[k] = i /\ depth[l][k] >= Cardinality(RunsOf(i, l))

\* The locks that some instance relies on without holding them.
Unbacked == {l \in Locks : \E i \in Instances : ~ Backed(i, l)}

AtWork == [l \in Locks |-> {i \in Instances :
             \E r \in Runs : HomeOf[r] = i /\ LockOf[r] = l /\ run[r] = "work"}]

JL == INSTANCE JobLock WITH workers <- AtWork, lost <- Unbacked

\* The jobs of two instances never work under the same lock at once, unless a
\* connection was closed under a run: a lock taken through one connection and
\* released through another errs on the safe side.
OnlyOneWorks == JL!Exclusive

\* Step by step: an instance comes to work only while no other one is at work,
\* and only a closed connection takes the lock from under a run.
ImplementsJobLock == JL!Spec

\* A run loses the lock it relies on only by a connection that closes: never by
\* the end of another run, however many share the session.
OnlyClosingLoses ==
  [][\A l \in Locks : l \in Unbacked' /\ l \notin Unbacked =>
       \E k \in Conns : depth[l][k] > 0 /\ Close(k)]_vars

\* A lock that nobody relies on, left held by an unlock that went elsewhere, does
\* not shut the jobs out for good.
LeakIsFreed ==
  \A l \in Locks, k \in Conns : depth[l][k] > 0 ~> depth[l][k] = 0
================================================================================
