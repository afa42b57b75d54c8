----------------------------- MODULE RuntimeProofs -----------------------------
(***************************************************************************)
(* Proofs about what runs beside the requests of the Hub and survives its  *)
(* processes: the advisory locks of the cron jobs, the webhook inbox and   *)
(* the event outbox, for any processes, workers, jobs, locks and events.   *)
(*                                                                         *)
(* The three have no state in common, and no theorem is about two of them. *)
(***************************************************************************)
EXTENDS AdvisoryLock, WebhookInbox, EventOutbox, FiniteSetTheorems, TLAPS

-----------------------------------------------------------------------------
(* The advisory locks: the sessions and runs implement JobLock, and only a *)
(* connection that closes takes a lock from under a run.                   *)

\* No two sessions hold the same lock.
OneHolds ==
  \A l \in Locks : \A k, m \in Conns : depth[l][k] > 0 /\ depth[l][m] > 0 => k = m

IInv == TypeOK /\ OneHolds

-----------------------------------------------------------------------------
(* Counting the runs that rely on a lock.                                  *)

LEMMA RunsFinite ==
  ASSUME NEW i \in Instances, NEW l \in Locks
  PROVE  IsFiniteSet(RunsOf(i, l)) /\ Cardinality(RunsOf(i, l)) \in Nat
  <1>1. RunsOf(i, l) \subseteq Runs
    BY DEF RunsOf
  <1>2. IsFiniteSet(RunsOf(i, l))
    BY <1>1, FS_Subset, AdvisoryLockAssumption
  <1> QED
    BY <1>2, FS_CardinalityType

\* A backed lock with runs that rely on it is held by the instance.
LEMMA HeldWhenBacked ==
  ASSUME TypeOK, NEW i \in Instances, NEW l \in Locks, Backed(i, l), RunsOf(i, l) # {}
  PROVE  \E k \in Conns : HomeOf[k] = i /\ depth[l][k] > 0
  <1>1. Cardinality(RunsOf(i, l)) \in Nat \ {0}
    BY RunsFinite, FS_EmptySet
  <1>2. PICK k \in Conns : HomeOf[k] = i /\ depth[l][k] >= Cardinality(RunsOf(i, l))
    BY DEF Backed
  <1>3. depth[l][k] \in Nat
    BY DEF TypeOK
  <1> QED
    BY <1>1, <1>2, <1>3

\* Where nothing is lost, one instance is at work at most.
LEMMA ExclusiveFromInv ==
  ASSUME IInv
  PROVE  JL!Exclusive
  <1> SUFFICES ASSUME NEW l \in Locks \ Unbacked, NEW i \in AtWork[l], NEW j \in AtWork[l]
               PROVE  i = j
    BY DEF JL!Exclusive
  <1>1. /\ i \in Instances /\ Backed(i, l) /\ RunsOf(i, l) # {}
        /\ j \in Instances /\ Backed(j, l) /\ RunsOf(j, l) # {}
    BY DEF AtWork, Unbacked, RunsOf
  <1>2. PICK k \in Conns : HomeOf[k] = i /\ depth[l][k] > 0
    BY <1>1, HeldWhenBacked DEF IInv
  <1>3. PICK m \in Conns : HomeOf[m] = j /\ depth[l][m] > 0
    BY <1>1, HeldWhenBacked DEF IInv
  <1> QED
    BY <1>2, <1>3 DEF IInv, OneHolds

-----------------------------------------------------------------------------
(* The invariant.                                                          *)

LEMMA InitInv == Init => IInv
  BY DEF Init, IInv, TypeOK, OneHolds

LEMMA TryLockInv ==
  ASSUME IInv, NEW r \in Runs, NEW k \in Conns, TryLock(r, k)
  PROVE  IInv'
  <1> DEFINE l == LockOf[r]
  <1>1. l \in Locks
    BY AdvisoryLockAssumption
  <1>2. \A n \in Locks, m \in Conns :
           depth'[n][m] = IF n = l /\ m = k THEN depth[n][m] + 1 ELSE depth[n][m]
    BY <1>1 DEF TryLock, IInv, TypeOK
  <1>3. TypeOK'
    BY <1>1 DEF TryLock, IInv, TypeOK
  <1>4. OneHolds'
    <2> SUFFICES ASSUME NEW n \in Locks, NEW a \in Conns, NEW b \in Conns,
                        depth'[n][a] > 0, depth'[n][b] > 0
                 PROVE  a = b
      BY DEF OneHolds
    <2>1. CASE n # l
      BY <1>2, <2>1 DEF IInv, OneHolds
    <2>2. CASE n = l
      <3>1. \A m \in Conns \ {k} : ~ depth[l][m] > 0
        BY DEF TryLock, Taken
      <3>2. a = k /\ b = k
        BY <1>2, <2>2, <3>1
      <3> QED
        BY <3>2
    <2> QED
      BY <2>1, <2>2
  <1> QED
    BY <1>3, <1>4 DEF IInv

\* What a step that takes no lock leaves of the sessions.
Lower == \A l \in Locks, k \in Conns : depth'[l][k] <= depth[l][k]

LEMMA LowerInv ==
  ASSUME IInv, TypeOK', Lower
  PROVE  IInv'
  <1> SUFFICES ASSUME NEW n \in Locks, NEW a \in Conns, NEW b \in Conns,
                      depth'[n][a] > 0, depth'[n][b] > 0
               PROVE  a = b
    BY DEF IInv, OneHolds
  <1>1. /\ depth[n][a] \in Nat /\ depth[n][b] \in Nat
        /\ depth'[n][a] \in Nat /\ depth'[n][b] \in Nat
    BY DEF IInv, TypeOK
  <1>2. depth[n][a] > 0 /\ depth[n][b] > 0
    BY <1>1 DEF Lower
  <1> QED
    BY <1>2 DEF IInv, OneHolds

LEMMA FinishInv ==
  ASSUME IInv, NEW r \in Runs, Finish(r)
  PROVE  TypeOK' /\ Lower
  BY DEF Finish, IInv, TypeOK, Lower

LEMMA UnlockInv ==
  ASSUME IInv, NEW r \in Runs, Unlock(r)
  PROVE  TypeOK' /\ Lower
  <1>1. LockOf[r] \in Locks
    BY AdvisoryLockAssumption
  <1>2. CASE UNCHANGED depth
    BY <1>2 DEF Unlock, IInv, TypeOK, Lower
  <1>3. CASE \E k \in PoolOf(r) : depth' = Released(LockOf[r], k)
    <2>1. PICK k \in PoolOf(r) : depth' = Released(LockOf[r], k)
      BY <1>3
    <2>2. k \in Conns
      BY DEF PoolOf
    <2>3. depth' = [depth EXCEPT ![LockOf[r]][k] = IF @ = 0 THEN 0 ELSE @ - 1]
      BY <2>1 DEF Released
    <2>4. depth[LockOf[r]][k] \in Nat
      BY <1>1, <2>2 DEF IInv, TypeOK
    <2>5. TypeOK'
      BY <1>1, <2>2, <2>3, <2>4 DEF Unlock, IInv, TypeOK
    <2>6. Lower
      BY <1>1, <2>2, <2>3, <2>4 DEF IInv, TypeOK, Lower
    <2> QED
      BY <2>5, <2>6
  <1> QED
    BY <1>2, <1>3 DEF Unlock

LEMMA CloseInv ==
  ASSUME IInv, NEW k \in Conns, Close(k)
  PROVE  TypeOK' /\ Lower
  <1>1. \A l \in Locks, m \in Conns : depth'[l][m] = IF m = k THEN 0 ELSE depth[l][m]
    BY DEF Close, IInv, TypeOK
  <1> QED
    BY <1>1 DEF Close, IInv, TypeOK, Lower

LEMMA CrashInv ==
  ASSUME IInv, NEW i \in Instances, Crash(i)
  PROVE  TypeOK' /\ Lower
  BY DEF Crash, IInv, TypeOK, Lower

LEMMA NextInv == IInv /\ [Next]_vars => IInv'
  <1> SUFFICES ASSUME IInv, [Next]_vars
               PROVE  IInv'
    OBVIOUS
  <1>1. ASSUME NEW r \in Runs, NEW k \in Conns, TryLock(r, k)  PROVE IInv'
    BY <1>1, TryLockInv
  <1>2. ASSUME NEW r \in Runs, Finish(r)  PROVE IInv'
    BY <1>2, FinishInv, LowerInv
  <1>3. ASSUME NEW r \in Runs, Unlock(r)  PROVE IInv'
    BY <1>3, UnlockInv, LowerInv
  <1>4. ASSUME NEW k \in Conns, Close(k)  PROVE IInv'
    BY <1>4, CloseInv, LowerInv
  <1>5. ASSUME NEW i \in Instances, Crash(i)  PROVE IInv'
    BY <1>5, CrashInv, LowerInv
  <1>6. CASE UNCHANGED vars
    BY <1>6 DEF vars, IInv, TypeOK, OneHolds
  <1> QED
    BY <1>1, <1>2, <1>3, <1>4, <1>5, <1>6 DEF Next

LEMMA Invariant == Spec => []IInv
  BY InitInv, NextInv, PTL DEF Spec

\* Depths are numbers and runs are in one of their three states.
THEOREM Typed == Spec => []TypeOK
  BY Invariant, PTL DEF IInv

\* No two instances work under a lock that no run has lost.
THEOREM OneInstanceWorks == Spec => []OnlyOneWorks
  BY Invariant, ExclusiveFromInv, PTL DEF OnlyOneWorks

-----------------------------------------------------------------------------
(* The steps, seen as steps of JobLock.                                    *)

\* The runs of an instance are backed after a step if they were before.
Keeps(i, l) == Backed(i, l) => Backed(i, l)'

\* A lock that is taken backs one run more.
LEMMA TryLockKeeps ==
  ASSUME IInv, NEW r \in Runs, NEW k \in Conns, TryLock(r, k),
         NEW i \in Instances, NEW l \in Locks
  PROVE  Keeps(i, l)
  <1>1. LockOf[r] \in Locks
    BY AdvisoryLockAssumption
  <1>2. \A n \in Locks, m \in Conns :
           depth'[n][m] = IF n = LockOf[r] /\ m = k THEN depth[n][m] + 1 ELSE depth[n][m]
    BY <1>1 DEF TryLock, IInv, TypeOK
  <1>3. /\ \A n \in Locks, m \in Conns : depth[n][m] \in Nat
        /\ run' = [run EXCEPT ![r] = "work"] /\ run[r] = "idle" /\ run \in [Runs -> {"idle", "work", "unlock"}]
        /\ HomeOf[k] = HomeOf[r]
    BY DEF TryLock, PoolOf, IInv, TypeOK
  <1>4. CASE i = HomeOf[r] /\ l = LockOf[r]
    <2>1. RunsOf(i, l)' = RunsOf(i, l) \cup {r} /\ r \notin RunsOf(i, l)
      BY <1>3, <1>4 DEF RunsOf
    <2>2. /\ Cardinality(RunsOf(i, l)) \in Nat
          /\ Cardinality(RunsOf(i, l)') = Cardinality(RunsOf(i, l)) + 1
      BY <2>1, RunsFinite, FS_AddElement
    <2>3. \A m \in Conns \ {k} : ~ depth[l][m] > 0
      BY <1>4 DEF TryLock, Taken
    <2>4. ASSUME Backed(i, l)
          PROVE  depth[l][k] >= Cardinality(RunsOf(i, l))
      <3>1. CASE RunsOf(i, l) = {}
        BY <1>3, <3>1, FS_EmptySet
      <3>2. CASE RunsOf(i, l) # {}
        <4>1. PICK m \in Conns : depth[l][m] >= Cardinality(RunsOf(i, l))
          BY <2>4, <3>2 DEF Backed
        <4>2. Cardinality(RunsOf(i, l)) # 0
          BY <3>2, RunsFinite, FS_EmptySet
        <4> QED
          BY <1>3, <2>2, <2>3, <4>1, <4>2
      <3> QED
        BY <3>1, <3>2
    <2>5. ASSUME Backed(i, l)
          PROVE  HomeOf[k] = i /\ depth'[l][k] >= Cardinality(RunsOf(i, l)')
      BY <1>2, <1>3, <1>4, <2>2, <2>4, <2>5
    <2> QED
      BY <2>5 DEF Keeps, Backed
  <1>5. CASE ~ (i = HomeOf[r] /\ l = LockOf[r])
    <2>1. RunsOf(i, l)' = RunsOf(i, l)
      BY <1>3, <1>5 DEF RunsOf
    <2>2. Cardinality(RunsOf(i, l)) \in Nat
      BY RunsFinite
    <2>3. \A m \in Conns : depth'[l][m] >= depth[l][m]
      BY <1>2, <1>3
    <2>4. \A m \in Conns : depth'[l][m] \in Nat
      BY <1>2, <1>3
    <2>5. ASSUME Backed(i, l), RunsOf(i, l) # {}
          PROVE  \E m \in Conns : HomeOf[m] = i /\ depth'[l][m] >= Cardinality(RunsOf(i, l))
      <3>1. PICK m \in Conns : HomeOf[m] = i /\ depth[l][m] >= Cardinality(RunsOf(i, l))
        BY <2>5 DEF Backed
      <3> QED
        BY <1>3, <2>2, <2>3, <2>4, <3>1
    <2> QED
      BY <2>1, <2>5 DEF Keeps, Backed
  <1> QED
    BY <1>4, <1>5

\* A lock that is released once was held for one run more.
LEMMA UnlockKeeps ==
  ASSUME IInv, NEW r \in Runs, Unlock(r), NEW i \in Instances, NEW l \in Locks
  PROVE  Keeps(i, l)
  <1>1. LockOf[r] \in Locks
    BY AdvisoryLockAssumption
  <1>2. /\ \A n \in Locks, m \in Conns : depth[n][m] \in Nat
        /\ run' = [run EXCEPT ![r] = "idle"] /\ run[r] = "unlock"
        /\ run \in [Runs -> {"idle", "work", "unlock"}]
    BY DEF Unlock, IInv, TypeOK
  <1>3. \A n \in Locks, m \in Conns :
           /\ depth'[n][m] \in Nat
           /\ depth'[n][m] >= depth[n][m] - 1
           /\ n # LockOf[r] \/ HomeOf[m] # HomeOf[r] => depth'[n][m] = depth[n][m]
    <2>1. CASE UNCHANGED depth
      BY <1>2, <2>1
    <2>2. CASE \E k \in PoolOf(r) : depth' = Released(LockOf[r], k)
      <3>1. PICK k \in PoolOf(r) : depth' = Released(LockOf[r], k)
        BY <2>2
      <3>2. k \in Conns /\ HomeOf[k] = HomeOf[r]
        BY DEF PoolOf
      <3>3. depth' = [depth EXCEPT ![LockOf[r]][k] = IF @ = 0 THEN 0 ELSE @ - 1]
        BY <3>1 DEF Released
      <3>4. \A n \in Locks, m \in Conns :
               depth'[n][m] = IF n = LockOf[r] /\ m = k
                              THEN IF depth[n][m] = 0 THEN 0 ELSE depth[n][m] - 1
                              ELSE depth[n][m]
        BY <1>1, <3>2, <3>3 DEF IInv, TypeOK
      <3> QED
        <4> TAKE n \in Locks, m \in Conns
        <4>1. CASE n = LockOf[r] /\ m = k
          BY <1>2, <3>2, <3>4, <4>1
        <4>2. CASE ~ (n = LockOf[r] /\ m = k)
          BY <1>2, <3>2, <3>4, <4>2
        <4> QED
          BY <4>1, <4>2
    <2> QED
      BY <2>1, <2>2 DEF Unlock
  <1>4. CASE i = HomeOf[r] /\ l = LockOf[r]
    <2>1. RunsOf(i, l)' = RunsOf(i, l) \ {r} /\ r \in RunsOf(i, l)
      BY <1>2, <1>4 DEF RunsOf
    <2>2. /\ Cardinality(RunsOf(i, l)) \in Nat
          /\ Cardinality(RunsOf(i, l)') = Cardinality(RunsOf(i, l)) - 1
      BY <2>1, RunsFinite, FS_RemoveElement
    <2>3. ASSUME Backed(i, l)
          PROVE  \E m \in Conns : HomeOf[m] = i /\ depth'[l][m] >= Cardinality(RunsOf(i, l)')
      <3>1. PICK m \in Conns : HomeOf[m] = i /\ depth[l][m] >= Cardinality(RunsOf(i, l))
        BY <2>1, <2>3 DEF Backed
      <3> QED
        BY <1>2, <1>3, <2>2, <3>1
    <2> QED
      BY <2>3 DEF Keeps, Backed
  <1>5. CASE ~ (i = HomeOf[r] /\ l = LockOf[r])
    <2>1. RunsOf(i, l)' = RunsOf(i, l)
      BY <1>2, <1>5 DEF RunsOf
    <2>2. ASSUME Backed(i, l), RunsOf(i, l) # {}
          PROVE  \E m \in Conns : HomeOf[m] = i /\ depth'[l][m] >= Cardinality(RunsOf(i, l))
      <3>1. PICK m \in Conns : HomeOf[m] = i /\ depth[l][m] >= Cardinality(RunsOf(i, l))
        BY <2>2 DEF Backed
      <3>2. depth'[l][m] = depth[l][m]
        BY <1>3, <1>5, <3>1
      <3> QED
        BY <3>1, <3>2
    <2> QED
      BY <2>1, <2>2 DEF Keeps, Backed
  <1> QED
    BY <1>4, <1>5

LEMMA CrashKeeps ==
  ASSUME IInv, NEW i \in Instances, Crash(i), NEW j \in Instances, NEW l \in Locks
  PROVE  Keeps(j, l)
  <1>1. CASE j = i
    <2>1. RunsOf(j, l)' = {}
      BY <1>1 DEF Crash, RunsOf
    <2> QED
      BY <2>1 DEF Keeps, Backed
  <1>2. CASE j # i
    <2>1. RunsOf(j, l)' = RunsOf(j, l)
      BY <1>2 DEF Crash, RunsOf, IInv, TypeOK
    <2>2. \A m \in Conns : HomeOf[m] = j => depth'[l][m] = depth[l][m]
      BY <1>2 DEF Crash, IInv, TypeOK
    <2> QED
      BY <2>1, <2>2 DEF Keeps, Backed
  <1> QED
    BY <1>1, <1>2

\* What is backed stays so, and so what is lost can only become less.
LEMMA KeepsRegains ==
  ASSUME IInv', \A i \in Instances, l \in Locks : Keeps(i, l)
  PROVE  JL!Regained
  <1>1. Unbacked' \subseteq Unbacked
    BY DEF Keeps, Unbacked
  <1>2. JL!Exclusive'
    BY ExclusiveFromInv, PTL
  <1> QED
    BY <1>1, <1>2 DEF JL!Regained

\* Who is at work after a run has begun or ended.
LEMMA WorkOf ==
  ASSUME NEW l \in Locks
  PROVE  /\ AtWork[l] \subseteq Instances /\ AtWork'[l] \subseteq Instances
         /\ \A i \in Instances :
              /\ i \in AtWork[l] <=>
                   \E q \in Runs : HomeOf[q] = i /\ LockOf[q] = l /\ run[q] = "work"
              /\ i \in AtWork'[l] <=>
                   \E q \in Runs : HomeOf[q] = i /\ LockOf[q] = l /\ run'[q] = "work"
  BY DEF AtWork

\* Two records of who is at work are the same if they say the same of each lock.
LEMMA SameWork ==
  ASSUME \A l \in Locks, j \in Instances : j \in AtWork'[l] <=> j \in AtWork[l]
  PROVE  AtWork' = AtWork
  <1>1. ASSUME NEW l \in Locks
        PROVE  AtWork'[l] = AtWork[l]
    <2>1. AtWork[l] \subseteq Instances /\ AtWork'[l] \subseteq Instances
      BY WorkOf
    <2> QED
      BY <2>1
  <1> QED
    BY <1>1 DEF AtWork

LEMMA TryLockEnters ==
  ASSUME IInv, IInv', NEW r \in Runs, NEW k \in Conns, TryLock(r, k)
  PROVE  JL!Enter(HomeOf[r], LockOf[r])
  <1> DEFINE i == HomeOf[r]
             l == LockOf[r]
  <1>1. i \in Instances /\ l \in Locks
    BY AdvisoryLockAssumption
  <1>2. JL!Regained
    BY TryLockKeeps, KeepsRegains
  <1>3. run' = [run EXCEPT ![r] = "work"] /\ run \in [Runs -> {"idle", "work", "unlock"}]
    BY DEF TryLock, IInv, TypeOK
  <1>4. ASSUME NEW n \in Locks
        PROVE  AtWork'[n] = IF n = l THEN AtWork[n] \cup {i} ELSE AtWork[n]
    <2>1. \A j \in Instances : j \in AtWork'[n] <=> j \in AtWork[n] \/ (n = l /\ j = i)
      BY <1>1, <1>3, WorkOf DEF TryLock
    <2>2. AtWork[n] \subseteq Instances /\ AtWork'[n] \subseteq Instances
      BY WorkOf
    <2> QED
      BY <1>1, <2>1, <2>2
  <1>5. AtWork' = [AtWork EXCEPT ![l] = @ \cup {i}]
    BY <1>4 DEF AtWork
  <1>6. ASSUME l \notin Unbacked, NEW j \in AtWork[l]
        PROVE  j = i
    <2>1. j \in Instances /\ Backed(j, l) /\ RunsOf(j, l) # {}
      BY <1>1, <1>6, WorkOf DEF Unbacked, RunsOf
    <2>2. PICK m \in Conns : HomeOf[m] = j /\ depth[l][m] > 0
      BY <1>1, <2>1, HeldWhenBacked DEF IInv
    <2>3. m = k
      BY <1>1, <2>2 DEF TryLock, Taken
    <2> QED
      BY <2>2, <2>3 DEF TryLock, PoolOf
  <1>7. AtWork[l] \subseteq {i} \/ l \in Unbacked
    BY <1>6
  <1> QED
    BY <1>2, <1>5, <1>7 DEF JL!Enter

LEMMA FinishLeaves ==
  ASSUME IInv, NEW r \in Runs, Finish(r)
  PROVE  JL!Leave(HomeOf[r], LockOf[r]) \/ UNCHANGED <<AtWork, Unbacked>>
  <1> DEFINE i == HomeOf[r]
             l == LockOf[r]
  <1>1. i \in Instances /\ l \in Locks
    BY AdvisoryLockAssumption
  <1>2. /\ run' = [run EXCEPT ![r] = "unlock"] /\ run[r] = "work" /\ depth' = depth
        /\ run \in [Runs -> {"idle", "work", "unlock"}]
    BY DEF Finish, IInv, TypeOK
  <1>3. \A j \in Instances, n \in Locks : RunsOf(j, n)' = RunsOf(j, n)
    BY <1>2 DEF RunsOf
  <1>4. Unbacked' = Unbacked
    BY <1>2, <1>3 DEF Unbacked, Backed
  <1>5. i \in AtWork[l]
    BY <1>1, <1>2, WorkOf
  <1>6. CASE \E q \in Runs \ {r} : HomeOf[q] = i /\ LockOf[q] = l /\ run[q] = "work"
    <2>1. ASSUME NEW n \in Locks, NEW j \in Instances
          PROVE  j \in AtWork'[n] <=> j \in AtWork[n]
      BY <1>1, <1>2, <1>6, WorkOf
    <2> QED
      BY <1>4, <2>1, SameWork
  <1>7. CASE ~ \E q \in Runs \ {r} : HomeOf[q] = i /\ LockOf[q] = l /\ run[q] = "work"
    <2>1. ASSUME NEW n \in Locks
          PROVE  AtWork'[n] = IF n = l THEN AtWork[n] \ {i} ELSE AtWork[n]
      <3>1. \A j \in Instances : j \in AtWork'[n] <=> j \in AtWork[n] /\ ~ (n = l /\ j = i)
        BY <1>1, <1>2, <1>7, WorkOf
      <3>2. AtWork[n] \subseteq Instances /\ AtWork'[n] \subseteq Instances
        BY WorkOf
      <3> QED
        BY <1>1, <3>1, <3>2
    <2>2. AtWork' = [AtWork EXCEPT ![l] = @ \ {i}]
      BY <2>1 DEF AtWork
    <2> QED
      BY <1>4, <1>5, <2>2 DEF JL!Leave
  <1> QED
    BY <1>6, <1>7

LEMMA UnlockRecovers ==
  ASSUME IInv, IInv', NEW r \in Runs, Unlock(r)
  PROVE  JL!Recover
  <1>1. JL!Regained
    BY UnlockKeeps, KeepsRegains
  <1>2. /\ run' = [run EXCEPT ![r] = "idle"] /\ run[r] = "unlock"
        /\ run \in [Runs -> {"idle", "work", "unlock"}]
    BY DEF Unlock, IInv, TypeOK
  <1>3. \A q \in Runs : run'[q] = "work" <=> run[q] = "work"
    BY <1>2
  <1>4. ASSUME NEW n \in Locks, NEW j \in Instances
        PROVE  j \in AtWork'[n] <=> j \in AtWork[n]
    BY <1>3, WorkOf
  <1> QED
    BY <1>1, <1>4, SameWork DEF JL!Recover

LEMMA CloseLoses ==
  ASSUME IInv, NEW k \in Conns, Close(k)
  PROVE  /\ \E ls \in SUBSET Locks : JL!Lose(ls)
         /\ \A l \in Unbacked' \ Unbacked : depth[l][k] > 0
  <1>1. run' = run /\ \A l \in Locks, m \in Conns : depth[l][m] \in Nat
    BY DEF Close, IInv, TypeOK
  <1>2. \A l \in Locks, m \in Conns : depth'[l][m] = IF m = k THEN 0 ELSE depth[l][m]
    BY DEF Close, IInv, TypeOK
  <1>3. \A i \in Instances, l \in Locks :
           RunsOf(i, l)' = RunsOf(i, l) /\ Cardinality(RunsOf(i, l)) \in Nat
    BY <1>1, RunsFinite DEF RunsOf
  <1>4. ASSUME NEW i \in Instances, NEW l \in Locks, Backed(i, l)'
        PROVE  Backed(i, l)
    <2>1. ASSUME RunsOf(i, l) # {}
          PROVE  \E m \in Conns : HomeOf[m] = i /\ depth[l][m] >= Cardinality(RunsOf(i, l))
      <3>1. PICK m \in Conns : HomeOf[m] = i /\ depth'[l][m] >= Cardinality(RunsOf(i, l))
        BY <1>3, <1>4, <2>1 DEF Backed
      <3> QED
        BY <1>1, <1>2, <1>3, <3>1
    <2> QED
      BY <2>1 DEF Backed
  <1>5. Unbacked \subseteq Unbacked' /\ Unbacked' \subseteq Locks
    BY <1>4 DEF Unbacked
  <1>6. ASSUME NEW n \in Locks, NEW j \in Instances
        PROVE  j \in AtWork'[n] <=> j \in AtWork[n]
    BY <1>1, WorkOf
  <1>7. JL!Lose(Unbacked')
    BY <1>5, <1>6, SameWork DEF JL!Lose
  <1>8. ASSUME NEW l \in Unbacked', l \notin Unbacked
        PROVE  depth[l][k] > 0
    <2> SUFFICES ASSUME ~ depth[l][k] > 0
                 PROVE  FALSE
      OBVIOUS
    <2>1. l \in Locks /\ \A m \in Conns : depth'[l][m] = depth[l][m]
      BY <1>1, <1>2 DEF Unbacked
    <2>2. \A i \in Instances : Backed(i, l) => Backed(i, l)'
      BY <1>3, <2>1 DEF Backed
    <2> QED
      BY <1>8, <2>1, <2>2 DEF Unbacked
  <1> QED
    BY <1>5, <1>7, <1>8

LEMMA CrashCrashes ==
  ASSUME IInv, IInv', NEW i \in Instances, Crash(i)
  PROVE  JL!Crash(i)
  <1>1. JL!Regained
    BY CrashKeeps, KeepsRegains
  <1>2. \A q \in Runs : run'[q] = IF HomeOf[q] = i THEN "idle" ELSE run[q]
    BY DEF Crash
  <1>3. \A l \in Locks : AtWork'[l] = AtWork[l] \ {i}
    BY <1>2, WorkOf
  <1>4. AtWork' = [l \in Locks |-> AtWork[l] \ {i}]
    BY <1>3 DEF AtWork
  <1> QED
    BY <1>1, <1>4 DEF JL!Crash

LEMMA InitJL == Init => JL!Init
  <1> SUFFICES ASSUME Init
               PROVE  JL!Init
    OBVIOUS
  <1>1. \A i \in Instances, l \in Locks : RunsOf(i, l) = {}
    BY DEF Init, RunsOf
  <1>2. Unbacked = {}
    BY <1>1 DEF Unbacked, Backed
  <1>3. AtWork = [l \in Locks |-> {}]
    BY DEF Init, AtWork
  <1> QED
    BY <1>2, <1>3 DEF JL!Init

\* In every step instances enter, leave, lose or regain locks or crash as JobLock has
\* them do.
LEMMA StepJL ==
  IInv /\ IInv' /\ [Next]_vars => [JL!Next]_<<AtWork, Unbacked>>
  <1> SUFFICES ASSUME IInv, IInv', [Next]_vars
               PROVE  [JL!Next]_<<AtWork, Unbacked>>
    OBVIOUS
  <1>1. ASSUME NEW r \in Runs, NEW k \in Conns, TryLock(r, k)
        PROVE  JL!Next
    <2>1. HomeOf[r] \in Instances /\ LockOf[r] \in Locks
      BY AdvisoryLockAssumption
    <2> QED
      BY <1>1, <2>1, TryLockEnters DEF JL!Next
  <1>2. ASSUME NEW r \in Runs, Finish(r)
        PROVE  [JL!Next]_<<AtWork, Unbacked>>
    <2>1. HomeOf[r] \in Instances /\ LockOf[r] \in Locks
      BY AdvisoryLockAssumption
    <2> QED
      BY <1>2, <2>1, FinishLeaves DEF JL!Next
  <1>3. ASSUME NEW r \in Runs, Unlock(r)
        PROVE  JL!Next
    BY <1>3, UnlockRecovers DEF JL!Next
  <1>4. ASSUME NEW k \in Conns, Close(k)
        PROVE  JL!Next
    BY <1>4, CloseLoses DEF JL!Next
  <1>5. ASSUME NEW i \in Instances, Crash(i)
        PROVE  JL!Next
    BY <1>5, CrashCrashes DEF JL!Next
  <1>6. CASE UNCHANGED vars
    BY <1>6 DEF vars, AtWork, Unbacked, Backed, RunsOf
  <1> QED
    BY <1>1, <1>2, <1>3, <1>4, <1>5, <1>6 DEF Next

\* The sessions and the runs implement the lock the jobs rely on.
THEOREM LocksImplement == Spec => ImplementsJobLock
  BY Invariant, InitJL, StepJL, PTL DEF Spec, JL!Spec, ImplementsJobLock

\* Only a connection that closes takes the lock from under a run.
LEMMA StepLoses ==
  ASSUME IInv, IInv', [Next]_vars, NEW l \in Locks, l \in Unbacked', l \notin Unbacked
  PROVE  \E k \in Conns : depth[l][k] > 0 /\ Close(k)
  <1>1. ASSUME NEW r \in Runs, NEW k \in Conns, TryLock(r, k)
        PROVE  FALSE
    BY <1>1, TryLockKeeps, KeepsRegains DEF JL!Regained
  <1>2. ASSUME NEW r \in Runs, Finish(r)
        PROVE  FALSE
    BY <1>2, FinishLeaves DEF JL!Leave
  <1>3. ASSUME NEW r \in Runs, Unlock(r)
        PROVE  FALSE
    BY <1>3, UnlockKeeps, KeepsRegains DEF JL!Regained
  <1>4. ASSUME NEW k \in Conns, Close(k)
        PROVE  depth[l][k] > 0 /\ Close(k)
    BY <1>4, CloseLoses
  <1>5. ASSUME NEW i \in Instances, Crash(i)
        PROVE  FALSE
    BY <1>5, CrashKeeps, KeepsRegains DEF JL!Regained
  <1>6. CASE UNCHANGED vars
    BY <1>6 DEF vars, Unbacked, Backed, RunsOf
  <1> QED
    BY <1>1, <1>2, <1>3, <1>4, <1>5, <1>6 DEF Next

\* A run loses its lock only by a connection that closes, in any step of the jobs.
THEOREM NothingElseLoses == Spec => OnlyClosingLoses
  <1>1. IInv /\ IInv' /\ [Next]_vars =>
          [\A l \in Locks : l \in Unbacked' /\ l \notin Unbacked =>
             \E k \in Conns : depth[l][k] > 0 /\ Close(k)]_vars
    BY StepLoses
  <1> QED
    BY <1>1, Invariant, PTL DEF Spec, OnlyClosingLoses

-----------------------------------------------------------------------------
(* The webhook inbox.                                                      *)

\* A worker that is busy has an attempt to use.
InboxBusy == \A w \in Workers : work[w].pc # "free" => work[w].job.left > 0

InboxTyped == InboxTypeOK /\ InboxBusy

Enqueuing(q, k) == request[q].pc = "enqueue" /\ KeyAt(q) = k

\* A key is in one place at a time: not yet saved, with the request that saved it, in
\* one job, or done.
OneRequest == \A p, q \in Requests : \A k \in Keys :
                Enqueuing(p, k) /\ Enqueuing(q, k) => p = q

RequestAhead == \A q \in Requests : \A k \in Keys :
                  Enqueuing(q, k) => /\ row[k].saved /\ ran[k] = 0
                                     /\ \A j \in jobs : j.key # k

OneJob == \A i, j \in jobs : i.key = j.key => i = j

JobSaved == \A j \in jobs : row[j.key].saved

WorkIsQueued == \A w \in Workers :
                  work[w].pc # "free" => work[w].job \in jobs

WorkApart == \A v, w \in Workers :
               /\ work[v].pc # "free" /\ work[w].pc # "free" /\ work[v].job = work[w].job
               => v = w

\* A job whose handler has run is in the hands of the worker that will mark it, or
\* something failed for every run that there has been.
RunIsMarked == \A j \in jobs : ran[j.key] > failures =>
                 \E w \in Workers : work[w].pc = "mark" /\ work[w].job = j

RanOnce == \A k \in Keys : ran[k] <= 1 + failures /\ (~ row[k].saved => ran[k] = 0)

InboxFlow == /\ OneRequest /\ RequestAhead /\ OneJob /\ JobSaved
             /\ WorkIsQueued /\ WorkApart /\ RunIsMarked /\ RanOnce

InboxInv == InboxTyped /\ InboxFlow

LEMMA InboxConstants ==
  /\ Nobody \in [pc: {"idle", "find", "create", "enqueue"}, notice: Notices]
  /\ Nobody.pc = "idle"
  /\ NoRow \in Row
  /\ Free \in [pc: {"free", "load", "handle", "mark", "error"}, job: Job]
  /\ Free.pc = "free"
  /\ \A n \in Notices : KeyOf[n] \in Keys
  <1>1. (CHOOSE n \in Notices : TRUE) \in Notices
    BY InboxAssumption
  <1>2. (CHOOSE q \in Requests : TRUE) \in Requests
    BY InboxAssumption
  <1>3. \A n \in Notices : KeyOf[n] \in Keys
    BY DEF Keys
  <1>4. (CHOOSE k \in Keys : TRUE) \in Keys
    BY <1>1, <1>3
  <1>5. NoJob \in Job
    BY <1>2, <1>4, InboxAssumption DEF NoJob, Job
  <1>6. NoRow \in Row
    BY DEF NoRow, Row
  <1> QED
    BY <1>1, <1>3, <1>5, <1>6 DEF Nobody, Free

LEMMA InboxStarts ==
  ASSUME InboxInit
  PROVE  InboxInv
  <1>1. InboxTypeOK
    BY InboxConstants, InboxAssumption DEF InboxInit, InboxTypeOK
  <1>2. InboxBusy /\ OneRequest /\ RequestAhead /\ WorkIsQueued /\ WorkApart
    BY InboxConstants DEF InboxInit, InboxBusy, OneRequest, RequestAhead, WorkIsQueued,
                          WorkApart, Enqueuing
  <1>3. OneJob /\ JobSaved /\ RunIsMarked /\ RanOnce
    BY DEF InboxInit, OneJob, JobSaved, RunIsMarked, RanOnce
  <1> QED
    BY <1>1, <1>2, <1>3 DEF InboxInv, InboxTyped, InboxFlow

\* A step of a request that does not add a job and keeps what its row was saved as.
LEMMA InboxRequestStep ==
  ASSUME InboxInv, NEW q \in Requests,
         NEW r \in [pc: {"idle", "find", "create", "enqueue"}, notice: Notices],
         request' = [request EXCEPT ![q] = r],
         UNCHANGED <<jobs, work, ran>>,
         sent' \in [Notices -> 0 .. MaxSent], acked' \subseteq Notices,
         orphans' \subseteq Keys, failures' \in Nat, row' \in [Keys -> Row],
         failures' \in {failures, failures + 1},
         \A k \in Keys : row[k].saved => row'[k].saved,
         r.pc = "enqueue" => /\ ~ row[KeyOf[r.notice]].saved /\ row'[KeyOf[r.notice]].saved
  PROVE  InboxInv'
  <1>1. InboxTyped'
    BY DEF InboxInv, InboxTyped, InboxTypeOK, InboxBusy
  <1>2. InboxFlow'
    <2>1. InboxFlow /\ InboxTypeOK
      BY DEF InboxInv, InboxTyped
    <2>2. \A p \in Requests, k \in Keys :
             Enqueuing(p, k)' <=> IF p = q THEN r.pc = "enqueue" /\ KeyOf[r.notice] = k
                                           ELSE Enqueuing(p, k)
      BY <2>1 DEF InboxTypeOK, Enqueuing, KeyAt
    <2>3. OneRequest' /\ RequestAhead'
      BY <2>1, <2>2 DEF InboxFlow, OneRequest, RequestAhead, JobSaved, RanOnce
    <2>4. (OneJob /\ JobSaved /\ WorkIsQueued /\ WorkApart)'
      BY <2>1 DEF InboxFlow, OneJob, JobSaved, WorkIsQueued, WorkApart, InboxTypeOK, Job
    <2>5. \A k \in Keys : ran[k] \in Nat /\ (ran[k] > failures' => ran[k] > failures)
      BY <2>1 DEF InboxTypeOK
    <2>6. RunIsMarked'
      BY <2>1, <2>5 DEF InboxFlow, RunIsMarked, InboxTypeOK, Job
    <2>7. RanOnce'
      BY <2>1, <2>5 DEF InboxFlow, RanOnce, InboxTypeOK
    <2> QED
      BY <2>3, <2>4, <2>6, <2>7 DEF InboxFlow
  <1> QED
    BY <1>1, <1>2 DEF InboxInv

LEMMA InboxReceive ==
  ASSUME InboxInv, NEW q \in Requests, NEW n \in Notices,
         Receive(q, n)
  PROVE  InboxInv'
  <1> DEFINE r == [pc |-> "find", notice |-> n]
  <1>1. InboxTypeOK
    BY DEF InboxInv, InboxTyped
  <1>2. sent' \in [Notices -> 0 .. MaxSent]
    BY <1>1, InboxAssumption DEF Receive, InboxTypeOK
  <1>3. /\ request' = [request EXCEPT ![q] = r]
        /\ UNCHANGED <<acked, row, jobs, work, ran, orphans, failures>>
    BY DEF Receive
  <1>4. r \in [pc: {"idle", "find", "create", "enqueue"}, notice: Notices] /\ r.pc # "enqueue"
    OBVIOUS
  <1> HIDE DEF r
  <1> QED
    BY <1>1, <1>2, <1>3, <1>4, InboxRequestStep DEF InboxTypeOK

LEMMA InboxServe ==
  ASSUME InboxInv, NEW q \in Requests,
         Find(q) \/ Create(q) \/ RequestFails(q)
  PROVE  InboxInv'
  <1>1. InboxTypeOK
    BY DEF InboxInv, InboxTyped
  <1> DEFINE n == request[q].notice
             k == KeyOf[n]
             At(pc) == [request[q] EXCEPT !.pc = pc]
  <1>2. request[q] \in [pc: {"idle", "find", "create", "enqueue"}, notice: Notices]
    BY <1>1 DEF InboxTypeOK
  <1>3. /\ n \in Notices /\ k \in Keys /\ KeyAt(q) = k
        /\ \A pc \in {"idle", "find", "create", "enqueue"} :
             /\ At(pc) \in [pc: {"idle", "find", "create", "enqueue"}, notice: Notices]
             /\ At(pc).pc = pc /\ At(pc).notice = n
    BY <1>2, InboxConstants DEF KeyAt
  <1>4. \A pc : Goes(q, pc) => request' = [request EXCEPT ![q] = At(pc)]
    BY <1>1 DEF Goes, InboxTypeOK
  <1> HIDE DEF At
  <1>5. CASE Find(q)
    <2>1. /\ acked' \subseteq Notices
          /\ UNCHANGED <<sent, row, jobs, work, ran, orphans, failures>>
          /\ Goes(q, "idle") \/ Goes(q, "create")
      BY <1>1, <1>3, <1>5 DEF Find, InboxTypeOK
    <2>2. PICK pc \in {"idle", "create"} : request' = [request EXCEPT ![q] = At(pc)]
      BY <2>1, <1>4
    <2> QED
      BY <1>1, <1>3, <2>1, <2>2, InboxRequestStep DEF InboxTypeOK
  <1>6. CASE Create(q)
    <2>1. UNCHANGED <<sent, acked, jobs, work, ran, orphans, failures>>
      BY <1>6 DEF Create
    <2>2. CASE row[k].saved
      <3>1. request' = [request EXCEPT ![q] = At("idle")] /\ UNCHANGED row
        BY <1>3, <1>4, <1>6, <2>2 DEF Create, UniqueRefuses
      <3> QED
        BY <1>1, <1>3, <2>1, <3>1, InboxRequestStep DEF InboxTypeOK
    <2>3. CASE ~ row[k].saved
      <3>1. /\ request' = [request EXCEPT ![q] = At("enqueue")]
            /\ row' = [row EXCEPT ![k].saved = TRUE, ![k].holds = @ \cup {n}]
        BY <1>3, <1>4, <1>6, <2>3 DEF Create, UniqueRefuses
      <3>2. /\ row' \in [Keys -> Row]
            /\ \A h \in Keys : row[h].saved => row'[h].saved
            /\ row'[k].saved
        <4> DEFINE r == [row[k] EXCEPT !.saved = TRUE, !.holds = @ \cup {n}]
        <4>1. row[k] \in Row
          BY <1>1, <1>3 DEF InboxTypeOK
        <4>2. r \in Row /\ r.saved
          BY <1>3, <4>1 DEF Row
        <4>3. row' = [row EXCEPT ![k] = r]
          BY <1>1, <1>3, <3>1 DEF InboxTypeOK
        <4> HIDE DEF r
        <4> QED
          BY <1>1, <1>3, <4>2, <4>3 DEF InboxTypeOK
      <3> QED
        BY <1>1, <1>3, <2>1, <2>3, <3>1, <3>2, InboxRequestStep DEF InboxTypeOK
    <2> QED
      BY <2>2, <2>3
  <1>7. CASE RequestFails(q)
    <2>1. /\ request' = [request EXCEPT ![q] = At("idle")]
          /\ UNCHANGED <<sent, acked, row, jobs, work, ran>>
          /\ orphans' \subseteq Keys /\ failures' \in Nat /\ failures' = failures + 1
      BY <1>1, <1>3, <1>4, <1>7 DEF RequestFails, InboxTypeOK
    <2> QED
      BY <1>1, <1>3, <2>1, InboxRequestStep DEF InboxTypeOK
  <1> QED
    BY <1>5, <1>6, <1>7

\* The one job of a key is added while nothing else of it is under way.
LEMMA InboxEnqueue ==
  ASSUME InboxInv, NEW q \in Requests, Enqueue(q)
  PROVE  InboxInv'
  <1> DEFINE k == KeyAt(q)
             j == [key |-> k, by |-> q, left |-> Attempts, stalled |-> FALSE]
  <1>1. InboxTypeOK /\ InboxBusy
    BY DEF InboxInv, InboxTyped
  <1>2. /\ request[q].pc = "enqueue" /\ k \in Keys /\ request[q].notice \in Notices
    BY <1>1, InboxConstants DEF Enqueue, InboxTypeOK, KeyAt
  <1>3. /\ jobs' = jobs \cup {j}
        /\ acked' = acked \cup {request[q].notice}
        /\ request' = [request EXCEPT ![q].pc = "idle"]
        /\ UNCHANGED <<sent, row, work, ran, orphans, failures>>
    BY DEF Enqueue, Goes
  <1>4. j \in Job /\ j.key = k
    BY <1>2, InboxAssumption DEF Job
  <1> HIDE DEF j
  <1>5. InboxTyped'
    BY <1>1, <1>2, <1>3, <1>4 DEF InboxTyped, InboxTypeOK, InboxBusy
  <1>6. InboxFlow'
    <2>1. InboxFlow
      BY DEF InboxInv
    <2>2. Enqueuing(q, k) /\ row[k].saved /\ ran[k] = 0 /\ \A i \in jobs : i.key # k
      BY <1>2, <2>1 DEF Enqueuing, InboxFlow, RequestAhead
    <2>3. \A p \in Requests, h \in Keys :
             Enqueuing(p, h)' <=> p # q /\ Enqueuing(p, h)
      BY <1>1, <1>3 DEF InboxTypeOK, Enqueuing, KeyAt
    <2>4. OneRequest' /\ RequestAhead'
      BY <1>2, <1>3, <1>4, <2>1, <2>2, <2>3 DEF InboxFlow, OneRequest, RequestAhead
    <2>5. OneJob' /\ JobSaved' /\ RunIsMarked'
      <3>1. ~ ran[k] > failures
        BY <1>1, <2>2 DEF InboxTypeOK
      <3> QED
        BY <1>3, <1>4, <2>1, <2>2, <3>1 DEF InboxFlow, OneJob, JobSaved, RunIsMarked
    <2>6. WorkIsQueued' /\ WorkApart' /\ RanOnce'
      BY <1>3, <2>1 DEF InboxFlow, WorkIsQueued, WorkApart, RanOnce
    <2> QED
      BY <2>4, <2>5, <2>6 DEF InboxFlow
  <1> QED
    BY <1>5, <1>6 DEF InboxInv

LEMMA InboxTake ==
  ASSUME InboxInv, NEW w \in Workers, NEW j \in jobs, Take(w, j)
  PROVE  InboxInv'
  <1>1. InboxTypeOK /\ InboxBusy
    BY DEF InboxInv, InboxTyped
  <1>2. /\ work' = [work EXCEPT ![w] = [pc |-> "load", job |-> j]]
        /\ UNCHANGED <<sent, request, acked, row, jobs, ran, orphans, failures>>
        /\ j.left > 0 /\ work[w].pc = "free"
        /\ \A v \in Workers : work[v].pc # "free" => work[v].job # j
    BY DEF Take
  <1>3. InboxTyped'
    BY <1>1, <1>2 DEF InboxTyped, InboxTypeOK, InboxBusy
  <1>4. InboxFlow'
    <2>1. InboxFlow
      BY DEF InboxInv
    <2>2. OneRequest' /\ RequestAhead' /\ OneJob' /\ JobSaved' /\ RanOnce'
      BY <1>2, <2>1 DEF InboxFlow, OneRequest, RequestAhead, OneJob, JobSaved, RanOnce,
                        Enqueuing, KeyAt
    <2>3. WorkIsQueued' /\ WorkApart'
      BY <1>1, <1>2, <2>1 DEF InboxFlow, WorkIsQueued, WorkApart, InboxTypeOK
    <2>4. RunIsMarked'
      BY <1>1, <1>2, <2>1 DEF InboxFlow, RunIsMarked, InboxTypeOK
    <2> QED
      BY <2>2, <2>3, <2>4 DEF InboxFlow
  <1> QED
    BY <1>3, <1>4 DEF InboxInv

\* The worker goes on without a change to the queue: to the handler, or past it.
LEMMA InboxHandle ==
  ASSUME InboxInv, NEW w \in Workers,
         \/ /\ Load(w) /\ ~ row[work[w].job.key].processed
         \/ Handle(w) \/ HandleFails(w) \/ MarkFails(w)
  PROVE  InboxInv'
  <1>1. InboxTypeOK /\ InboxBusy
    BY DEF InboxInv, InboxTyped
  <1> DEFINE k == work[w].job.key
  <1>2. /\ work[w].pc # "free" /\ k \in Keys
    BY <1>1 DEF Load, Handle, HandleFails, MarkFails,
                InboxTypeOK, Job
  <1>3. CASE Load(w) /\ ~ row[k].processed
    <2>1. /\ work' = [work EXCEPT ![w].pc = "handle"] /\ work[w].pc = "load"
          /\ UNCHANGED <<sent, request, acked, row, jobs, ran, orphans, failures>>
      BY <1>3 DEF Load
    <2>2. InboxTyped'
      BY <1>1, <2>1 DEF InboxTyped, InboxTypeOK, InboxBusy
    <2>3. InboxFlow'
      BY <1>1, <2>1 DEF InboxInv, InboxFlow, OneRequest, RequestAhead, OneJob, JobSaved,
         RanOnce, Enqueuing, KeyAt, WorkIsQueued, WorkApart, RunIsMarked, InboxTypeOK
    <2> QED
      BY <2>2, <2>3 DEF InboxInv
  <1>4. CASE Handle(w)
    <2>1. /\ work' = [work EXCEPT ![w].pc = "mark"] /\ work[w].pc = "handle"
          /\ ran' = [ran EXCEPT ![k] = @ + 1]
          /\ UNCHANGED <<sent, request, acked, row, jobs, orphans, failures>>
      BY <1>4 DEF Handle
    <2>2. InboxTyped'
      BY <1>1, <1>2, <2>1 DEF InboxTyped, InboxTypeOK, InboxBusy
    <2>3. InboxFlow'
      <3>1. InboxFlow
        BY DEF InboxInv
      <3>2. work[w].job \in jobs
        BY <1>2, <3>1 DEF InboxFlow, WorkIsQueued
      <3>3. ran[k] \in 0 .. failures /\ row[k].saved
        <4>1. row[k].saved
          BY <3>1, <3>2 DEF InboxFlow, JobSaved
        <4>2. ASSUME ran[k] > failures
              PROVE  FALSE
          <5>1. PICK v \in Workers : work[v].pc = "mark" /\ work[v].job = work[w].job
            BY <3>1, <3>2, <4>2 DEF InboxFlow, RunIsMarked
          <5>2. v = w
            BY <1>2, <3>1, <5>1 DEF InboxFlow, WorkApart
          <5> QED
            BY <2>1, <5>1, <5>2
        <4>3. ran[k] \in Nat /\ failures \in Nat
          BY <1>1, <1>2 DEF InboxTypeOK
        <4> QED
          BY <4>1, <4>2, <4>3
      <3>4. ran' \in [Keys -> Nat] /\ ran'[k] = ran[k] + 1
            /\ \A h \in Keys : h # k => ran'[h] = ran[h]
        BY <1>1, <1>2, <2>1, <3>3 DEF InboxTypeOK
      <3>5. OneRequest' /\ RequestAhead' /\ OneJob' /\ JobSaved'
        BY <1>2, <2>1, <3>1, <3>2, <3>3, <3>4
           DEF InboxFlow, OneRequest, RequestAhead, OneJob, JobSaved, Enqueuing, KeyAt
      <3>6. RanOnce'
        BY <1>1, <1>2, <2>1, <3>1, <3>3, <3>4 DEF InboxFlow, RanOnce, InboxTypeOK
      <3>7. WorkIsQueued' /\ WorkApart'
        BY <1>1, <2>1, <3>1 DEF InboxFlow, WorkIsQueued, WorkApart, InboxTypeOK
      <3>8. RunIsMarked'
        <4> SUFFICES ASSUME NEW j \in jobs, ran'[j.key] > failures
                     PROVE  \E v \in Workers : work'[v].pc = "mark" /\ work'[v].job = j
          BY <2>1 DEF RunIsMarked
        <4>1. CASE j.key = k
          <5>1. j = work[w].job
            BY <3>1, <3>2, <4>1 DEF InboxFlow, OneJob
          <5>2. work'[w].pc = "mark" /\ work'[w].job = work[w].job
            BY <1>1, <2>1 DEF InboxTypeOK
          <5> QED
            BY <5>1, <5>2
        <4>2. CASE j.key # k
          <5>1. j.key \in Keys
            BY <1>1 DEF InboxTypeOK, Job
          <5>2. PICK v \in Workers : work[v].pc = "mark" /\ work[v].job = j
            BY <3>1, <3>4, <4>2, <5>1 DEF InboxFlow, RunIsMarked
          <5>3. v # w /\ work'[v] = work[v]
            BY <1>1, <2>1, <5>2 DEF InboxTypeOK
          <5> QED
            BY <5>2, <5>3
        <4> QED
          BY <4>1, <4>2
      <3> QED
        BY <3>5, <3>6, <3>7, <3>8 DEF InboxFlow
    <2> QED
      BY <2>2, <2>3 DEF InboxInv
  <1>5. CASE HandleFails(w) \/ MarkFails(w)
    <2>1. /\ work' = [work EXCEPT ![w].pc = "error"] /\ failures' = failures + 1
          /\ UNCHANGED <<sent, request, acked, row, jobs, ran, orphans>>
      BY <1>5 DEF HandleFails, MarkFails
    <2>2. InboxTyped'
      BY <1>1, <1>2, <2>1 DEF InboxTyped, InboxTypeOK, InboxBusy
    <2>3. InboxFlow
      BY DEF InboxInv
    <2>4. OneRequest' /\ RequestAhead' /\ OneJob' /\ JobSaved' /\ RanOnce'
      BY <1>1, <2>1, <2>3
         DEF InboxFlow, OneRequest, RequestAhead, OneJob, JobSaved, RanOnce, Enqueuing,
             KeyAt, InboxTypeOK
    <2>5. WorkIsQueued' /\ WorkApart'
      BY <1>1, <1>2, <2>1, <2>3 DEF InboxFlow, WorkIsQueued, WorkApart, InboxTypeOK
    <2>6. RunIsMarked'
      <3> SUFFICES ASSUME NEW j \in jobs, ran[j.key] > failures + 1
                   PROVE  FALSE
        BY <2>1 DEF RunIsMarked
      <3> QED
        BY <1>1, <2>3 DEF InboxFlow, RanOnce, InboxTypeOK, Job
    <2> QED
      BY <2>2, <2>4, <2>5, <2>6 DEF InboxInv, InboxFlow
  <1> QED
    BY <1>3, <1>4, <1>5

\* The worker is done with a job that is then gone.
LEMMA InboxDone ==
  ASSUME InboxInv, NEW w \in Workers,
         \/ Load(w) /\ row[work[w].job.key].processed
         \/ MarkProcessed(w)
  PROVE  InboxInv'
  <1>1. InboxTypeOK /\ InboxBusy
    BY DEF InboxInv, InboxTyped
  <1> DEFINE j == work[w].job
  <1>2. /\ work[w].pc # "free" /\ j.key \in Keys
        /\ jobs' = jobs \ {j} /\ work' = [work EXCEPT ![w] = Free]
        /\ row' = row \/ row' = [row EXCEPT ![j.key].processed = TRUE]
        /\ UNCHANGED <<sent, request, acked, ran, orphans, failures>>
    BY <1>1 DEF Load, MarkProcessed, Completes, InboxTypeOK, Job
  <1>3. /\ row' \in [Keys -> Row]
        /\ \A k \in Keys : row'[k].saved = row[k].saved
    <2> DEFINE r == [row[j.key] EXCEPT !.processed = TRUE]
    <2>1. row[j.key] \in Row
      BY <1>1, <1>2 DEF InboxTypeOK
    <2>2. r \in Row /\ r.saved = row[j.key].saved
      BY <2>1 DEF Row
    <2>3. row' = row \/ row' = [row EXCEPT ![j.key] = r]
      BY <1>2
    <2> HIDE DEF r
    <2> QED
      BY <1>1, <1>2, <2>2, <2>3 DEF InboxTypeOK
  <1>4. InboxTyped'
    BY <1>1, <1>2, <1>3, InboxConstants DEF InboxTyped, InboxTypeOK, InboxBusy
  <1>5. InboxFlow'
    <2>1. InboxFlow
      BY DEF InboxInv
    <2>2. \A i \in jobs : i.key \in Keys
      BY <1>1 DEF InboxTypeOK, Job
    <2>3. OneRequest' /\ RequestAhead' /\ OneJob' /\ JobSaved' /\ RanOnce'
      BY <1>2, <1>3, <2>1, <2>2
         DEF InboxFlow, OneRequest, RequestAhead, OneJob, JobSaved, RanOnce, Enqueuing,
             KeyAt
    <2>4. \A v \in Workers : work'[v] = IF v = w THEN Free ELSE work[v]
      BY <1>1, <1>2 DEF InboxTypeOK
    <2>5. WorkIsQueued' /\ WorkApart' /\ RunIsMarked'
      BY <1>2, <2>1, <2>4, InboxConstants
         DEF InboxFlow, WorkIsQueued, WorkApart, RunIsMarked
    <2> QED
      BY <2>3, <2>5 DEF InboxFlow
  <1> QED
    BY <1>4, <1>5 DEF InboxInv

\* The job goes back to the queue: something failed for the run it was about to mark.
LEMMA InboxAgain ==
  ASSUME InboxInv, NEW w \in Workers,
         MarkFailed(w) \/ Rejects(w) \/ Die(w)
  PROVE  InboxInv'
  <1>1. InboxTypeOK /\ InboxBusy
    BY DEF InboxInv, InboxTyped
  <1> DEFINE j == work[w].job
  <1>2. /\ work[w].pc # "free" /\ j \in Job /\ j.left > 0
    BY <1>1 DEF MarkFailed, Rejects, Die, InboxTypeOK, InboxBusy
  <1>3. /\ Retried(j) \in Job /\ Retried(j).key = j.key
        /\ [j EXCEPT !.stalled = TRUE] \in Job /\ [j EXCEPT !.stalled = TRUE].key = j.key
    <2>1. Attempts \in Nat /\ j.left - 1 \in 0 .. Attempts
      BY <1>2, InboxAssumption DEF Job
    <2> HIDE DEF j
    <2>2. [j EXCEPT !.left = @ - 1] \in Job /\ [j EXCEPT !.left = @ - 1].key = j.key
      BY <1>2, <2>1 DEF Job
    <2>3. [j EXCEPT !.stalled = TRUE] \in Job /\ [j EXCEPT !.stalled = TRUE].key = j.key
      BY <1>2 DEF Job
    <2> QED
      BY <2>2, <2>3 DEF Retried
  <1>4. PICK i \in Job : jobs' = (jobs \ {j}) \cup {i} /\ i.key = j.key
    BY <1>3 DEF MarkFailed, Rejects, Die
  <1>5. work' = [work EXCEPT ![w] = Free] /\ UNCHANGED <<sent, request, acked, ran, orphans>>
    BY DEF MarkFailed, Rejects, Die
  <1>6. row' \in [Keys -> Row] /\ \A k \in Keys : row'[k].saved = row[k].saved
    <2> DEFINE r == [row[j.key] EXCEPT !.tries = @ + 1]
    <2>1. j.key \in Keys /\ row[j.key] \in Row
      BY <1>1, <1>2 DEF InboxTypeOK, Job
    <2>2. r \in Row /\ r.saved = row[j.key].saved
      BY <2>1 DEF Row
    <2>3. row' = row \/ row' = [row EXCEPT ![j.key] = r]
      BY DEF MarkFailed, Rejects, Die
    <2> HIDE DEF r
    <2> QED
      BY <1>1, <2>1, <2>2, <2>3 DEF InboxTypeOK
  <1>7. /\ failures \in Nat /\ failures' \in Nat /\ failures' >= failures
        /\ work[w].pc = "mark" => failures' = failures + 1
    BY <1>1 DEF MarkFailed, Rejects, Die, InboxTypeOK
  <1>8. InboxTyped'
    BY <1>1, <1>4, <1>5, <1>6, <1>7, InboxConstants DEF InboxTyped, InboxTypeOK, InboxBusy
  <1>9. InboxFlow'
    <2>1. InboxFlow
      BY DEF InboxInv
    <2>2. j \in jobs /\ j.key \in Keys /\ \A h \in jobs : h.key = j.key => h = j
      BY <1>1, <1>2, <2>1 DEF InboxFlow, WorkIsQueued, OneJob, InboxTypeOK, Job
    <2>3. \A h \in jobs : h.key \in Keys
      BY <1>1 DEF InboxTypeOK, Job
    <2> HIDE DEF j
    <2>4. OneRequest' /\ RequestAhead' /\ OneJob' /\ JobSaved'
      BY <1>4, <1>5, <1>6, <2>1, <2>2, <2>3
         DEF InboxFlow, OneRequest, RequestAhead, OneJob, JobSaved, Enqueuing, KeyAt
    <2>5. RanOnce'
      BY <1>1, <1>5, <1>6, <1>7, <2>1 DEF InboxFlow, RanOnce, InboxTypeOK
    <2>6. \A v \in Workers : work'[v] = IF v = w THEN Free ELSE work[v]
      BY <1>1, <1>5 DEF InboxTypeOK
    <2>7. \A v \in Workers \ {w} : work[v].pc # "free" => work[v].job \in jobs \ {j}
      BY <1>2, <2>1 DEF InboxFlow, WorkIsQueued, WorkApart, j
    <2>8. WorkIsQueued' /\ WorkApart'
      BY <1>4, <2>1, <2>6, <2>7, InboxConstants DEF InboxFlow, WorkIsQueued, WorkApart
    <2>9. RunIsMarked'
      <3> SUFFICES ASSUME NEW h \in jobs', ran[h.key] > failures'
                   PROVE  \E v \in Workers : work'[v].pc = "mark" /\ work'[v].job = h
        BY <1>5 DEF RunIsMarked
      <3>1. PICK g \in jobs : g.key = h.key /\ (h = g \/ g = j)
        BY <1>4, <2>2
      <3>2. ran[g.key] \in Nat /\ ran[g.key] <= 1 + failures
        BY <1>1, <2>1, <2>3 DEF InboxFlow, RanOnce, InboxTypeOK
      <3>3. PICK v \in Workers : work[v].pc = "mark" /\ work[v].job = g
        BY <1>7, <2>1, <3>1, <3>2 DEF InboxFlow, RunIsMarked
      <3>4. CASE g = j
        <4>1. v = w
          BY <1>2, <2>1, <3>3, <3>4 DEF InboxFlow, WorkApart, j
        <4> QED
          BY <1>7, <3>1, <3>2, <3>3, <4>1
      <3>5. CASE g # j
        BY <2>6, <3>1, <3>3, <3>5 DEF j
      <3> QED
        BY <3>4, <3>5
    <2> QED
      BY <2>1, <2>4, <2>5, <2>8, <2>9 DEF InboxFlow
  <1> QED
    BY <1>8, <1>9 DEF InboxInv

LEMMA InboxKeeps ==
  InboxInv /\ [InboxNext]_inboxVars => InboxInv'
  <1> SUFFICES ASSUME InboxInv, [InboxNext]_inboxVars PROVE InboxInv'
    OBVIOUS
  <1>1. CASE UNCHANGED inboxVars
    BY <1>1 DEF inboxVars, InboxInv, InboxTyped, InboxTypeOK, InboxBusy, InboxFlow,
       OneRequest, RequestAhead, OneJob, JobSaved, RanOnce, Enqueuing, KeyAt,
       WorkIsQueued, WorkApart, RunIsMarked
  <1>2. ASSUME NEW w \in Workers, Load(w) PROVE InboxInv'
    BY <1>2, InboxHandle, InboxDone
  <1>3. ASSUME NEW q \in Requests, Serve(q) PROVE InboxInv'
    BY <1>3, InboxServe, InboxEnqueue DEF Serve
  <1>4. ASSUME NEW w \in Workers, Work(w) PROVE InboxInv'
    BY <1>2, <1>4, InboxTake, InboxHandle, InboxDone, InboxAgain DEF Work
  <1> QED
    BY <1>1, <1>3, <1>4, InboxReceive, InboxServe, InboxHandle, InboxAgain DEF InboxNext

\* The variables of the inbox keep their types; no attempt of a job goes below zero.
THEOREM InboxTypes == InboxSpec => []InboxTypeOK
  <1>1. InboxInit => InboxInv
    BY InboxStarts
  <1>2. InboxInv => InboxTypeOK
    BY DEF InboxInv, InboxTyped
  <1> QED
    BY <1>1, <1>2, InboxKeeps, PTL DEF InboxSpec

\* The handler of an event ends once, and again at most once for each failure, however
\* many requests carry the notice and however many workers take jobs.
THEOREM EventsHandledOnce == InboxSpec => []HandledOnce
  <1>1. InboxInit => InboxInv
    BY InboxStarts
  <1>2. InboxInv => HandledOnce
    BY DEF InboxInv, InboxTyped, InboxTypeOK, InboxFlow, RanOnce, HandledOnce
  <1> QED
    BY <1>1, <1>2, InboxKeeps, PTL DEF InboxSpec

-----------------------------------------------------------------------------
(* The event outbox.                                                       *)

\* The failed jobs the queue keeps are failed, and each is kept once.
KeptAreFailed ==
  /\ \A i \in 1 .. Len(failed) : job[failed[i]].state = "failed"
  /\ \A i, k \in 1 .. Len(failed) : failed[i] = failed[k] => i = k

\* A job is with one worker at a time, since its id is known to the queue meanwhile.
BusyIsActive == \A w \in Senders : sending[w].pc # "free" => job[sending[w].event].state = "active"

DeliverersApart ==
  \A v, w \in Senders :
    /\ sending[v].pc # "free" /\ sending[w].pc # "free" /\ sending[v].event = sending[w].event
    => v = w

\* What a worker has read, or been answered, still holds when it acts on it.
DelivererKnows ==
  \A w \in Senders :
    /\ sending[w].pc \in {"post", "skip", "record"} => ~ event[sending[w].event].delivered
    /\ sending[w].pc = "skip" => ~ url
    /\ sending[w].pc = "record" => sending[w].event \in received

OutboxInv == /\ OutboxTypeOK /\ KeptAreFailed /\ BusyIsActive /\ DeliverersApart
             /\ DelivererKnows /\ DeliveredIsReceived

OutboxPcs == {"free", "load", "skip", "post", "record", "miss"}

LEMMA OutboxConstants ==
  /\ NoEvent \in Event /\ ~ NoEvent.delivered
  /\ NotQueued \in QueuedJob /\ NotQueued.state = "none"
  /\ Idle \in [pc: OutboxPcs, event: Events] /\ Idle.pc = "free"
  /\ DispatchAttempts \in Nat /\ RetryAttempts \in Nat /\ KeepFailed \in Nat
  <1>1. (CHOOSE e \in Events : TRUE) \in Events
    BY OutboxAssumption
  <1> QED
    BY <1>1, OutboxAssumption DEF NoEvent, Event, NotQueued, QueuedJob, Idle, OutboxPcs

\* An attempt is counted and dated; it delivers, or leaves the row as it was.
LEMMA CountedOK ==
  ASSUME NEW r \in Event, NEW d \in BOOLEAN
  PROVE  /\ Counted(r, d) \in Event
         /\ Counted(r, d).delivered = (r.delivered \/ d)
         /\ Counted(r, d).saved = r.saved
  <1>1. ASSUME NEW b \in BOOLEAN, NEW t \in Nat
        PROVE  LET c == [r EXCEPT !.delivered = b, !.tries = t, !.tried = TRUE, !.recent = TRUE]
               IN  c \in Event /\ c.delivered = b /\ c.saved = r.saved
    BY DEF Event
  <1>2. (r.delivered \/ d) \in BOOLEAN
    OBVIOUS
  <1>3. r.tries + 1 \in Nat
    BY DEF Event
  <1> QED
    BY <1>1, <1>2, <1>3, Zenon DEF Counted

LEMMA OutboxStarts ==
  ASSUME OutboxInit
  PROVE  OutboxInv
  <1>1. OutboxTypeOK
    BY OutboxConstants DEF OutboxInit, OutboxTypeOK, OutboxPcs
  <1>2. KeptAreFailed /\ BusyIsActive /\ DeliverersApart /\ DelivererKnows
    BY OutboxConstants DEF OutboxInit, KeptAreFailed, BusyIsActive, DeliverersApart,
                           DelivererKnows
  <1>3. DeliveredIsReceived
    BY OutboxConstants DEF OutboxInit, DeliveredIsReceived
  <1> QED
    BY <1>1, <1>2, <1>3 DEF OutboxInv

\* A job is added, unless the queue knows its id.
LEMMA OutboxAdds ==
  ASSUME OutboxInv, NEW e \in Events, NEW n \in Nat,
         job' = Added(e, n),
         UNCHANGED <<url, event, failed, sending, received>>,
         adding' \subseteq Events, listed' \subseteq Events, errors' \in Nat
  PROVE  OutboxInv'
  <1>1. OutboxInv
    OBVIOUS
  <1>2. /\ job' \in [Events -> QueuedJob]
        /\ \A d \in Events : job[d].state # "none" => job'[d] = job[d]
    BY <1>1 DEF OutboxInv, OutboxTypeOK, Added, QueuedJob
  <1>3. OutboxTypeOK'
    BY <1>1, <1>2 DEF OutboxInv, OutboxTypeOK
  <1>4. KeptAreFailed'
    BY <1>1, <1>2 DEF OutboxInv, KeptAreFailed, OutboxTypeOK
  <1>5. BusyIsActive' /\ DeliverersApart' /\ DelivererKnows'
    BY <1>1, <1>2 DEF OutboxInv, BusyIsActive, DeliverersApart, DelivererKnows, OutboxTypeOK
  <1>6. DeliveredIsReceived'
    BY <1>1 DEF OutboxInv, DeliveredIsReceived
  <1> QED
    BY <1>3, <1>4, <1>5, <1>6 DEF OutboxInv

\* A row is saved or grows old, or a list is made or dropped: no worker notices.
LEMMA OutboxRows ==
  ASSUME OutboxInv,
         UNCHANGED <<url, job, failed, sending, received>>,
         event' \in [Events -> Event],
         \A e \in Events : event'[e].delivered = event[e].delivered,
         adding' \subseteq Events, listed' \subseteq Events, errors' \in Nat
  PROVE  OutboxInv'
  BY DEF OutboxInv, OutboxTypeOK, KeptAreFailed, BusyIsActive, DeliverersApart,
         DelivererKnows, DeliveredIsReceived

LEMMA OutboxTake ==
  ASSUME OutboxInv, NEW w \in Senders, NEW e \in Events,
         TakeEvent(w, e)
  PROVE  OutboxInv'
  <1>1. OutboxInv
    OBVIOUS
  <1> DEFINE k == [job[e] EXCEPT !.state = "active"]
  <1>2. /\ sending' = [sending EXCEPT ![w] = [pc |-> "load", event |-> e]]
        /\ job' = [job EXCEPT ![e] = k] /\ job[e].state = "waiting"
        /\ UNCHANGED <<url, event, adding, failed, listed, received, errors>>
    BY <1>1 DEF TakeEvent, OutboxInv, OutboxTypeOK
  <1>3. k \in QueuedJob /\ k.state = "active"
    BY <1>1 DEF OutboxInv, OutboxTypeOK, QueuedJob
  <1> HIDE DEF k
  <1>4. OutboxTypeOK'
    BY <1>1, <1>2, <1>3 DEF OutboxInv, OutboxTypeOK
  <1>5. KeptAreFailed'
    BY <1>1, <1>2 DEF OutboxInv, KeptAreFailed, OutboxTypeOK
  <1>6. BusyIsActive' /\ DeliverersApart' /\ DelivererKnows'
    BY <1>1, <1>2, <1>3 DEF OutboxInv, BusyIsActive, DeliverersApart, DelivererKnows,
                            OutboxTypeOK
  <1>7. DeliveredIsReceived'
    BY <1>1, <1>2 DEF OutboxInv, DeliveredIsReceived
  <1> QED
    BY <1>4, <1>5, <1>6, <1>7 DEF OutboxInv

\* A worker moves on with its job: the satellite may have received the event.
LEMMA OutboxMoves ==
  ASSUME OutboxInv, NEW w \in Senders, NEW pc \in OutboxPcs \ {"free"},
         sending[w].pc # "free",
         sending' = [sending EXCEPT ![w].pc = pc],
         pc \in {"post", "skip", "record"} => ~ event[sending[w].event].delivered,
         pc = "skip" => ~ url,
         pc = "record" => sending[w].event \in received',
         received \subseteq received' /\ received' \subseteq Events,
         UNCHANGED <<url, event, adding, job, failed, listed>>, errors' \in Nat
  PROVE  OutboxInv'
  <1>1. OutboxInv
    OBVIOUS
  <1>2. OutboxTypeOK'
    BY <1>1 DEF OutboxInv, OutboxTypeOK, OutboxPcs
  <1>3. \A v \in Senders : /\ sending'[v].event = sending[v].event
                           /\ sending'[v].pc = IF v = w THEN pc ELSE sending[v].pc
    BY <1>1 DEF OutboxInv, OutboxTypeOK
  <1>4. KeptAreFailed' /\ BusyIsActive' /\ DeliverersApart' /\ DelivererKnows'
    BY <1>1, <1>3 DEF OutboxInv, KeptAreFailed, BusyIsActive, DeliverersApart, DelivererKnows
  <1>5. DeliveredIsReceived'
    BY <1>1 DEF OutboxInv, DeliveredIsReceived
  <1> QED
    BY <1>2, <1>4, <1>5 DEF OutboxInv

\* A worker is done with its job, which is removed or waits again.  Its row may
\* have been marked.
LEMMA OutboxEnds ==
  ASSUME OutboxInv, NEW w \in Senders, NEW k \in QueuedJob,
         sending[w].pc # "free",
         sending' = [sending EXCEPT ![w] = Idle],
         job' = [job EXCEPT ![sending[w].event] = k],
         event' \in [Events -> Event],
         \A e \in Events : e # sending[w].event => event'[e] = event[e],
         event'[sending[w].event].delivered =>
           event[sending[w].event].delivered \/ ~ url \/ sending[w].event \in received,
         UNCHANGED <<url, adding, failed, listed, received>>, errors' \in Nat
  PROVE  OutboxInv'
  <1>1. OutboxInv
    OBVIOUS
  <1>2. OutboxTypeOK'
    BY <1>1, OutboxConstants DEF OutboxInv, OutboxTypeOK, OutboxPcs
  <1>3. \A v \in Senders : sending'[v] = IF v = w THEN Idle ELSE sending[v]
    BY <1>1 DEF OutboxInv, OutboxTypeOK
  <1>4. \A v \in Senders : sending'[v].pc # "free" =>
           /\ v # w /\ sending'[v] = sending[v] /\ sending[v].event # sending[w].event
           /\ sending[v].event \in Events
    BY <1>1, <1>3, OutboxConstants DEF OutboxInv, DeliverersApart, OutboxTypeOK
  <1>5. BusyIsActive' /\ DeliverersApart' /\ DelivererKnows'
    BY <1>1, <1>4 DEF OutboxInv, BusyIsActive, DeliverersApart, DelivererKnows, OutboxTypeOK
  <1>6. KeptAreFailed'
    <2>1. job[sending[w].event].state = "active"
      BY <1>1 DEF OutboxInv, BusyIsActive
    <2>2. failed \in Seq(Events)
      BY <1>1 DEF OutboxInv, OutboxTypeOK
    <2>3. \A i \in 1 .. Len(failed) : failed[i] \in Events /\ failed[i] # sending[w].event
      BY <1>1, <2>1, <2>2 DEF OutboxInv, KeptAreFailed
    <2> QED
      BY <1>1, <2>3 DEF OutboxInv, KeptAreFailed, OutboxTypeOK
  <1>7. DeliveredIsReceived'
    BY <1>1 DEF OutboxInv, DeliveredIsReceived
  <1> QED
    BY <1>2, <1>5, <1>6, <1>7 DEF OutboxInv

\* The last attempt of a job fails.  Of too many failed jobs the oldest is forgotten.
LEMMA OutboxFails ==
  ASSUME OutboxInv, NEW w \in Senders,
         sending[w].pc # "free",
         sending' = [sending EXCEPT ![w] = Idle],
         LET e == sending[w].event
             kept == Append(failed, e)
             over == [job EXCEPT ![e] = [state |-> "failed", left |-> 0]]
         IN  \/ Len(kept) <= KeepFailed /\ job' = over /\ failed' = kept
             \/ /\ Len(kept) > KeepFailed
                /\ job' = [over EXCEPT ![Head(kept)] = NotQueued]
                /\ failed' = Tail(kept),
         event' \in [Events -> Event],
         \A e \in Events : event'[e].delivered = event[e].delivered,
         UNCHANGED <<url, adding, listed, received>>, errors' \in Nat
  PROVE  OutboxInv'
  <1> DEFINE e == sending[w].event
             kept == Append(failed, e)
             over == [job EXCEPT ![e] = [state |-> "failed", left |-> 0]]
  <1>1. OutboxInv
    OBVIOUS
  <1>2. e \in Events /\ failed \in Seq(Events) /\ Len(failed) <= KeepFailed /\ KeepFailed \in Nat
    BY <1>1, OutboxConstants DEF OutboxInv, OutboxTypeOK
  <1>3. /\ over \in [Events -> QueuedJob] /\ over[e].state = "failed"
        /\ \A d \in Events : d # e => over[d] = job[d]
    BY <1>1, <1>2 DEF OutboxInv, OutboxTypeOK, QueuedJob
  <1>4. job[e].state = "active"
    BY <1>1 DEF OutboxInv, BusyIsActive
  <1>5. /\ kept \in Seq(Events) /\ Len(kept) = Len(failed) + 1
        /\ \A i \in 1 .. Len(kept) : kept[i] = IF i = Len(kept) THEN e ELSE failed[i]
    BY <1>2
  <1>6. /\ \A i \in 1 .. Len(kept) : kept[i] \in Events /\ over[kept[i]].state = "failed"
        /\ \A i, k \in 1 .. Len(kept) : kept[i] = kept[k] => i = k
    <2>1. \A i \in 1 .. Len(failed) : failed[i] # e /\ failed[i] \in Events
      BY <1>1, <1>2, <1>4 DEF OutboxInv, KeptAreFailed
    <2>2. \A i \in 1 .. Len(failed) : over[failed[i]].state = "failed"
      BY <1>1, <1>3, <2>1 DEF OutboxInv, KeptAreFailed
    <2> QED
      BY <1>1, <1>2, <1>3, <1>5, <2>1, <2>2 DEF OutboxInv, KeptAreFailed
  <1>7. \/ Len(kept) <= KeepFailed /\ job' = over /\ failed' = kept
        \/ /\ Len(kept) > KeepFailed
           /\ job' = [over EXCEPT ![Head(kept)] = NotQueued]
           /\ failed' = Tail(kept)
    OBVIOUS
  <1> HIDE DEF kept, over
  <1>8. /\ job' \in [Events -> QueuedJob] /\ failed' \in Seq(Events)
        /\ Len(failed') <= KeepFailed /\ KeptAreFailed'
        /\ \A d \in Events : job[d].state = "active" /\ d # e => job'[d] = job[d]
    <2>1. CASE job' = over /\ failed' = kept /\ Len(kept) <= KeepFailed
      BY <1>3, <1>5, <1>6, <2>1 DEF KeptAreFailed
    <2>2. CASE /\ Len(kept) > KeepFailed
               /\ job' = [over EXCEPT ![Head(kept)] = NotQueued]
               /\ failed' = Tail(kept)
      <3>1. /\ Head(kept) = kept[1] /\ kept[1] \in Events
            /\ Tail(kept) \in Seq(Events) /\ Len(Tail(kept)) = Len(failed)
            /\ \A i \in 1 .. Len(failed) : Tail(kept)[i] = kept[i + 1]
        BY <1>2, <1>5
      <3>2. job' \in [Events -> QueuedJob]
        BY <1>3, <2>2, <3>1, OutboxConstants
      <3>3. \A d \in Events : d # kept[1] => job'[d] = over[d]
        BY <1>3, <2>2, <3>1
      <3>4. \A i \in 1 .. Len(failed) : /\ kept[i + 1] # kept[1]
                                        /\ kept[i + 1] \in Events
                                        /\ over[kept[i + 1]].state = "failed"
        <4>1. Len(failed) \in Nat
          BY <1>2
        <4>2. \A i \in 1 .. Len(failed) : i + 1 \in 1 .. Len(kept) /\ i + 1 # 1
          BY <1>5, <4>1
        <4>3. 1 \in 1 .. Len(kept)
          BY <1>5, <4>1
        <4> QED
          BY <1>6, <4>2, <4>3
      <3>5. KeptAreFailed'
        BY <1>2, <1>5, <1>6, <2>2, <3>1, <3>3, <3>4 DEF KeptAreFailed
      <3>6. over[kept[1]].state = "failed"
        BY <1>2, <1>5, <1>6
      <3>7. \A d \in Events : job[d].state = "active" /\ d # e => job'[d] = job[d]
        BY <1>3, <3>3, <3>6
      <3> QED
        BY <1>2, <2>2, <3>1, <3>2, <3>5, <3>7
    <2> QED
      BY <1>7, <2>1, <2>2
  <1>9. OutboxTypeOK'
    BY <1>1, <1>8, OutboxConstants DEF OutboxInv, OutboxTypeOK, OutboxPcs
  <1>10. \A v \in Senders : sending'[v] = IF v = w THEN Idle ELSE sending[v]
    BY <1>1 DEF OutboxInv, OutboxTypeOK
  <1>11. \A v \in Senders : sending'[v].pc # "free" =>
            /\ v # w /\ sending'[v] = sending[v] /\ sending[v].event # e
            /\ sending[v].event \in Events
    BY <1>1, <1>10, OutboxConstants DEF OutboxInv, DeliverersApart, OutboxTypeOK
  <1>12. BusyIsActive' /\ DeliverersApart' /\ DelivererKnows'
    BY <1>1, <1>8, <1>11 DEF OutboxInv, BusyIsActive, DeliverersApart, DelivererKnows
  <1>13. DeliveredIsReceived'
    BY <1>1 DEF OutboxInv, DeliveredIsReceived
  <1> QED
    BY <1>8, <1>9, <1>12, <1>13 DEF OutboxInv

\* deliver throws, after the row was counted or not.
LEMMA OutboxThrows ==
  ASSUME OutboxInv, NEW w \in Senders,
         sending[w].pc # "free", Throws(w),
         event' \in [Events -> Event],
         \A e \in Events : /\ event'[e].delivered = event[e].delivered
                           /\ e # sending[w].event => event'[e] = event[e],
         UNCHANGED <<url, adding, listed, received>>, errors' \in Nat
  PROVE  OutboxInv'
  <1> DEFINE e == sending[w].event
             left == job[e].left - 1
  <1>1. e \in Events /\ job[e].left \in Nat
    BY DEF OutboxInv, OutboxTypeOK, QueuedJob
  <1>2. CASE left > 0
    <2>1. /\ job' = [job EXCEPT ![e] = [state |-> "waiting", left |-> left]]
          /\ sending' = [sending EXCEPT ![w] = Idle] /\ UNCHANGED failed
      BY <1>2 DEF Throws
    <2>2. [state |-> "waiting", left |-> left] \in QueuedJob
      BY <1>1, <1>2 DEF QueuedJob
    <2> QED
      BY <1>1, <2>1, <2>2, OutboxEnds
  <1>3. CASE ~ left > 0
    <2>1. /\ sending' = [sending EXCEPT ![w] = Idle]
          /\ LET kept == Append(failed, e)
                 over == [job EXCEPT ![e] = [state |-> "failed", left |-> 0]]
             IN  \/ ~ Len(kept) > KeepFailed /\ job' = over /\ failed' = kept
                 \/ /\ Len(kept) > KeepFailed
                    /\ job' = [over EXCEPT ![Head(kept)] = NotQueued]
                    /\ failed' = Tail(kept)
      BY <1>3 DEF Throws, TooMany
    <2>2. Len(Append(failed, e)) \in Nat /\ KeepFailed \in Nat
      BY <1>1, OutboxConstants DEF OutboxInv, OutboxTypeOK
    <2>3. LET d == sending[w].event
              kept == Append(failed, d)
              over == [job EXCEPT ![d] = [state |-> "failed", left |-> 0]]
          IN  \/ Len(kept) <= KeepFailed /\ job' = over /\ failed' = kept
              \/ /\ Len(kept) > KeepFailed
                 /\ job' = [over EXCEPT ![Head(kept)] = NotQueued]
                 /\ failed' = Tail(kept)
      BY <2>1, <2>2
    <2>4. sending' = [sending EXCEPT ![w] = Idle]
      BY <2>1
    <2> HIDE DEF e, left
    <2> QED
      BY <2>3, <2>4, OutboxFails
  <1> QED
    BY <1>2, <1>3

\* The worker's steps up to the end of its job.
LEMMA OutboxWork ==
  ASSUME OutboxInv, NEW w \in Senders,
         \/ LoadEvent(w) \/ Skip(w) \/ Post(w) \/ Record(w)
         \/ Miss(w) \/ RecordFails(w) \/ DeliverRejects(w) \/ SenderDies(w)
  PROVE  OutboxInv'
  <1> DEFINE e == sending[w].event
  <1>1. OutboxTypeOK /\ sending[w] \in [pc: OutboxPcs, event: Events] /\ e \in Events
        /\ event[e] \in Event /\ errors \in Nat
    BY DEF OutboxInv, OutboxTypeOK, OutboxPcs
  <1>2. sending[w].pc # "free"
    BY DEF LoadEvent, Skip, Post, Record, Miss,
           RecordFails, DeliverRejects, SenderDies
  <1>3. NotQueued \in QueuedJob
    BY OutboxConstants
  <1>4. CASE LoadEvent(w)
    <2>1. UNCHANGED <<url, event, adding, failed, listed, received, errors>>
      BY <1>4 DEF LoadEvent
    <2>2. CASE event[e].delivered
      <3>1. /\ job' = [job EXCEPT ![e] = NotQueued]
            /\ sending' = [sending EXCEPT ![w] = Idle]
        BY <1>4, <2>2 DEF LoadEvent, Route, Finishes
      <3> QED
        BY <1>1, <1>2, <1>3, <2>1, <3>1, OutboxEnds DEF OutboxTypeOK
    <2>3. CASE ~ event[e].delivered
      <3> DEFINE pc == IF url THEN "post" ELSE "skip"
      <3>1. sending' = [sending EXCEPT ![w].pc = pc] /\ UNCHANGED job
        BY <1>4, <2>3 DEF LoadEvent, Route, Turns
      <3>2. /\ pc \in {"post", "skip"} /\ pc \in OutboxPcs \ {"free"}
            /\ pc = "skip" => ~ url
        BY DEF OutboxPcs
      <3> HIDE DEF pc
      <3> QED
        BY <1>1, <1>2, <2>1, <2>3, <3>1, <3>2, OutboxMoves DEF OutboxTypeOK
    <2> QED
      BY <2>2, <2>3
  <1>5. CASE Skip(w) \/ Record(w)
    <2> DEFINE r == IF sending[w].pc = "skip" THEN [event[e] EXCEPT !.delivered = TRUE]
                    ELSE Counted(event[e], TRUE)
    <2>1. /\ job' = [job EXCEPT ![e] = NotQueued]
          /\ sending' = [sending EXCEPT ![w] = Idle]
          /\ UNCHANGED <<url, adding, failed, listed, received, errors>>
          /\ sending[w].pc \in {"skip", "record"}
      BY <1>5 DEF Skip, Record, Finishes
    <2>2. event' = [event EXCEPT ![e] = r]
      BY <1>1, <1>5 DEF Skip, Record, OutboxTypeOK
    <2>3. r \in Event
      <3>1. [event[e] EXCEPT !.delivered = TRUE] \in Event
        BY <1>1 DEF Event
      <3> QED
        BY <1>1, <3>1, CountedOK
    <2>4. ~ url \/ e \in received
      BY <2>1 DEF OutboxInv, DelivererKnows
    <2> HIDE DEF r
    <2>5. event' \in [Events -> Event] /\ \A d \in Events : d # e => event'[d] = event[d]
      BY <1>1, <2>2, <2>3 DEF OutboxTypeOK
    <2> QED
      BY <1>1, <1>2, <1>3, <2>1, <2>4, <2>5, OutboxEnds
  <1>6. CASE Post(w)
    <2>1. /\ UNCHANGED <<url, event, adding, job, failed, listed, errors>>
          /\ received' = received \cup {e} \/ received' = received
          /\ \/ sending' = [sending EXCEPT ![w].pc = "record"] /\ e \in received'
             \/ sending' = [sending EXCEPT ![w].pc = "miss"]
      BY <1>6 DEF Post, Turns
    <2>2. received \subseteq received' /\ received' \subseteq Events
      BY <1>1, <2>1 DEF OutboxTypeOK
    <2>3. ~ event[e].delivered
      BY <1>6 DEF Post, OutboxInv, DelivererKnows
    <2>4. {"record", "miss"} \subseteq OutboxPcs \ {"free"}
      BY DEF OutboxPcs
    <2> QED
      BY <1>1, <1>2, <2>1, <2>2, <2>3, <2>4, OutboxMoves
  <1>7. CASE RecordFails(w)
    <2>1. /\ UNCHANGED <<url, event, adding, job, failed, listed, received>>
          /\ sending' = [sending EXCEPT ![w].pc = "miss"] /\ errors' = errors + 1
      BY <1>7 DEF RecordFails, Turns
    <2>2. "miss" \in OutboxPcs \ {"free"}
      BY DEF OutboxPcs
    <2>3. errors' \in Nat /\ received' \subseteq Events
      BY <1>1, <2>1 DEF OutboxTypeOK
    <2> QED
      BY <1>2, <2>1, <2>2, <2>3, OutboxMoves
  <1>8. CASE Miss(w) \/ DeliverRejects(w)
    <2> DEFINE r == Counted(event[e], FALSE)
    <2>1. /\ Throws(w) /\ errors' \in Nat
          /\ UNCHANGED <<url, adding, listed, received>>
          /\ event' = event \/ event' = [event EXCEPT ![e] = r]
      <3>1. CASE Miss(w)
        <4>1. event' = [event EXCEPT ![e] = r]
          BY <1>1, <3>1 DEF Miss, OutboxTypeOK, Counted
        <4> QED
          BY <1>1, <3>1, <4>1 DEF Miss
      <3>2. CASE DeliverRejects(w)
        BY <1>1, <3>2 DEF DeliverRejects
      <3> QED
        BY <1>8, <3>1, <3>2
    <2>2. r \in Event /\ r.delivered = event[e].delivered
      <3>1. event[e].delivered \in BOOLEAN
        BY <1>1 DEF Event
      <3>2. r \in Event /\ r.delivered = (event[e].delivered \/ FALSE)
        BY <1>1, CountedOK
      <3> QED
        BY <3>1, <3>2, Zenon
    <2> HIDE DEF r
    <2>3. /\ event' \in [Events -> Event]
          /\ \A d \in Events : /\ event'[d].delivered = event[d].delivered
                               /\ d # e => event'[d] = event[d]
      <3>1. event \in [Events -> Event] /\ e \in Events
        BY <1>1 DEF OutboxTypeOK
      <3>2. CASE event' = event
        BY <3>1, <3>2
      <3>3. CASE event' = [event EXCEPT ![e] = r]
        BY <2>2, <3>1, <3>3
      <3> QED
        BY <2>1, <3>2, <3>3
    <2> QED
      BY <1>2, <2>1, <2>3, OutboxThrows
  <1>9. CASE SenderDies(w)
    <2> DEFINE k == [job[e] EXCEPT !.state = "waiting"]
    <2>1. /\ job' = [job EXCEPT ![e] = k] /\ sending' = [sending EXCEPT ![w] = Idle]
          /\ UNCHANGED <<url, event, adding, failed, listed, received>>
          /\ errors' = errors + 1
      BY <1>1, <1>9 DEF SenderDies, OutboxTypeOK
    <2>2. k \in QueuedJob
      BY <1>1 DEF OutboxTypeOK, QueuedJob
    <2> HIDE DEF k
    <2>3. errors' \in Nat /\ event \in [Events -> Event]
      BY <1>1, <2>1 DEF OutboxTypeOK
    <2> QED
      BY <1>2, <2>1, <2>2, <2>3, OutboxEnds
  <1> QED
    BY <1>4, <1>5, <1>6, <1>7, <1>8, <1>9

LEMMA OutboxKeeps ==
  OutboxInv /\ [OutboxNext]_outboxVars => OutboxInv'
  <1> SUFFICES ASSUME OutboxInv, [OutboxNext]_outboxVars PROVE OutboxInv'
    OBVIOUS
  <1>1. OutboxTypeOK
    BY DEF OutboxInv
  <1>2. ASSUME NEW e \in Events, Save(e) PROVE OutboxInv'
    <2> DEFINE r == [event[e] EXCEPT !.saved = TRUE]
    <2>1. /\ event' = [event EXCEPT ![e] = r] /\ adding' = adding \cup {e}
          /\ UNCHANGED <<url, job, failed, sending, listed, received, errors>>
      BY <1>1, <1>2 DEF Save, OutboxTypeOK
    <2>2. r \in Event /\ r.delivered = event[e].delivered
      BY <1>1 DEF OutboxTypeOK, Event
    <2> HIDE DEF r
    <2> QED
      BY <1>1, <2>1, <2>2, OutboxRows DEF OutboxTypeOK
  <1>3. ASSUME NEW e \in Events, AddJob(e) \/ Requeue(e) PROVE OutboxInv'
    BY <1>1, <1>3, OutboxAdds, OutboxConstants DEF AddJob, Requeue, OutboxTypeOK
  <1>4. ASSUME NEW e \in Events, AddJobFails(e) PROVE OutboxInv'
    BY <1>1, <1>4, OutboxRows DEF AddJobFails, OutboxTypeOK
  <1>5. ASSUME NEW w \in Senders, Deliver(w) PROVE OutboxInv'
    BY <1>5, OutboxTake, OutboxWork DEF Deliver
  <1>6. CASE Hourly
    <2>1. ASSUME NEW E \in SUBSET Events, List(E) PROVE OutboxInv'
      BY <1>1, <2>1, OutboxRows DEF List, OutboxTypeOK
    <2> QED
      BY <1>3, <1>6, <2>1 DEF Hourly
  <1>7. CASE RequeueFails
    BY <1>1, <1>7, OutboxRows DEF RequeueFails, OutboxTypeOK
  <1>8. CASE AnHourPasses
    <2>1. \A e \in Events : [event[e] EXCEPT !.recent = FALSE] \in Event
                            /\ [event[e] EXCEPT !.recent = FALSE].delivered = event[e].delivered
      BY <1>1 DEF OutboxTypeOK, Event
    <2> QED
      BY <1>1, <1>8, <2>1, OutboxRows DEF AnHourPasses, OutboxTypeOK
  <1>9. CASE UNCHANGED outboxVars
    BY <1>9 DEF outboxVars, OutboxInv, OutboxTypeOK, KeptAreFailed, BusyIsActive,
       DeliverersApart, DelivererKnows, DeliveredIsReceived
  <1> QED
    BY <1>2, <1>3, <1>4, <1>5, <1>6, <1>7, <1>8, <1>9, OutboxWork DEF OutboxNext

\* The outbox keeps its invariant.
LEMMA OutboxHolds == OutboxSpec => []OutboxInv
  <1>1. OutboxInit => OutboxInv
    BY OutboxStarts
  <1> QED
    BY <1>1, OutboxKeeps, PTL DEF OutboxSpec

\* The variables of the outbox keep their types, and the queue keeps no more failed
\* jobs than it may.
THEOREM OutboxTypes == OutboxSpec => []OutboxTypeOK
  <1>1. OutboxInv => OutboxTypeOK
    BY DEF OutboxInv
  <1> QED
    BY <1>1, OutboxHolds, PTL

\* What is marked as delivered has been received, or there is nobody to receive it.
THEOREM DeliveredWasReceived == OutboxSpec => []DeliveredIsReceived
  <1>1. OutboxInv => DeliveredIsReceived
    BY DEF OutboxInv
  <1> QED
    BY <1>1, OutboxHolds, PTL

\* No event that is marked as delivered is posted again, by any worker, whatever
\* dispatch and the hourly job add meanwhile.
THEOREM DeliveredStaysSilent == OutboxSpec => DeliveredIsSilent
  <1> DEFINE Silent == \A w \in Senders :
               sending[w].pc = "post" /\ sending'[w].pc \in {"record", "miss"}
                 => ~ event[sending[w].event].delivered
  <1>1. OutboxInv /\ [OutboxNext]_outboxVars => [Silent]_outboxVars
    BY DEF OutboxInv, DelivererKnows
  <1> QED
    BY <1>1, OutboxHolds, PTL DEF OutboxSpec, DeliveredIsSilent
-----------------------------------------------------------------------------
(* The outbox, seen as Delivery.                                           *)

\* What the queue knows, and what is on its way to the queue, was saved.
QueuedIsSaved ==
  \A e \in Events : e \in adding \/ e \in listed \/ job[e].state # "none" => event[e].saved

\* Only an event with somewhere to go is posted.
PostsReach == \A w \in Senders : sending[w].pc \in {"post", "record"} => url

FlowInv == OutboxInv /\ QueuedIsSaved /\ PostsReach

\* One row changes: what that makes of the saved and of the delivered.
LEMMA RowChanges ==
  ASSUME OutboxInv, NEW e \in Events, NEW r \in Event,
         event' = [event EXCEPT ![e] = r]
  PROVE  /\ r.saved = event[e].saved => SavedEvents' = SavedEvents
         /\ r.saved => SavedEvents' \subseteq SavedEvents \cup {e}
                       /\ SavedEvents \cup {e} \subseteq SavedEvents'
         /\ r.delivered = event[e].delivered => DeliveredEvents' = DeliveredEvents
         /\ r.delivered => DeliveredEvents' = DeliveredEvents \cup {e}
  <1>1. /\ event \in [Events -> Event] /\ event'[e] = r
        /\ \A d \in Events : d # e => event'[d] = event[d]
    BY DEF OutboxInv, OutboxTypeOK
  <1> QED
    BY <1>1 DEF SavedEvents, DeliveredEvents

\* A busy worker's event was saved.
LEMMA BusyIsSaved ==
  ASSUME FlowInv, NEW w \in Senders, sending[w].pc # "free"
  PROVE  /\ sending[w].event \in Events /\ event[sending[w].event] \in Event
         /\ sending[w].event \in SavedEvents
  <1>1. sending[w].event \in Events /\ event[sending[w].event] \in Event
    BY DEF FlowInv, OutboxInv, OutboxTypeOK
  <1>2. job[sending[w].event].state = "active"
    BY DEF FlowInv, OutboxInv, BusyIsActive
  <1> QED
    BY <1>1, <1>2 DEF FlowInv, QueuedIsSaved, SavedEvents

\* What a worker records: the event is delivered, or nothing but its tries changes.
LEMMA RecordsRow ==
  ASSUME FlowInv, NEW w \in Senders, Skip(w) \/ Record(w) \/ Miss(w)
  PROVE  /\ SavedEvents' = SavedEvents
         /\ UNCHANGED <<url, received>>
         /\ ~ Miss(w) => DL!Deliver(sending[w].event)
         /\ Miss(w) => DeliveredEvents' = DeliveredEvents
  <1> DEFINE e == sending[w].event
             skipped == [event[e] EXCEPT !.delivered = TRUE]
  <1>1. sending[w].pc # "free" /\ UNCHANGED <<url, received>> /\ OutboxInv
    BY DEF Skip, Record, Miss, FlowInv
  <1>2. e \in Events /\ event[e] \in Event /\ e \in SavedEvents
    BY <1>1, BusyIsSaved
  <1>3. skipped \in Event /\ skipped.delivered /\ skipped.saved = event[e].saved
    BY <1>2 DEF Event
  <1>4. event \in [Events -> Event]
    BY <1>1 DEF OutboxInv, OutboxTypeOK
  <1>5. ASSUME NEW r \in Event, event' = [event EXCEPT ![e] = r], r.saved = event[e].saved,
               r.delivered, sending[w].pc \in {"skip", "record"}
        PROVE  SavedEvents' = SavedEvents /\ DL!Deliver(e)
    <2>1. SavedEvents' = SavedEvents /\ DeliveredEvents' = DeliveredEvents \cup {e}
      BY <1>1, <1>2, <1>5, RowChanges
    <2>2. e \notin DeliveredEvents /\ (url => e \in received)
      BY <1>1, <1>5 DEF OutboxInv, DelivererKnows, DeliveredEvents
    <2> QED
      BY <1>1, <1>2, <2>1, <2>2 DEF DL!Deliver
  <1>6. CASE Skip(w)
    <2>1. event' = [event EXCEPT ![e] = skipped] /\ sending[w].pc = "skip"
      BY <1>4, <1>6 DEF Skip
    <2>2. ~ Miss(w)
      BY <2>1 DEF Miss
    <2> HIDE DEF skipped
    <2> QED
      BY <1>1, <1>3, <1>5, <2>1, <2>2
  <1>7. CASE Record(w)
    <2> DEFINE r == Counted(event[e], TRUE)
    <2>1. event' = [event EXCEPT ![e] = r] /\ sending[w].pc = "record"
      BY <1>2, <1>4, <1>7 DEF Record
    <2>2. r \in Event /\ r.delivered = (event[e].delivered \/ TRUE) /\ r.saved = event[e].saved
      BY <1>2, CountedOK
    <2>3. ~ Miss(w)
      BY <2>1 DEF Miss
    <2> HIDE DEF r
    <2> QED
      BY <1>1, <1>5, <2>1, <2>2, <2>3
  <1>8. CASE Miss(w)
    <2> DEFINE r == Counted(event[e], FALSE)
    <2>1. event' = [event EXCEPT ![e] = r]
      BY <1>2, <1>4, <1>8 DEF Miss
    <2>2. r \in Event /\ r.delivered = (event[e].delivered \/ FALSE) /\ r.saved = event[e].saved
      BY <1>2, CountedOK
    <2>3. event[e].delivered \in BOOLEAN
      BY <1>2 DEF Event
    <2> HIDE DEF r
    <2>4. r.delivered = event[e].delivered
      BY <2>2, <2>3, Zenon
    <2> QED
      BY <1>1, <1>2, <1>8, <2>1, <2>2, <2>4, RowChanges
  <1> QED
    BY <1>6, <1>7, <1>8

\* In every step an event is saved, received or delivered as Delivery has it, or none is.
LEMMA StepDL ==
  FlowInv /\ [OutboxNext]_outboxVars
    => [DL!Next]_<<url, SavedEvents, received, DeliveredEvents>>
  <1> SUFFICES ASSUME FlowInv, [OutboxNext]_outboxVars
               PROVE  \/ \E e \in Events : DL!Save(e) \/ DL!Receive(e) \/ DL!Deliver(e)
                      \/ UNCHANGED <<url, SavedEvents, received, DeliveredEvents>>
    BY DEF DL!Next
  <1>1. OutboxInv /\ OutboxTypeOK
    BY DEF FlowInv, OutboxInv
  <1>2. CASE UNCHANGED <<url, event, received>>
    BY <1>2 DEF SavedEvents, DeliveredEvents
  <1>3. ASSUME NEW e \in Events, Save(e)
        PROVE  DL!Save(e)
    <2> DEFINE r == [event[e] EXCEPT !.saved = TRUE]
    <2>1. event' = [event EXCEPT ![e] = r] /\ UNCHANGED <<url, received>>
      BY <1>1, <1>3 DEF Save, OutboxTypeOK
    <2>2. r \in Event /\ r.saved /\ r.delivered = event[e].delivered
      BY <1>1 DEF OutboxTypeOK, Event
    <2> HIDE DEF r
    <2>3. SavedEvents' = SavedEvents \cup {e} /\ DeliveredEvents' = DeliveredEvents
      BY <1>1, <2>1, <2>2, RowChanges
    <2> QED
      BY <2>1, <2>3 DEF DL!Save
  <1>4. ASSUME NEW w \in Senders, Post(w)
        PROVE  DL!Receive(sending[w].event) \/ UNCHANGED <<url, event, received>>
    <2>1. /\ UNCHANGED <<url, event>> /\ sending[w].pc = "post"
          /\ received' = received \cup {sending[w].event} \/ received' = received
      BY <1>4 DEF Post
    <2>2. sending[w].event \in SavedEvents /\ sending[w].event \in Events
      BY <2>1, BusyIsSaved
    <2>3. url /\ sending[w].event \notin DeliveredEvents
      BY <1>1, <2>1 DEF FlowInv, PostsReach, OutboxInv, DelivererKnows, DeliveredEvents
    <2>4. UNCHANGED <<SavedEvents, DeliveredEvents>>
      BY <2>1 DEF SavedEvents, DeliveredEvents
    <2> QED
      BY <2>1, <2>2, <2>3, <2>4 DEF DL!Receive
  <1>5. CASE AnHourPasses
    <2>1. /\ UNCHANGED <<url, received>>
          /\ \A e \in Events : event'[e] = [event[e] EXCEPT !.recent = FALSE]
          /\ \A e \in Events : event[e] \in Event
      BY <1>1, <1>5 DEF AnHourPasses, OutboxTypeOK
    <2>2. \A e \in Events : /\ event'[e].saved = event[e].saved
                            /\ event'[e].delivered = event[e].delivered
      BY <2>1 DEF Event
    <2> QED
      BY <2>1, <2>2 DEF SavedEvents, DeliveredEvents
  <1>6. ASSUME NEW w \in Senders, Deliver(w)
        PROVE  \/ \E e \in Events : DL!Receive(e) \/ DL!Deliver(e)
               \/ UNCHANGED <<url, SavedEvents, received, DeliveredEvents>>
    <2>1. CASE (\E e \in Events : TakeEvent(w, e)) \/ LoadEvent(w)
      BY <1>2, <2>1 DEF TakeEvent, LoadEvent, SavedEvents, DeliveredEvents
    <2>2. CASE Skip(w) \/ Record(w) \/ Miss(w)
      <3>1. sending[w].event \in Events
        BY <1>1 DEF OutboxTypeOK
      <3> QED
        BY <2>2, <3>1, RecordsRow
    <2>3. CASE Post(w)
      <3>1. sending[w].event \in Events
        BY <1>1 DEF OutboxTypeOK
      <3> QED
        BY <1>4, <2>3, <3>1 DEF SavedEvents, DeliveredEvents
    <2> QED
      BY <1>6, <2>1, <2>2, <2>3 DEF Deliver
  <1>7. CASE \E w \in Senders : RecordFails(w) \/ DeliverRejects(w) \/ SenderDies(w)
    BY <1>2, <1>7 DEF RecordFails, DeliverRejects, SenderDies
  <1>8. CASE \/ \E e \in Events : AddJob(e) \/ AddJobFails(e)
             \/ Hourly \/ RequeueFails
    BY <1>2, <1>8 DEF AddJob, AddJobFails, Hourly, List, Requeue, RequeueFails
  <1>9. CASE UNCHANGED outboxVars
    BY <1>2, <1>9 DEF outboxVars
  <1> QED
    BY <1>3, <1>5, <1>6, <1>7, <1>8, <1>9 DEF OutboxNext

\* The queue comes to know only what dispatch and the hourly job hand to it.
LEMMA QueueLearns ==
  ASSUME FlowInv, [OutboxNext]_outboxVars, NEW e \in Events,
         e \in adding' \/ e \in listed' \/ job'[e].state # "none"
  PROVE  e \in SavedEvents \/ Save(e)
  <1>1. /\ OutboxInv /\ OutboxTypeOK
        /\ e \in adding \/ e \in listed \/ job[e].state # "none" => e \in SavedEvents
    BY DEF FlowInv, OutboxInv, QueuedIsSaved, SavedEvents
  <1>2. NotQueued.state = "none"
    BY OutboxConstants
  <1>3. CASE UNCHANGED <<adding, listed, job>>
    BY <1>1, <1>3
  <1>4. ASSUME NEW d \in Events, Save(d) \/ AddJob(d) \/ AddJobFails(d) \/ Requeue(d)
        PROVE  e \in SavedEvents \/ Save(e)
    <2>1. /\ adding' \subseteq adding \/ (Save(d) /\ adding' = adding \cup {d})
          /\ listed' \subseteq listed
          /\ job' = job \/ (d \in adding \cup listed /\ \E n \in Nat : job' = Added(d, n))
      BY <1>4, OutboxConstants DEF Save, AddJob, AddJobFails, Requeue
    <2>2. \A n \in Nat : job' = Added(d, n) => job'[e] = job[e] \/ e = d
      BY <1>1 DEF Added, OutboxTypeOK
    <2> QED
      BY <1>1, <2>1, <2>2
  <1>5. ASSUME NEW w \in Senders, Throws(w), UNCHANGED <<adding, listed>>,
               sending[w].pc # "free"
        PROVE  e \in SavedEvents
    <2> DEFINE f == sending[w].event
               over == [job EXCEPT ![f] = [state |-> "failed", left |-> 0]]
    <2>1. f \in SavedEvents
      BY <1>5, BusyIsSaved
    <2>2. CASE e = f
      BY <2>1, <2>2
    <2>3. CASE e # f
      <3>1. job'[e] = job[e] \/ job'[e] = NotQueued
        <4>1. \/ \E j : job' = [job EXCEPT ![f] = j]
              \/ \E d : job' = [over EXCEPT ![d] = NotQueued]
          BY <1>5, Zenon DEF Throws
        <4>2. job \in [Events -> QueuedJob]
          BY <1>1 DEF OutboxTypeOK
        <4> QED
          BY <2>3, <4>1, <4>2
      <3> QED
        BY <1>1, <1>2, <1>5, <3>1
    <2> QED
      BY <2>2, <2>3
  <1>6. ASSUME NEW w \in Senders, NEW j, UNCHANGED <<adding, listed>>,
               job' = [job EXCEPT ![sending[w].event] = j], sending[w].pc # "free"
        PROVE  e \in SavedEvents
    <2>1. sending[w].event \in SavedEvents
      BY <1>6, BusyIsSaved
    <2>2. e # sending[w].event => job'[e] = job[e]
      BY <1>1, <1>6 DEF OutboxTypeOK
    <2> QED
      BY <1>1, <1>6, <2>1, <2>2
  <1>7. ASSUME NEW w \in Senders, Deliver(w)
        PROVE  e \in SavedEvents
    <2>1. ASSUME NEW d \in Events, TakeEvent(w, d)
          PROVE  e \in SavedEvents
      <3>1. /\ UNCHANGED <<adding, listed>> /\ job[d].state = "waiting"
            /\ \A c \in Events : c # d => job'[c] = job[c]
        BY <1>1, <2>1 DEF TakeEvent, OutboxTypeOK
      <3> QED
        BY <1>1, <3>1
    <2>2. CASE LoadEvent(w) \/ Skip(w) \/ Record(w)
      <3>1. /\ UNCHANGED <<adding, listed>> /\ sending[w].pc # "free"
            /\ job' = job \/ job' = [job EXCEPT ![sending[w].event] = NotQueued]
        BY <2>2 DEF LoadEvent, Skip, Record, Finishes
      <3>2. CASE job' = job
        <4>1. UNCHANGED <<adding, listed, job>>
          BY <3>1, <3>2
        <4> QED
          BY <1>1, <4>1
      <3>3. CASE job' = [job EXCEPT ![sending[w].event] = NotQueued]
        BY <1>6, <3>1, <3>3, Zenon
      <3> QED
        BY <3>1, <3>2, <3>3
    <2>3. CASE Post(w)
      BY <1>1, <2>3 DEF Post
    <2>4. CASE Miss(w)
      BY <1>5, <2>4 DEF Miss
    <2> QED
      BY <1>7, <2>1, <2>2, <2>3, <2>4 DEF Deliver
  <1>8. ASSUME NEW w \in Senders, RecordFails(w) \/ DeliverRejects(w) \/ SenderDies(w)
        PROVE  e \in SavedEvents
    <2>1. CASE RecordFails(w)
      BY <1>1, <2>1 DEF RecordFails
    <2>2. CASE DeliverRejects(w)
      BY <1>5, <2>2 DEF DeliverRejects
    <2>3. CASE SenderDies(w)
      <3> DEFINE k == [job[sending[w].event] EXCEPT !.state = "waiting"]
      <3>1. /\ UNCHANGED <<adding, listed>> /\ sending[w].pc # "free"
            /\ job' = [job EXCEPT ![sending[w].event] = k]
        BY <1>1, <2>3 DEF SenderDies, OutboxTypeOK
      <3> HIDE DEF k
      <3> QED
        BY <1>6, <3>1, Zenon
    <2> QED
      BY <1>8, <2>1, <2>2, <2>3
  <1>9. CASE Hourly \/ RequeueFails \/ AnHourPasses
    <2>1. CASE \E E \in SUBSET Events : List(E)
      BY <1>1, <2>1 DEF List, Due, SavedEvents
    <2>2. CASE \E d \in Events : Requeue(d)
      BY <1>4, <2>2
    <2>3. CASE RequeueFails \/ AnHourPasses
      BY <1>1, <2>3 DEF RequeueFails, AnHourPasses
    <2> QED
      BY <1>9, <2>1, <2>2, <2>3 DEF Hourly
  <1>10. CASE UNCHANGED outboxVars
    BY <1>3, <1>10 DEF outboxVars
  <1> QED
    BY <1>4, <1>7, <1>8, <1>9, <1>10 DEF OutboxNext

\* A worker turns to posting only where the product has a webhook_url, which
\* does not change.
LEMMA PostsStill ==
  ASSUME FlowInv, [OutboxNext]_outboxVars
  PROVE  PostsReach'
  <1>1. OutboxTypeOK /\ PostsReach /\ Idle.pc = "free"
    BY OutboxConstants DEF FlowInv, OutboxInv
  <1>2. url' = url
    BY DEF OutboxNext, Save, AddJob, AddJobFails, Deliver, TakeEvent, LoadEvent, Skip, Post,
           Record, Miss, RecordFails, DeliverRejects, SenderDies, Hourly, List, Requeue,
           RequeueFails, AnHourPasses, outboxVars
  <1>3. CASE UNCHANGED sending
    BY <1>1, <1>2, <1>3 DEF PostsReach
  <1>4. ASSUME NEW w \in Senders, NEW s, sending' = [sending EXCEPT ![w] = s],
               s.pc \in {"post", "record"} => url
        PROVE  PostsReach'
    <2>1. \A v \in Senders : sending'[v] = IF v = w THEN s ELSE sending[v]
      BY <1>1, <1>4 DEF OutboxTypeOK
    <2> QED
      BY <1>1, <1>2, <1>4, <2>1 DEF PostsReach
  <1>5. ASSUME NEW w \in Senders, NEW pc, Turns(w, pc), pc \in {"post", "record"} => url
        PROVE  PostsReach'
    <2> DEFINE s == [sending[w] EXCEPT !.pc = pc]
    <2>1. sending' = [sending EXCEPT ![w] = s] /\ s.pc = pc
      BY <1>1, <1>5 DEF Turns, OutboxTypeOK
    <2> HIDE DEF s
    <2> QED
      BY <1>4, <1>5, <2>1
  <1>6. ASSUME NEW w \in Senders, Deliver(w)
        PROVE  PostsReach'
    <2>1. ASSUME NEW e \in Events, TakeEvent(w, e)
          PROVE  PostsReach'
      <3> DEFINE s == [pc |-> "load", event |-> e]
      <3>1. sending' = [sending EXCEPT ![w] = s] /\ s.pc = "load"
        BY <2>1 DEF TakeEvent
      <3> HIDE DEF s
      <3> QED
        BY <1>4, <3>1
    <2>2. CASE LoadEvent(w)
      <3>1. \/ sending' = [sending EXCEPT ![w] = Idle]
            \/ Turns(w, Route(sending[w].event))
        BY <2>2 DEF LoadEvent, Finishes
      <3>2. Route(sending[w].event) \in {"post", "record"} => url
        BY DEF Route
      <3> QED
        BY <1>1, <1>4, <1>5, <3>1, <3>2
    <2>3. CASE Skip(w) \/ Record(w) \/ Miss(w)
      <3>1. sending' = [sending EXCEPT ![w] = Idle]
        BY <2>3 DEF Skip, Record, Miss, Finishes, Throws
      <3> QED
        BY <1>1, <1>4, <3>1
    <2>4. CASE Post(w)
      <3>1. url
        BY <1>1, <2>4 DEF Post, PostsReach
      <3>2. Turns(w, "record") \/ Turns(w, "miss")
        BY <2>4 DEF Post
      <3> QED
        BY <1>5, <3>1, <3>2
    <2> QED
      BY <1>6, <2>1, <2>2, <2>3, <2>4 DEF Deliver
  <1>7. ASSUME NEW w \in Senders, RecordFails(w) \/ DeliverRejects(w) \/ SenderDies(w)
        PROVE  PostsReach'
    <2>1. Turns(w, "miss") \/ sending' = [sending EXCEPT ![w] = Idle]
      BY <1>7 DEF RecordFails, DeliverRejects, SenderDies, Throws
    <2> QED
      BY <1>1, <1>4, <1>5, <2>1
  <1>8. CASE \/ \E e \in Events : Save(e) \/ AddJob(e) \/ AddJobFails(e)
             \/ Hourly \/ RequeueFails \/ AnHourPasses
    BY <1>3, <1>8 DEF Save, AddJob, AddJobFails, Hourly, List, Requeue, RequeueFails,
                      AnHourPasses
  <1>9. CASE UNCHANGED outboxVars
    BY <1>3, <1>9 DEF outboxVars
  <1> QED
    BY <1>6, <1>7, <1>8, <1>9 DEF OutboxNext

LEMMA FlowKeeps ==
  FlowInv /\ [OutboxNext]_outboxVars => FlowInv'
  <1> SUFFICES ASSUME FlowInv, [OutboxNext]_outboxVars
               PROVE  FlowInv'
    OBVIOUS
  <1>1. OutboxInv'
    BY OutboxKeeps DEF FlowInv
  <1>2. SavedEvents \subseteq SavedEvents'
    <2>1. [DL!Next]_<<url, SavedEvents, received, DeliveredEvents>>
      BY StepDL
    <2> QED
      BY <2>1 DEF DL!Next, DL!Save, DL!Receive, DL!Deliver
  <1>3. ASSUME NEW e \in Events, Save(e)
        PROVE  event'[e].saved
    BY <1>3 DEF Save, FlowInv, OutboxInv, OutboxTypeOK, Event
  <1>4. QueuedIsSaved'
    <2> SUFFICES ASSUME NEW e \in Events,
                        e \in adding' \/ e \in listed' \/ job'[e].state # "none"
                 PROVE  event'[e].saved
      BY DEF QueuedIsSaved
    <2>1. e \in SavedEvents \/ Save(e)
      BY QueueLearns
    <2> QED
      BY <1>2, <1>3, <2>1 DEF SavedEvents
  <1> QED
    BY <1>1, <1>4, PostsStill DEF FlowInv

\* The outbox does for each event what Delivery asks for.
THEOREM OutboxDelivers == OutboxSpec => ImplementsDelivery
  <1>1. OutboxInit => FlowInv /\ DL!Init
    <2> SUFFICES ASSUME OutboxInit
                 PROVE  FlowInv /\ DL!Init
      OBVIOUS
    <2>1. QueuedIsSaved /\ PostsReach
      BY OutboxConstants DEF OutboxInit, QueuedIsSaved, PostsReach
    <2>2. SavedEvents = {} /\ DeliveredEvents = {}
      BY DEF OutboxInit, SavedEvents, DeliveredEvents, NoEvent
    <2> QED
      BY <2>1, <2>2, OutboxStarts DEF OutboxInit, FlowInv, DL!Init
  <1>2. OutboxSpec => []FlowInv
    BY <1>1, FlowKeeps, PTL DEF OutboxSpec
  <1> QED
    BY <1>1, <1>2, StepDL, PTL DEF OutboxSpec, DL!Spec, ImplementsDelivery
================================================================================
