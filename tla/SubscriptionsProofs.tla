------------------------- MODULE SubscriptionsProofs -------------------------
(***************************************************************************)
(* Proofs about Subscriptions, for any number of checkouts, administrators *)
(* and cycles.  What concerns the links to the gateway needs one worker and *)
(* fewer failures than attempts.                                           *)
(***************************************************************************)
EXTENDS Subscriptions, TLAPS

Pcs == {"free", "replace", "link", "activate", "emit", "overdue", "cancel", "done"}
Worker   == [pc: Pcs, before: Externals \cup {NoExt}, inForce: BOOLEAN, job: Job]
Admin    == [pc: {"idle", "gateway", "cancel", "revoke", "over"},
             immediate: BOOLEAN, ext: Externals \cup {NoExt}]
External == [state: {"none", "open", "live", "ended"}, until: Nat]

\* The type invariant by its parts, ...
TypeParts ==
  /\ sub \in Sub
  /\ licence \in [live: BOOLEAN, until: Nat]
  /\ remote \in [Externals -> External]
  /\ jobs \subseteq Job
  /\ work \in [Workers -> Worker]
  /\ admin \in [Admins -> Admin]
  /\ now \in Nat
  /\ overlapped \in BOOLEAN /\ cut \in BOOLEAN
  /\ loose \subseteq Externals
  /\ lost \in [Kinds -> SUBSET Externals]
  /\ failures \in Nat

LEMMA Types == TypeOK <=> TypeParts
  BY DEF TypeOK, TypeParts, Worker, Pcs, Admin, External

\* There is something to cancel where the link is to replace it.
ReplacesExt == \A w \in Workers : work[w].pc = "replace" => work[w].before # NoExt

\* A job that is tried again has a smaller number of attempts left, and one at
\* least.
LEMMA AgainOK ==
  ASSUME NEW queue \in SUBSET Job, NEW j \in Job
  PROVE  /\ Again(queue, j) \subseteq Job
         /\ \A i \in Again(queue, j) : i \in queue \/ (/\ i.kind = j.kind /\ i.ext = j.ext
                                                       /\ i.left = j.left - 1)
  <1>1. CASE j.left > 1
    <2>1. [j EXCEPT !.left = @ - 1] \in Job
      BY <1>1, SubscriptionsAssumption DEF Job
    <2>2. /\ [j EXCEPT !.left = @ - 1].kind = j.kind
          /\ [j EXCEPT !.left = @ - 1].ext = j.ext
          /\ [j EXCEPT !.left = @ - 1].left = j.left - 1
      BY DEF Job
    <2> QED
      BY <1>1, <2>1, <2>2 DEF Again
  <1>2. CASE ~ (j.left > 1)
    BY <1>2 DEF Again
  <1> QED
    BY <1>1, <1>2

\* Free is a worker's state, and its job is no link and no end.
LEMMA FreeOK == Free \in Worker /\ Free.job \in Job /\ Free.job.kind = "paid"
  <1>1. (CHOOSE x \in Externals : TRUE) \in Externals
    BY SubscriptionsAssumption
  <1> QED
    BY <1>1, SubscriptionsAssumption DEF Free, At, Worker, Pcs, Job, Kinds

\* What the gateway says of an external that is cancelled.
LEMMA CancelledOK ==
  ASSUME TypeOK, NEW x \in Externals \cup {NoExt}, Cancelled(x)
  PROVE  /\ remote' \in [Externals -> External]
         /\ jobs' \subseteq Job
  <1>1. CASE x # NoExt /\ remote[x].state = "live"
    <2>1. remote' = [remote EXCEPT ![x].state = "ended"] /\ x \in Externals
      BY <1>1 DEF Cancelled
    <2>2. remote[x] \in External
      BY <2>1, Types DEF TypeParts
    <2>3. [remote[x] EXCEPT !.state = "ended"] \in External
      BY <2>2 DEF External
    <2>4. jobs' = jobs \cup {[kind |-> "deleted", ext |-> x, left |-> Attempts]}
      BY <1>1 DEF Cancelled, Says
    <2>5. [kind |-> "deleted", ext |-> x, left |-> Attempts] \in Job
      BY <2>1, SubscriptionsAssumption DEF Job, Kinds
    <2> QED
      BY <2>1, <2>3, <2>4, <2>5, Types DEF TypeParts
  <1>2. CASE ~ (x # NoExt /\ remote[x].state = "live")
    BY <1>2, Types DEF Cancelled, TypeParts
  <1> QED
    BY <1>1, <1>2

\* The event a gateway sends is a job.
LEMMA JobOK ==
  ASSUME NEW kind \in Kinds, NEW x \in Externals
  PROVE  [kind |-> kind, ext |-> x, left |-> Attempts] \in Job
  BY SubscriptionsAssumption DEF Job, Kinds

LEMMA InitTypeOK == Init => TypeOK
  <1> SUFFICES ASSUME Init PROVE TypeOK
    OBVIOUS
  <1>1. work \in [Workers -> Worker]
    BY FreeOK DEF Init
  <1>2. admin \in [Admins -> Admin]
    BY DEF Init, Idle, Admin
  <1>3. sub \in Sub /\ remote \in [Externals -> External]
    BY DEF Init, Sub, External
  <1> QED
    BY <1>1, <1>2, <1>3, Types DEF Init, TypeParts

\* The type invariant is inductive by itself.
LEMMA NextTypeOK == TypeOK /\ ReplacesExt /\ [Next]_vars => TypeOK'
  <1> SUFFICES ASSUME TypeParts, ReplacesExt, [Next]_vars PROVE TypeParts'
    BY Types, PTL
  <1> USE DEF TypeParts
  <1>1. ASSUME NEW x \in Externals, Checkout(x) PROVE TypeParts'
    BY <1>1 DEF Checkout, External
  <1>2. ASSUME NEW x \in Externals, Completes(x) PROVE TypeParts'
    <2>1. jobs' \subseteq Job
      BY <1>2, JobOK DEF Completes, Kinds
    <2>2. remote' \in [Externals -> External]
      BY <1>2 DEF Completes, External
    <2> QED
      BY <1>2, <2>1, <2>2 DEF Completes
  <1>3. ASSUME NEW x \in Externals, Renews(x) PROVE TypeParts'
    <2>1. jobs' \subseteq Job
      BY <1>3, JobOK DEF Renews, Says, Kinds
    <2>2. remote' \in [Externals -> External]
      BY <1>3 DEF Renews, External
    <2> QED
      BY <1>3, <2>1, <2>2 DEF Renews
  <1>4. ASSUME NEW x \in Externals, Declines(x) PROVE TypeParts'
    <2>1. jobs' \subseteq Job
      BY <1>4, JobOK DEF Declines, Says, Kinds
    <2> QED
      BY <1>4, <2>1 DEF Declines
  <1>5. ASSUME NEW x \in Externals, Ends(x) PROVE TypeParts'
    BY <1>5, CancelledOK, Types DEF Ends
  <1>6. CASE Tick
    BY <1>6 DEF Tick
  <1>7. ASSUME NEW w \in Workers, NEW j \in jobs, TakeLinked(w, j) PROVE TypeParts'
    <2>1. [pc |-> NextToLink(j.ext), before |-> sub.ext, inForce |-> InForce, job |-> j] \in Worker
      BY DEF Worker, Pcs, NextToLink, InForce, Sub
    <2>2. overlapped' \in BOOLEAN
      BY <1>7 DEF TakeLinked
    <2> QED
      BY <1>7, <2>1, <2>2 DEF TakeLinked
  <1>8. ASSUME NEW w \in Workers, NEW j \in jobs, Take(w, j) PROVE TypeParts'
    <2>1. CASE sub.ext = j.ext /\ work' = [work EXCEPT ![w] = At(Found[j.kind], j)]
               /\ jobs' = jobs \ {j} /\ overlapped' = (overlapped \/ Overlaps)
      <3>1. Found[j.kind] \in Pcs
        BY <1>8 DEF Take, Job, Kinds, Found, Pcs
      <3>2. At(Found[j.kind], j) \in Worker
        BY <3>1 DEF At, Worker
      <3> QED
        BY <1>8, <2>1, <3>2 DEF Take
    <2>2. CASE /\ jobs' = IF j.kind = "deleted" THEN jobs \ {j} ELSE Again(jobs \ {j}, j)
               /\ UNCHANGED <<work, overlapped>>
      <3>1. jobs' \subseteq Job
        BY <2>2, AgainOK
      <3> QED
        BY <1>8, <2>2, <3>1 DEF Take
    <2> QED
      BY <1>8, <2>1, <2>2 DEF Take
  <1>9. ASSUME NEW w \in Workers, Replace(w) PROVE TypeParts'
    <2>1. work' \in [Workers -> Worker]
      BY <1>9 DEF Replace, Goes, Worker, Pcs
    <2>2. work[w].before \in Externals \cup {NoExt}
      BY DEF Worker
    <2>3. CASE Cancelled(work[w].before) /\ UNCHANGED <<loose, failures>>
      BY <1>9, <2>1, <2>2, <2>3, CancelledOK, Types DEF Replace
    <2>4. CASE /\ loose' = loose \cup {work[w].before} /\ failures' = failures + 1
               /\ UNCHANGED <<remote, jobs>>
      <3>1. work[w].before \in Externals
        BY <1>9, <2>2 DEF Replace, ReplacesExt
      <3> QED
        BY <1>9, <2>1, <2>4, <3>1 DEF Replace
    <2> QED
      BY <1>9, <2>3, <2>4 DEF Replace
  <1>10. ASSUME NEW w \in Workers, Link(w) PROVE TypeParts'
    <2>1. Ext(w) \in Externals /\ work[w].job \in Job
      BY DEF Ext, Worker, Job
    <2>2. At(NextToActivate(w), work[w].job) \in Worker
      BY <2>1 DEF At, Worker, Pcs, NextToActivate
    <2>3. sub' \in Sub
      BY <1>10, <2>1 DEF Link, Sub
    <2> QED
      BY <1>10, <2>2, <2>3 DEF Link
  <1>11. ASSUME NEW w \in Workers, Activate(w) PROVE TypeParts'
    <2>1. work' \in [Workers -> Worker]
      BY <1>11 DEF Activate, Goes, Worker, Pcs
    <2>2. sub' \in Sub
      BY <1>11 DEF Activate, Sub
    <2> QED
      BY <1>11, <2>1, <2>2 DEF Activate
  <1>12. ASSUME NEW w \in Workers, Emit(w) PROVE TypeParts'
    <2>1. work' \in [Workers -> Worker]
      BY <1>12 DEF Emit, Goes, Worker, Pcs
    <2> QED
      BY <1>12, <2>1 DEF Emit, RenewedLicence
  <1>13. ASSUME NEW w \in Workers, MarkOverdue(w) \/ CancelByExternal(w) PROVE TypeParts'
    <2>1. work' \in [Workers -> Worker]
      BY <1>13 DEF MarkOverdue, CancelByExternal, Goes, Worker, Pcs
    <2>2. sub' \in Sub
      BY <1>13 DEF MarkOverdue, CancelByExternal, Sub
    <2> QED
      BY <1>13, <2>1, <2>2 DEF MarkOverdue, CancelByExternal
  <1>14. ASSUME NEW w \in Workers, Done(w) PROVE TypeParts'
    BY <1>14, FreeOK DEF Done
  <1>15. ASSUME NEW w \in Workers, Fail(w) PROVE TypeParts'
    <2>1. work[w].job \in Job
      BY DEF Worker
    <2>2. jobs' \subseteq Job
      BY <1>15, <2>1, AgainOK DEF Fail
    <2> QED
      BY <1>15, <2>2, FreeOK DEF Fail
  <1>16. ASSUME NEW a \in Admins, NEW immediate \in BOOLEAN, Cancel(a, immediate) PROVE TypeParts'
    <2>1. [pc |-> "gateway", immediate |-> immediate, ext |-> sub.ext] \in Admin
      BY DEF Admin, Sub
    <2>2. overlapped' \in BOOLEAN
      BY <1>16 DEF Cancel
    <2> QED
      BY <1>16, <2>1, <2>2 DEF Cancel
  <1>17. ASSUME NEW a \in Admins, CancelAtGateway(a) PROVE TypeParts'
    <2>1. admin[a].ext \in Externals \cup {NoExt}
      BY DEF Admin
    <2>2. remote' \in [Externals -> External] /\ jobs' \subseteq Job
      BY <1>17, <2>1, CancelledOK, Types DEF CancelAtGateway
    <2>3. admin' \in [Admins -> Admin]
      BY <1>17 DEF CancelAtGateway, Admin
    <2> QED
      BY <1>17, <2>2, <2>3 DEF CancelAtGateway
  <1>18. ASSUME NEW a \in Admins, CancelHere(a) PROVE TypeParts'
    <2>1. Over \in Admin
      BY DEF Over, Admin
    <2>2. [admin[a] EXCEPT !.pc = "revoke"] \in Admin
      BY DEF Admin
    <2>3. admin' \in [Admins -> Admin]
      BY <1>18, <2>1, <2>2 DEF CancelHere
    <2>4. sub' \in Sub
      BY <1>18 DEF CancelHere, Sub
    <2> QED
      BY <1>18, <2>3, <2>4 DEF CancelHere
  <1>19. ASSUME NEW a \in Admins, Revoke(a) PROVE TypeParts'
    BY <1>19 DEF Revoke, Over, Admin
  <1>20. ASSUME NEW a \in Admins, AdminFails(a) PROVE TypeParts'
    BY <1>20 DEF AdminFails, Idle, Admin
  <1>21. CASE UNCHANGED vars
    BY <1>21 DEF vars
  <1>22. ASSUME NEW j \in jobs, NeverQueued(j) PROVE TypeParts'
    <2>1. j.kind \in Kinds /\ j.ext \in Externals
      BY DEF Job
    <2>2. lost' \in [Kinds -> SUBSET Externals]
      BY <1>22, <2>1 DEF NeverQueued
    <2> QED
      BY <1>22, <2>2 DEF NeverQueued
  <1> QED
    BY <1>1, <1>2, <1>3, <1>4, <1>5, <1>6, <1>7, <1>8, <1>9, <1>10, <1>11, <1>12, <1>13, <1>14,
       <1>15, <1>16, <1>17, <1>18, <1>19, <1>20, <1>21, <1>22 DEF Next, Work, Step

-----------------------------------------------------------------------------
(* Who is in force has a licence, whatever the number of workers.          *)

Busy(a)    == admin[a].pc \in {"gateway", "cancel", "revoke"}
Working(w) == work[w].pc # "free"

\* An administrator and a handler that are under way at once have overlapped.
OverlapsKnown == \A a \in Admins, w \in Workers : Busy(a) /\ Working(w) => overlapped

\* Who is about to revoke has cancelled, and only who overlaps changes that.
RevokesCanceled == \A a \in Admins : admin[a].pc = "revoke" => sub.status = "canceled" \/ overlapped

\* No period is longer than a cycle.
UntilSoon == sub.until <= now + 1

AccessInv == OverlapsKnown /\ RevokesCanceled /\ UntilSoon /\ InForceIsLicensed

IInv == TypeOK /\ ReplacesExt /\ AccessInv

LEMMA InitIInv == Init => IInv
  <1> SUFFICES ASSUME Init PROVE IInv
    OBVIOUS
  <1>1. TypeOK
    BY InitTypeOK
  <1>2. ReplacesExt /\ AccessInv
    BY DEF Init, ReplacesExt, AccessInv, OverlapsKnown, RevokesCanceled, UntilSoon,
           InForceIsLicensed, InForce, Free, At, Idle, Busy, Working
  <1> QED
    BY <1>1, <1>2 DEF IInv

LEMMA NextReplacesExt == IInv /\ [Next]_vars => ReplacesExt'
  <1> SUFFICES ASSUME TypeParts, ReplacesExt, [Next]_vars PROVE ReplacesExt'
    BY Types DEF IInv
  <1> USE DEF TypeParts, ReplacesExt
  <1>1. ASSUME NEW w \in Workers, NEW j \in jobs, TakeLinked(w, j) PROVE ReplacesExt'
    BY <1>1 DEF TakeLinked, NextToLink
  <1>2. ASSUME NEW w \in Workers, NEW j \in jobs, Take(w, j) PROVE ReplacesExt'
    <2>1. Found[j.kind] # "replace"
      BY <1>2 DEF Take, Job, Kinds, Found
    <2> QED
      BY <1>2, <2>1 DEF Take, At
  <1>3. ASSUME NEW w \in Workers,
               Replace(w) \/ Activate(w) \/ Emit(w) \/ MarkOverdue(w) \/ CancelByExternal(w)
        PROVE  ReplacesExt'
    BY <1>3 DEF Replace, Activate, Emit, MarkOverdue, CancelByExternal, Goes, Worker
  <1>4. ASSUME NEW w \in Workers, Link(w) \/ Done(w) \/ Fail(w) PROVE ReplacesExt'
    BY <1>4 DEF Link, Done, Fail, Free, At, NextToActivate
  <1>5. CASE UNCHANGED work
    BY <1>5
  <1> QED
    BY <1>1, <1>2, <1>3, <1>4, <1>5 DEF Next, Work, Step, Checkout, Completes, Renews, Declines,
       Ends, NeverQueued, Cancel, CancelAtGateway, CancelHere, Revoke, AdminFails, Tick, vars

\* A step of a worker that has begun already: nobody new overlaps.
LEMMA OverlapsKept ==
  ASSUME TypeParts, OverlapsKnown, NEW w \in Workers, Working(w), UNCHANGED <<admin, overlapped>>,
         \A v \in Workers \ {w} : work'[v] = work[v]
  PROVE  OverlapsKnown'
  BY DEF OverlapsKnown, Busy, Working

LEMMA NextAccessInv == IInv /\ [Next]_vars => AccessInv'
  <1> SUFFICES ASSUME TypeParts, AccessInv, [Next]_vars PROVE AccessInv'
    BY Types DEF IInv
  <1> USE DEF TypeParts
  <1>1. CASE UNCHANGED <<sub, licence, work, admin, now, overlapped, cut>>
    BY <1>1 DEF AccessInv, OverlapsKnown, RevokesCanceled, UntilSoon, InForceIsLicensed, InForce,
               Busy, Working
  <1>2. CASE Tick
    BY <1>2 DEF Tick, AccessInv, OverlapsKnown, RevokesCanceled, UntilSoon, InForceIsLicensed,
               InForce, Busy, Working, Sub
  <1>3. ASSUME NEW w \in Workers, NEW j \in jobs, TakeLinked(w, j) \/ Take(w, j) PROVE AccessInv'
    <2>1. OverlapsKnown'
      BY <1>3 DEF TakeLinked, Take, AccessInv, OverlapsKnown, Overlaps, Busy, Working
    <2>2. RevokesCanceled' /\ UntilSoon'
      BY <1>3 DEF TakeLinked, Take, AccessInv, RevokesCanceled, UntilSoon
    <2>3. \A v \in Workers : work[v].pc = "emit" => work'[v].pc = "emit"
      BY <1>3 DEF TakeLinked, Take
    <2>4. InForceIsLicensed'
      BY <1>3, <2>3 DEF TakeLinked, Take, AccessInv, InForceIsLicensed, InForce
    <2> QED
      BY <2>1, <2>2, <2>4 DEF AccessInv
  <1>4. ASSUME NEW w \in Workers,
               Replace(w) \/ Link(w) \/ Activate(w) \/ Emit(w) \/ MarkOverdue(w)
                 \/ CancelByExternal(w) \/ Done(w) \/ Fail(w)
        PROVE  AccessInv'
    <2> USE <1>4
    <2>1. Working(w)
      BY DEF Working, Replace, Link, Activate, Emit, MarkOverdue, CancelByExternal, Done, Fail
    <2>2. UNCHANGED <<admin, now, overlapped>> /\ \A v \in Workers \ {w} : work'[v] = work[v]
      BY DEF Replace, Link, Activate, Emit, MarkOverdue, CancelByExternal, Done, Fail, Goes
    <2>3. OverlapsKnown'
      BY <2>1, <2>2, OverlapsKept DEF AccessInv
    <2>4. RevokesCanceled'
      BY <2>1, <2>2 DEF AccessInv, RevokesCanceled, OverlapsKnown, Busy
    <2>5. UntilSoon'
      BY <2>2 DEF AccessInv, UntilSoon, Sub, Replace, Link, Activate, Emit, MarkOverdue,
                  CancelByExternal, Done, Fail
    <2>6. InForceIsLicensed'
      <3>1. CASE Activate(w)
        BY <3>1 DEF Activate, Goes, InForceIsLicensed, Worker
      <3>2. CASE Emit(w)
        BY <3>2, <2>5 DEF Emit, RenewedLicence, InForceIsLicensed, UntilSoon
      <3>3. CASE Fail(w)
        BY <3>3 DEF Fail, AccessInv, InForceIsLicensed, InForce
      <3>4. CASE MarkOverdue(w) \/ CancelByExternal(w)
        BY <3>4 DEF MarkOverdue, CancelByExternal, InForceIsLicensed, InForce, Sub
      <3>5. CASE Replace(w) \/ Link(w) \/ Done(w)
        <4>1. work[w].pc # "emit"
          BY <3>5 DEF Replace, Link, Done
        <4>2. UNCHANGED <<licence, cut, sub>> \/ (UNCHANGED <<licence, cut>> /\ Link(w))
          BY <3>5 DEF Replace, Link, Done
        <4>3. sub'.status = sub.status /\ sub'.until = sub.until
          BY <3>5 DEF Replace, Link, Done, Sub
        <4> QED
          BY <4>1, <4>2, <4>3, <2>2 DEF AccessInv, InForceIsLicensed, InForce
      <3> QED
        BY <3>1, <3>2, <3>3, <3>4, <3>5
    <2> QED
      BY <2>3, <2>4, <2>5, <2>6 DEF AccessInv
  <1>5. ASSUME NEW a \in Admins, NEW immediate \in BOOLEAN, Cancel(a, immediate) PROVE AccessInv'
    <2>1. OverlapsKnown'
      BY <1>5 DEF Cancel, AccessInv, OverlapsKnown, Busy, Working
    <2>2. RevokesCanceled'
      BY <1>5 DEF Cancel, AccessInv, RevokesCanceled
    <2>3. UntilSoon' /\ InForceIsLicensed'
      BY <1>5 DEF Cancel, AccessInv, UntilSoon, InForceIsLicensed, InForce
    <2> QED
      BY <2>1, <2>2, <2>3 DEF AccessInv
  <1>6. ASSUME NEW a \in Admins, CancelAtGateway(a) \/ AdminFails(a) PROVE AccessInv'
    <2>1. Busy(a) /\ admin'[a].pc \in {"cancel", "idle"}
      BY <1>6 DEF CancelAtGateway, AdminFails, Idle, Busy, Admin
    <2>2. \A b \in Admins \ {a} : admin'[b] = admin[b]
      BY <1>6 DEF CancelAtGateway, AdminFails
    <2>3. UNCHANGED <<sub, licence, work, now, overlapped, cut>>
      BY <1>6 DEF CancelAtGateway, AdminFails
    <2> QED
      BY <2>1, <2>2, <2>3 DEF AccessInv, OverlapsKnown, RevokesCanceled, UntilSoon,
                              InForceIsLicensed, InForce, Busy, Working
  <1>7. ASSUME NEW a \in Admins, CancelHere(a) PROVE AccessInv'
    <2>1. sub' = [sub EXCEPT !.status = "canceled"] /\ UNCHANGED <<licence, work, now, overlapped, cut>>
      BY <1>7 DEF CancelHere
    <2>2. Busy(a) /\ \A b \in Admins \ {a} : admin'[b] = admin[b]
      BY <1>7 DEF CancelHere, Busy
    <2>3. OverlapsKnown'
      BY <2>1, <2>2 DEF AccessInv, OverlapsKnown, Busy, Working
    <2>4. sub'.status = "canceled" /\ sub'.until = sub.until
      BY <2>1 DEF Sub
    <2> QED
      BY <2>1, <2>3, <2>4 DEF AccessInv, RevokesCanceled, UntilSoon, InForceIsLicensed, InForce
  <1>8. ASSUME NEW a \in Admins, Revoke(a) PROVE AccessInv'
    <2>1. UNCHANGED <<sub, work, now, overlapped, cut>>
      BY <1>8 DEF Revoke
    <2>2. Busy(a) /\ \A b \in Admins \ {a} : admin'[b] = admin[b]
      BY <1>8 DEF Revoke, Busy
    <2>3. admin'[a].pc = "over"
      BY <1>8 DEF Revoke, Over
    <2>4. OverlapsKnown' /\ RevokesCanceled' /\ UntilSoon'
      BY <2>1, <2>2, <2>3 DEF AccessInv, OverlapsKnown, RevokesCanceled, UntilSoon, Busy, Working
    <2>5. sub.status = "canceled" \/ overlapped
      BY <1>8 DEF Revoke, AccessInv, RevokesCanceled
    <2> QED
      BY <2>1, <2>4, <2>5 DEF AccessInv, InForceIsLicensed, InForce
  <1> QED
    BY <1>1, <1>2, <1>3, <1>4, <1>5, <1>6, <1>7, <1>8 DEF Next, Work, Step, Checkout, Completes,
       Renews, Declines, Ends, NeverQueued, vars

\* The inductive invariant of what concerns the licence.
THEOREM SpecIInv == Spec => []IInv
  <1>1. Init => IInv
    BY InitIInv
  <1>2. IInv /\ [Next]_vars => IInv'
    <2> SUFFICES ASSUME IInv, [Next]_vars PROVE IInv'
      OBVIOUS
    <2>1. TypeOK'
      BY NextTypeOK DEF IInv
    <2>2. ReplacesExt' /\ AccessInv'
      BY NextReplacesExt, NextAccessInv
    <2> QED
      BY <2>1, <2>2 DEF IInv
  <1> QED
    BY <1>1, <1>2, PTL DEF Spec

\* Every reachable state has the right type: no job is tried once more than it
\* may be, no event names an external that does not exist.
THEOREM SpecTypeOK == Spec => []TypeOK
  <1>1. IInv => TypeOK
    BY DEF IInv
  <1> QED
    BY <1>1, SpecIInv, PTL

\* activate: who is shown as paid has access until the end of the period, unless
\* the activation was cut short or an administrator came between.
THEOREM SpecInForceIsLicensed == Spec => []InForceIsLicensed
  <1>1. IInv => InForceIsLicensed
    BY DEF IInv, AccessInv
  <1> QED
    BY <1>1, SpecIInv, PTL

-----------------------------------------------------------------------------
(* Who is billed is linked, and who is cancelled is not billed: with one   *)
(* worker, and attempts that failures do not use up.                       *)

OneWorker    == \A v, w \in Workers : v = w
AttemptsLast == MaxFailures < Attempts

\* What is known of an event for as long as it exists.
EventOK(j) ==
  /\ j.kind = "linked" => /\ remote[j.ext].state \in {"live", "ended"}
                          /\ j.left >= Attempts - failures
  /\ j.kind = "deleted" => remote[j.ext].state = "ended"

\* An external that costs nothing any more, or is given up.
Settled(x) == x = NoExt \/ x \in loose \/ remote[x].state = "ended"

\* What a handler relies on between two of its steps.
WorkOK(w) ==
  /\ EventOK(work[w].job)
  /\ work[w].pc \in {"replace", "link"} =>
       /\ work[w].job.kind = "linked"
       /\ work[w].inForce => sub.status = "active" \/ overlapped
  /\ work[w].pc = "replace" => work[w].before = sub.ext
  /\ work[w].pc = "link"    => sub.ext = Ext(w) \/ Settled(sub.ext)
  /\ work[w].pc = "cancel"  => work[w].job.kind = "deleted" /\ sub.ext = Ext(w)

\* What a cancellation relies on, unless a handler overlaps.
AdminOK(a) ==
  /\ admin[a].pc = "gateway" => admin[a].ext = sub.ext
  /\ admin[a].pc = "cancel" /\ sub.ext # NoExt => remote[sub.ext].state = "ended"

\* The link of x is in the queue, or under way with the activation it leads to.
Relinks(x) ==
  \/ \E j \in jobs : j.kind = "linked" /\ j.ext = x
  \/ \E w \in Workers : /\ work[w].pc \in {"replace", "link", "activate"}
                        /\ work[w].job.kind = "linked" /\ Ext(w) = x

\* CanceledIsNotBilled, with the events that lead out of its exceptions.
CanceledRelinks ==
  sub.status = "canceled" /\ sub.ext # NoExt /\ remote[sub.ext].state = "live" =>
    Relinks(sub.ext) \/ overlapped

\* A link that was never tried is the only one of its external, and its external
\* is not linked yet.
FreshLinks ==
  \A j \in jobs : j.kind = "linked" /\ j.left = Attempts =>
    /\ sub.ext # j.ext
    /\ \A i \in jobs : i.kind = "linked" /\ i.ext = j.ext => i = j
    /\ \A w \in Workers : work[w].job.kind = "linked" => work[w].job.ext # j.ext

LinkInv ==
  /\ failures <= MaxFailures
  /\ FreshLinks
  /\ \A j \in jobs : EventOK(j)
  /\ \A w \in Workers : WorkOK(w)
  /\ \A a \in Admins : AdminOK(a) \/ overlapped
  /\ sub.ext # NoExt => remote[sub.ext].state \in {"live", "ended"}
  /\ NoLooseBilling
  /\ CanceledRelinks

LEMMA InitLinkInv == Init => LinkInv
  <1> SUFFICES ASSUME Init PROVE LinkInv
    OBVIOUS
  <1> USE DEF Init
  <1>1. \A w \in Workers : WorkOK(w)
    BY DEF WorkOK, EventOK, Free, At
  <1>2. \A a \in Admins : AdminOK(a)
    BY DEF AdminOK, Idle
  <1>3. NoLooseBilling /\ CanceledRelinks /\ FreshLinks
    BY DEF NoLooseBilling, CanceledRelinks, FreshLinks
  <1> QED
    BY <1>1, <1>2, <1>3, SubscriptionsAssumption DEF LinkInv

\* What only grows: an end is final, a failure is not undone.
Grows ==
  /\ \A x \in Externals : /\ remote[x].state = "ended" => remote'[x].state = "ended"
                          /\ remote[x].state = "live"  => remote'[x].state \in {"live", "ended"}
                          /\ x \in lost["linked"] => x \in lost'["linked"]
  /\ failures' \in Nat /\ failures <= failures'
  /\ overlapped => overlapped'
  /\ loose \subseteq loose'

\* A cancelled external has ended, another stays as it is, and the event of an
\* end is one of an external that has ended.
LEMMA CancelledEnds ==
  ASSUME TypeParts, NEW x \in Externals \cup {NoExt}, Cancelled(x)
  PROVE  /\ \A y \in Externals : remote[y].state = "ended" => remote'[y].state = "ended"
         /\ \A y \in Externals : remote'[y].state = IF y = x /\ remote[y].state = "live" THEN "ended"
                                                    ELSE remote[y].state
         /\ jobs \subseteq jobs'
         /\ \A j \in jobs' \ jobs : j.kind = "deleted" /\ remote'[j.ext].state = "ended"
  <1> USE DEF TypeParts
  <1>1. CASE x # NoExt /\ remote[x].state = "live"
    <2>1. /\ x \in Externals
          /\ remote' = [remote EXCEPT ![x].state = "ended"]
          /\ jobs' = jobs \cup {[kind |-> "deleted", ext |-> x, left |-> Attempts]}
      BY <1>1 DEF Cancelled, Says
    <2>2. \A y \in Externals : remote'[y].state = IF y = x THEN "ended" ELSE remote[y].state
      BY <2>1 DEF External
    <2>3. \A j \in jobs' \ jobs : j.kind = "deleted" /\ j.ext = x
      BY <2>1
    <2> QED
      BY <1>1, <2>1, <2>2, <2>3
  <1>2. CASE ~ (x # NoExt /\ remote[x].state = "live")
    <2>1. UNCHANGED <<jobs, remote>>
      BY <1>2 DEF Cancelled
    <2>2. \A y \in Externals : y # NoExt
      BY SubscriptionsAssumption DEF NoExt
    <2> QED
      BY <1>2, <2>1, <2>2
  <1> QED
    BY <1>1, <1>2

LEMMA NextGrows == TypeParts /\ [Next]_vars => Grows
  <1> SUFFICES ASSUME TypeParts, [Next]_vars PROVE Grows
    OBVIOUS
  <1> USE DEF TypeParts, Grows
  <1>1. ASSUME NEW x \in Externals, Checkout(x) \/ Renews(x) PROVE Grows
    BY <1>1 DEF Checkout, Renews, External
  <1>2. ASSUME NEW x \in Externals, Completes(x) PROVE Grows
    BY <1>2 DEF Completes
  <1>3. ASSUME NEW x \in Externals, Ends(x) PROVE Grows
    BY <1>3, CancelledEnds DEF Ends
  <1>4. ASSUME NEW w \in Workers, Replace(w) PROVE Grows
    <2>1. work[w].before \in Externals \cup {NoExt}
      BY DEF Worker
    <2> QED
      BY <1>4, <2>1, CancelledEnds DEF Replace
  <1>5. ASSUME NEW a \in Admins, CancelAtGateway(a) PROVE Grows
    <2>1. admin[a].ext \in Externals \cup {NoExt}
      BY DEF Admin
    <2> QED
      BY <1>5, <2>1, CancelledEnds DEF CancelAtGateway
  <1>6. CASE /\ UNCHANGED <<remote, loose, lost>>
             /\ failures' \in {failures, failures + 1}
             /\ overlapped => overlapped'
    BY <1>6
  <1>7. ASSUME NEW w \in Workers, NEW j \in jobs, TakeLinked(w, j) \/ Take(w, j) PROVE Grows
    BY <1>6, <1>7 DEF TakeLinked, Take
  <1>8. ASSUME NEW w \in Workers, Step(w) \/ Fail(w) PROVE Grows
    BY <1>4, <1>6, <1>8 DEF Step, Link, Activate, Emit, MarkOverdue, CancelByExternal, Done, Fail
  <1>9. ASSUME NEW a \in Admins,
               (\E immediate \in BOOLEAN : Cancel(a, immediate)) \/ CancelHere(a) \/ Revoke(a) \/ AdminFails(a)
        PROVE  Grows
    BY <1>6, <1>9 DEF Cancel, CancelHere, Revoke, AdminFails
  <1>10. CASE (\E x \in Externals : Declines(x)) \/ Tick \/ UNCHANGED vars
    BY <1>6, <1>10 DEF Declines, Tick, vars
  <1>11. ASSUME NEW j \in jobs, NeverQueued(j) PROVE Grows
    <2>1. j.kind \in Kinds /\ "linked" \in Kinds
      BY DEF Job, Kinds
    <2>2. \A x \in Externals : x \in lost["linked"] => x \in lost'["linked"]
      BY <1>11, <2>1 DEF NeverQueued
    <2> QED
      BY <1>11, <2>2 DEF NeverQueued
  <1> QED
    BY <1>1, <1>2, <1>3, <1>5, <1>7, <1>8, <1>9, <1>10, <1>11 DEF Next, Work

\* What is known of an event stays true.
LEMMA EventKept ==
  ASSUME TypeParts, Grows, NEW j \in Job, EventOK(j)
  PROVE  EventOK(j)'
  <1>1. remote[j.ext].state \in {"live", "ended"} => remote'[j.ext].state \in {"live", "ended"}
    BY DEF Grows, Job
  <1>2. remote[j.ext].state = "ended" => remote'[j.ext].state = "ended"
    BY DEF Grows, Job
  <1>3. j.left >= Attempts - failures => j.left >= Attempts - failures'
    BY SubscriptionsAssumption DEF Grows, Job, TypeParts
  <1> QED
    BY <1>1, <1>2, <1>3 DEF EventOK

\* Failures are counted up to their bound.
LEMMA NextFailures ==
  ASSUME TypeParts, failures <= MaxFailures, [Next]_vars
  PROVE  failures' <= MaxFailures
  <1> DEFINE Counts == failures' = failures \/ (failures < MaxFailures /\ failures' = failures + 1)
  <1>1. ASSUME NEW x \in Externals,
               Checkout(x) \/ Completes(x) \/ Renews(x) \/ Declines(x) \/ Ends(x)
        PROVE  Counts
    BY <1>1 DEF Checkout, Completes, Renews, Declines, Ends
  <1>2. ASSUME NEW w \in Workers, Step(w) \/ Fail(w) PROVE Counts
    BY <1>2 DEF Step, Replace, Link, Activate, Emit, MarkOverdue, CancelByExternal, Done, Fail
  <1>3. ASSUME NEW w \in Workers, NEW j \in jobs, TakeLinked(w, j) \/ Take(w, j) PROVE Counts
    BY <1>3 DEF TakeLinked, Take
  <1>4. ASSUME NEW a \in Admins,
               \/ \E immediate \in BOOLEAN : Cancel(a, immediate)
               \/ CancelAtGateway(a) \/ CancelHere(a) \/ Revoke(a) \/ AdminFails(a)
        PROVE  Counts
    BY <1>4 DEF Cancel, CancelAtGateway, CancelHere, Revoke, AdminFails
  <1>5. ASSUME Tick \/ UNCHANGED vars PROVE Counts
    BY <1>5 DEF Tick, vars
  <1>6. ASSUME NEW j \in jobs, NeverQueued(j) PROVE Counts
    BY <1>6 DEF NeverQueued
  <1>7. Counts
    BY <1>1, <1>2, <1>3, <1>4, <1>5, <1>6 DEF Next, Work
  <1>8. MaxFailures \in Nat /\ failures \in Nat
    BY SubscriptionsAssumption DEF TypeParts
  <1> QED
    BY <1>7, <1>8

\* Every event that is sent, and every one that is tried again, is as it should be.
LEMMA NextEvents ==
  ASSUME TypeParts, LinkInv, [Next]_vars
  PROVE  \A j \in jobs' : EventOK(j)'
  <1> USE DEF TypeParts
  <1>1. Grows
    BY NextGrows
  <1>2. \A j \in jobs : EventOK(j)'
    BY <1>1, EventKept DEF LinkInv
  <1>3. \A w \in Workers : work[w].job \in Job /\ EventOK(work[w].job)
    BY DEF LinkInv, WorkOK, Worker
  <1>4. ASSUME NEW x \in Externals, Completes(x) PROVE \A j \in jobs' : EventOK(j)'
    <2>1. remote'[x].state = "live" /\ failures' \in Nat
      BY <1>4 DEF Completes
    <2>2. \A j \in jobs' \ jobs : j.kind \in {"linked", "paid"} /\ j.ext = x /\ j.left = Attempts
      BY <1>4 DEF Completes
    <2> QED
      BY <1>2, <2>1, <2>2, SubscriptionsAssumption DEF EventOK
  <1>5. ASSUME NEW x \in Externals, Renews(x) \/ Declines(x) PROVE \A j \in jobs' : EventOK(j)'
    <2>1. \A j \in jobs' \ jobs : j.kind \in {"paid", "failed"}
      BY <1>5 DEF Renews, Declines, Says
    <2> QED
      BY <1>2, <2>1 DEF EventOK
  <1>6. ASSUME NEW x \in Externals \cup {NoExt}, Cancelled(x) PROVE \A j \in jobs' : EventOK(j)'
    BY <1>2, <1>6, CancelledEnds DEF EventOK
  <1>7. ASSUME NEW w \in Workers, NEW j \in jobs, Take(w, j) PROVE \A i \in jobs' : EventOK(i)'
    <2>1. \A i \in jobs' : i \in jobs \/ i.kind \in {"paid", "failed"}
      BY <1>7, AgainOK DEF Take, Job, Kinds
    <2> QED
      BY <1>2, <2>1 DEF EventOK
  <1>8. ASSUME NEW w \in Workers, Fail(w) PROVE \A j \in jobs' : EventOK(j)'
    <2> DEFINE held == work[w].job
    <2>1. jobs' = Again(jobs, held) /\ failures' = failures + 1 /\ UNCHANGED remote
      BY <1>8 DEF Fail
    <2>2. \A j \in jobs' : j \in jobs \/ (j.kind = held.kind /\ j.ext = held.ext /\ j.left = held.left - 1)
      BY <1>3, <2>1, AgainOK
    <2>3. held.left \in Nat
      BY <1>3 DEF Job
    <2>4. ASSUME NEW j \in jobs', j.kind = held.kind, j.ext = held.ext, j.left = held.left - 1
          PROVE  EventOK(j)'
      BY <1>3, <2>1, <2>3, <2>4, SubscriptionsAssumption DEF EventOK
    <2> QED
      BY <1>2, <2>2, <2>4
  <1>9. CASE jobs' \subseteq jobs
    BY <1>2, <1>9
  <1>10. /\ \A w \in Workers : work[w].before \in Externals \cup {NoExt}
         /\ \A a \in Admins : admin[a].ext \in Externals \cup {NoExt}
    BY DEF Worker, Admin
  <1>11. ASSUME NEW w \in Workers, Step(w) PROVE \A j \in jobs' : EventOK(j)'
    <2>1. Cancelled(work[w].before) \/ jobs' \subseteq jobs
      BY <1>11 DEF Step, Replace, Link, Activate, Emit, MarkOverdue, CancelByExternal, Done
    <2> QED
      BY <1>6, <1>9, <1>10, <2>1
  <1>12. ASSUME NEW w \in Workers, NEW j \in jobs, TakeLinked(w, j) PROVE \A i \in jobs' : EventOK(i)'
    BY <1>9, <1>12 DEF TakeLinked
  <1>13. ASSUME NEW a \in Admins,
                \/ \E immediate \in BOOLEAN : Cancel(a, immediate)
                \/ CancelAtGateway(a) \/ CancelHere(a) \/ Revoke(a) \/ AdminFails(a)
         PROVE  \A j \in jobs' : EventOK(j)'
    <2>1. Cancelled(admin[a].ext) \/ jobs' \subseteq jobs
      BY <1>13 DEF Cancel, CancelAtGateway, CancelHere, Revoke, AdminFails
    <2> QED
      BY <1>6, <1>9, <1>10, <2>1
  <1>14. CASE (\E x \in Externals : Checkout(x)) \/ Tick \/ UNCHANGED vars
    BY <1>9, <1>14 DEF Checkout, Tick, vars
  <1>15. ASSUME NEW x \in Externals, Ends(x) PROVE \A j \in jobs' : EventOK(j)'
    BY <1>6, <1>15 DEF Ends
  <1>16. ASSUME NEW j \in jobs, NeverQueued(j) PROVE \A i \in jobs' : EventOK(i)'
    BY <1>9, <1>16 DEF NeverQueued
  <1> QED
    BY <1>4, <1>5, <1>7, <1>8, <1>11, <1>12, <1>13, <1>14, <1>15, <1>16 DEF Next, Work

\* A worker's event is one of the queue's, or the one it had, or that of Free.
LEMMA HeldOK ==
  ASSUME TypeParts, LinkInv, Grows, NEW w \in Workers,
         \/ work'[w] = Free \/ work'[w].job = work[w].job
         \/ \E j \in jobs : work'[w].job = j
  PROVE  EventOK(work[w].job)'
  <1>1. EventOK(Free.job)
    BY FreeOK DEF EventOK
  <1>2. Free.job \in Job /\ work[w].job \in Job /\ EventOK(work[w].job)
    BY FreeOK DEF TypeParts, Worker, LinkInv, WorkOK
  <1>3. EventOK(Free.job)' /\ \A j \in jobs : EventOK(j)'
    BY <1>1, <1>2, EventKept DEF TypeParts, LinkInv
  <1>4. CASE work'[w] = Free
    <2>1. work'[w].job = Free.job
      BY <1>4
    <2> QED
      BY <1>3, <2>1 DEF EventOK, Free, At
  <1>5. CASE work'[w].job = work[w].job
    <2> DEFINE j == work[w].job
    <2>1. PICK i \in Job : i = j
      BY <1>2
    <2>2. EventOK(i)
      BY <1>2, <2>1
    <2>3. EventOK(i)'
      BY <2>2, EventKept
    <2>4. work'[w].job = i
      BY <1>5, <2>1
    <2> QED
      BY <2>3, <2>4 DEF EventOK
  <1>6. ASSUME NEW j \in jobs, work'[w].job = j PROVE EventOK(work[w].job)'
    BY <1>3, <1>6 DEF EventOK
  <1> QED
    BY <1>4, <1>5, <1>6

Known == TypeParts /\ ReplacesExt /\ AccessInv /\ LinkInv

LEMMA SettledKept ==
  ASSUME Grows, NEW x \in Externals \cup {NoExt}, Settled(x)
  PROVE  Settled(x)'
  BY DEF Settled, Grows

\* A handler that does nothing itself can still rely on what it relied on.
LEMMA WorkKept ==
  ASSUME TypeParts, LinkInv, Grows, NEW w \in Workers, work'[w] = work[w], sub'.ext = sub.ext,
         work[w].pc \in {"replace", "link"} => sub'.status = sub.status \/ overlapped'
  PROVE  WorkOK(w)'
  <1>1. EventOK(work[w].job)'
    BY HeldOK
  <1>2. Settled(sub.ext) => Settled(sub.ext)'
    <2>1. PICK x \in Externals \cup {NoExt} : x = sub.ext
      BY DEF TypeParts, Sub
    <2>2. Settled(x) => Settled(x)'
      BY SettledKept
    <2> QED
      BY <2>1, <2>2 DEF Settled
  <1>3. WorkOK(w) /\ (overlapped => overlapped')
    BY DEF LinkInv, Grows
  <1> QED
    BY <1>1, <1>2, <1>3 DEF WorkOK, Ext

\* What a handler relies on holds after each of its steps, and after those of others.
LEMMA NextWorkOK ==
  ASSUME OneWorker, Known, [Next]_vars, NEW v \in Workers
  PROVE  WorkOK(v)'
  <1> USE DEF Known
  <1>1. Grows
    BY NextGrows
  <1>2. \A x \in Externals : x # NoExt
    BY SubscriptionsAssumption DEF NoExt
  <1>3. WorkOK(v) /\ work[v] \in Worker /\ sub \in Sub
    BY DEF LinkInv, TypeParts
  <1>4. CASE UNCHANGED <<sub, work>>
    BY <1>1, <1>4, WorkKept
  <1>5. ASSUME NEW a \in Admins, CancelHere(a) PROVE WorkOK(v)'
    <2>1. sub'.ext = sub.ext /\ UNCHANGED work
      BY <1>3, <1>5 DEF CancelHere, Sub
    <2>2. Busy(a) /\ UNCHANGED overlapped
      BY <1>5 DEF CancelHere, Busy
    <2>3. Working(v) => overlapped
      BY <2>2 DEF AccessInv, OverlapsKnown
    <2> QED
      BY <1>1, <2>1, <2>2, <2>3, WorkKept DEF Working
  <1>6. ASSUME NEW j \in jobs, TakeLinked(v, j) PROVE WorkOK(v)'
    <2>1. /\ work'[v] = [pc |-> NextToLink(j.ext), before |-> sub.ext, inForce |-> InForce, job |-> j]
          /\ sub' = sub
      BY <1>3, <1>6 DEF TakeLinked, TypeParts
    <2>2. EventOK(work[v].job)'
      BY <1>1, <2>1, HeldOK
    <2>3. j.kind = "linked" /\ (InForce => sub.status = "active")
      BY <1>6 DEF TakeLinked, InForce
    <2>4. Ext(v)' = j.ext
      BY <2>1 DEF Ext
    <2>5. NextToLink(j.ext) = "link" => sub.ext = j.ext \/ sub.ext = NoExt
      BY DEF NextToLink
    <2>6. NextToLink(j.ext) \in {"link", "replace"}
      BY DEF NextToLink
    <2> QED
      BY <2>1, <2>2, <2>3, <2>4, <2>5, <2>6 DEF WorkOK, Settled
  <1>7. ASSUME NEW j \in jobs, Take(v, j) PROVE WorkOK(v)'
    <2>1. CASE UNCHANGED <<sub, work>>
      BY <1>4, <2>1
    <2>2. CASE sub.ext = j.ext /\ work' = [work EXCEPT ![v] = At(Found[j.kind], j)]
      <3>1. work'[v].pc = Found[j.kind] /\ work'[v].job = j /\ sub' = sub
        BY <1>7, <2>2 DEF Take, At, TypeParts
      <3>2. EventOK(work[v].job)'
        BY <1>1, <3>1, HeldOK
      <3>3. Found[j.kind] \notin {"replace", "link"} /\ (Found[j.kind] = "cancel" => j.kind = "deleted")
        BY <1>7 DEF Take, Found, TypeParts, Job, Kinds
      <3> QED
        BY <2>2, <3>1, <3>2, <3>3 DEF WorkOK, Ext
    <2> QED
      BY <1>7, <2>1, <2>2 DEF Take
  <1>8. CASE Replace(v)
    <2>1. work'[v] = [work[v] EXCEPT !.pc = "link"] /\ sub' = sub /\ overlapped' = overlapped
      BY <1>8 DEF Replace, Goes, TypeParts
    <2>2. work'[v].pc = "link" /\ work'[v].job = work[v].job /\ work'[v].inForce = work[v].inForce
      BY <1>3, <2>1 DEF Worker
    <2>3. EventOK(work[v].job)'
      BY <1>1, <2>2, HeldOK
    <2>4. Settled(sub.ext)'
      <3>1. work[v].pc = "replace" /\ work[v].before = sub.ext /\ sub.ext # NoExt
        BY <1>3, <1>8 DEF Replace, WorkOK, ReplacesExt
      <3>2. sub.ext \in Externals /\ remote[sub.ext].state \in {"live", "ended"}
        BY <1>3, <3>1 DEF Sub, LinkInv
      <3>3. remote'[sub.ext].state = "ended" \/ sub.ext \in loose'
        BY <1>8, <3>1, <3>2, CancelledEnds DEF Replace
      <3> QED
        BY <2>1, <3>3 DEF Settled
    <2> QED
      BY <1>3, <1>8, <2>1, <2>2, <2>3, <2>4 DEF WorkOK, Replace
  <1>9. CASE Link(v) \/ Activate(v) \/ Emit(v) \/ MarkOverdue(v) \/ CancelByExternal(v)
    <2>1. work'[v].pc \in {"done", "activate", "emit"} /\ work'[v].job = work[v].job
      BY <1>3, <1>9 DEF Link, Activate, Emit, MarkOverdue, CancelByExternal, Goes, At, NextToActivate,
                        TypeParts, Worker
    <2>2. EventOK(work[v].job)'
      BY <1>1, <2>1, HeldOK
    <2> QED
      BY <2>1, <2>2 DEF WorkOK
  <1>10. CASE Done(v) \/ Fail(v)
    <2>1. work'[v] = Free
      BY <1>10 DEF Done, Fail, TypeParts
    <2>2. EventOK(work[v].job)'
      BY <1>1, <2>1, HeldOK
    <2>3. work'[v].pc = "free"
      BY <2>1 DEF Free, At
    <2> QED
      BY <2>2, <2>3 DEF WorkOK
  <1>11. ASSUME NEW a \in Admins,
                \/ \E immediate \in BOOLEAN : Cancel(a, immediate)
                \/ CancelAtGateway(a) \/ Revoke(a) \/ AdminFails(a)
         PROVE  WorkOK(v)'
    BY <1>4, <1>11 DEF Cancel, CancelAtGateway, Revoke, AdminFails
  <1>12. ASSUME NEW x \in Externals,
                Checkout(x) \/ Completes(x) \/ Renews(x) \/ Declines(x) \/ Ends(x)
         PROVE  WorkOK(v)'
    BY <1>4, <1>12 DEF Checkout, Completes, Renews, Declines, Ends
  <1>13. CASE Tick \/ (\E j \in jobs : NeverQueued(j)) \/ UNCHANGED vars
    BY <1>4, <1>13 DEF Tick, NeverQueued, vars
  <1> QED
    BY <1>5, <1>6, <1>7, <1>8, <1>9, <1>10, <1>11, <1>12, <1>13 DEF Next, Work, Step, OneWorker

\* An external is linked once: the gateway says so once, and an attempt that is
\* made again counts as one.
LEMMA NextFreshLinks ==
  ASSUME Known, [Next]_vars
  PROVE  FreshLinks'
  <1> USE DEF Known, TypeParts
  <1>1. FreshLinks /\ \A j \in jobs : EventOK(j)
    BY DEF LinkInv
  <1>2. \A w \in Workers : work[w].job \in Job /\ EventOK(work[w].job)
    BY DEF LinkInv, WorkOK, Worker
  <1>3. Free.job.kind = "paid"
    BY FreeOK
  <1>4. ASSUME sub'.ext = sub.ext,
               \A j \in jobs' : j \in jobs \/ j.kind # "linked",
               \A w \in Workers : work'[w].job = work[w].job \/ work'[w].job.kind # "linked"
        PROVE  FreshLinks'
    BY <1>1, <1>4 DEF FreshLinks
  <1>5. ASSUME NEW x \in Externals \cup {NoExt}, Cancelled(x), UNCHANGED sub,
               \A w \in Workers : work'[w].job = work[w].job
        PROVE  FreshLinks'
    <2>1. \A j \in jobs' : j \in jobs \/ j.kind # "linked"
      BY <1>5, CancelledEnds
    <2> QED
      BY <1>4, <1>5, <2>1
  <1>6. ASSUME NEW x \in Externals, Completes(x) PROVE FreshLinks'
    <2>1. /\ remote[x].state = "open" /\ UNCHANGED <<sub, work>>
          /\ \A j \in jobs' : \/ j \in jobs
                               \/ j = [kind |-> "linked", ext |-> x, left |-> Attempts]
                               \/ j.kind = "paid"
      BY <1>6 DEF Completes
    <2>2. sub.ext # x
      <3>1. sub.ext # NoExt => remote[sub.ext].state # "open"
        BY DEF LinkInv
      <3> QED
        BY <2>1, <3>1, SubscriptionsAssumption DEF NoExt
    <2>3. \A j \in jobs : j.kind = "linked" => j.ext # x
      BY <1>1, <2>1 DEF EventOK
    <2>4. \A w \in Workers : work[w].job.kind = "linked" => work[w].job.ext # x
      BY <1>2, <2>1 DEF EventOK
    <2> QED
      BY <1>1, <2>1, <2>2, <2>3, <2>4 DEF FreshLinks
  <1>7. ASSUME NEW x \in Externals, Checkout(x) \/ Renews(x) \/ Declines(x) PROVE FreshLinks'
    <2>1. UNCHANGED <<sub, work>> /\ \A j \in jobs' : j \in jobs \/ j.kind # "linked"
      BY <1>7 DEF Checkout, Renews, Declines, Says
    <2> QED
      BY <1>4, <2>1
  <1>8. ASSUME NEW w \in Workers, NEW j \in jobs, TakeLinked(w, j) PROVE FreshLinks'
    <2>1. /\ j.kind = "linked" /\ jobs' = jobs \ {j} /\ UNCHANGED sub /\ work'[w].job = j
          /\ \A v \in Workers \ {w} : work'[v] = work[v]
      BY <1>8 DEF TakeLinked
    <2>2. \A i \in jobs' : i.kind = "linked" /\ i.left = Attempts => i.ext # j.ext
      BY <1>1, <2>1 DEF FreshLinks
    <2> QED
      BY <1>1, <2>1, <2>2 DEF FreshLinks
  <1>9. ASSUME NEW w \in Workers, NEW j \in jobs, Take(w, j) PROVE FreshLinks'
    <2>1. j.kind # "linked" /\ UNCHANGED sub
      BY <1>9 DEF Take
    <2>2. \A i \in jobs' : i \in jobs \/ i.kind # "linked"
      <3>1. \A i \in Again(jobs \ {j}, j) : i \in jobs \ {j} \/ i.kind = j.kind
        BY AgainOK
      <3> QED
        BY <1>9, <2>1, <3>1 DEF Take
    <2>3. \A v \in Workers : work'[v].job = work[v].job \/ work'[v].job.kind # "linked"
      BY <1>9, <2>1 DEF Take, At
    <2> QED
      BY <1>4, <2>1, <2>2, <2>3
  <1>10. ASSUME NEW w \in Workers, Replace(w) PROVE FreshLinks'
    <2>1. work[w].before \in Externals \cup {NoExt}
      BY DEF Worker
    <2>2. UNCHANGED sub /\ \A v \in Workers : work'[v].job = work[v].job
      BY <1>10 DEF Replace, Goes, Worker
    <2> QED
      BY <1>4, <1>5, <1>10, <2>1, <2>2 DEF Replace
  <1>11. ASSUME NEW w \in Workers, Link(w) PROVE FreshLinks'
    <2>1. /\ UNCHANGED jobs /\ sub'.ext = work[w].job.ext /\ work[w].job.kind = "linked"
          /\ \A v \in Workers : work'[v].job = work[v].job
      BY <1>11 DEF Link, At, Ext, Sub, LinkInv, WorkOK
    <2> QED
      BY <1>1, <2>1 DEF FreshLinks
  <1>12. ASSUME NEW w \in Workers,
                Activate(w) \/ Emit(w) \/ MarkOverdue(w) \/ CancelByExternal(w) \/ Done(w)
         PROVE  FreshLinks'
    <2>1. /\ UNCHANGED jobs /\ sub'.ext = sub.ext
          /\ \A v \in Workers : work'[v].job = work[v].job \/ work'[v].job.kind # "linked"
      BY <1>3, <1>12 DEF Activate, Emit, MarkOverdue, CancelByExternal, Done, Goes, Worker, Sub
    <2> QED
      BY <1>4, <2>1
  <1>13. ASSUME NEW w \in Workers, Fail(w) PROVE FreshLinks'
    <2> DEFINE held == work[w].job
    <2>1. /\ jobs' = Again(jobs, held) /\ UNCHANGED sub
          /\ \A v \in Workers : work'[v].job = work[v].job \/ work'[v].job.kind # "linked"
      BY <1>3, <1>13 DEF Fail
    <2>2. held \in Job /\ held.left \in Nat /\ held.left <= Attempts
      BY <1>2, SubscriptionsAssumption DEF Job
    <2>3. \A j \in jobs' : j \in jobs \/ (/\ j.kind = held.kind /\ j.ext = held.ext
                                           /\ j.left = held.left - 1)
      BY <2>1, <2>2, AgainOK
    <2>4. \A j \in jobs' : j.left = Attempts => j \in jobs
      BY <2>2, <2>3, SubscriptionsAssumption
    <2>5. \A j \in jobs' : j.kind = "linked" /\ j.left = Attempts /\ held.kind = "linked"
                           => held.ext # j.ext
      BY <1>1, <2>4 DEF FreshLinks
    <2> QED
      BY <1>1, <2>1, <2>3, <2>4, <2>5 DEF FreshLinks
  <1>14. ASSUME NEW a \in Admins,
                \/ \E immediate \in BOOLEAN : Cancel(a, immediate)
                \/ CancelHere(a) \/ Revoke(a) \/ AdminFails(a)
         PROVE  FreshLinks'
    BY <1>4, <1>14 DEF Cancel, CancelHere, Revoke, AdminFails, Sub
  <1>15. ASSUME NEW a \in Admins, CancelAtGateway(a) PROVE FreshLinks'
    <2>1. admin[a].ext \in Externals \cup {NoExt}
      BY DEF Admin
    <2> QED
      BY <1>5, <1>15, <2>1 DEF CancelAtGateway
  <1>16. ASSUME NEW x \in Externals, Ends(x) PROVE FreshLinks'
    BY <1>5, <1>16 DEF Ends
  <1>17. CASE Tick \/ (\E j \in jobs : NeverQueued(j)) \/ UNCHANGED vars
    BY <1>4, <1>17 DEF Tick, NeverQueued, vars
  <1> QED
    BY <1>6, <1>7, <1>8, <1>9, <1>10, <1>11, <1>12, <1>13, <1>14, <1>15, <1>16, <1>17
       DEF Next, Work, Step

\* The steps of a worker that has an event in hand, by what they do to the row.
LEMMA StepRow ==
  ASSUME TypeParts, NEW w \in Workers, Step(w) \/ Fail(w)
  PROVE  /\ Working(w) /\ UNCHANGED <<admin, overlapped>>
         /\ sub'.ext = IF Link(w) THEN Ext(w) ELSE sub.ext
  BY DEF TypeParts, Sub, Working, Step, Replace, Link, Activate, Emit, MarkOverdue, CancelByExternal,
         Done, Fail

\* The row is linked to an external that exists.
LEMMA NextLinked ==
  ASSUME Known, [Next]_vars
  PROVE  sub'.ext # NoExt => remote'[sub'.ext].state \in {"live", "ended"}
  <1> USE DEF Known, TypeParts
  <1>1. Grows
    BY NextGrows
  <1>2. ASSUME sub'.ext = sub.ext
        PROVE  sub'.ext # NoExt => remote'[sub'.ext].state \in {"live", "ended"}
    BY <1>1, <1>2 DEF LinkInv, Grows, Sub
  <1>3. ASSUME NEW w \in Workers, Link(w)
        PROVE  sub'.ext # NoExt => remote'[sub'.ext].state \in {"live", "ended"}
    <2>1. remote[Ext(w)].state \in {"live", "ended"}
      BY <1>3 DEF Link, LinkInv, WorkOK, EventOK, Ext
    <2>2. sub'.ext = Ext(w) /\ UNCHANGED remote
      BY <1>3 DEF Link, Sub
    <2> QED
      BY <2>1, <2>2
  <1>4. ASSUME NEW w \in Workers, Step(w) \/ Fail(w) PROVE sub'.ext = sub.ext \/ Link(w)
    BY <1>4, StepRow
  <1>5. ASSUME NEW w \in Workers, NEW j \in jobs, TakeLinked(w, j) \/ Take(w, j) PROVE sub'.ext = sub.ext
    BY <1>5 DEF TakeLinked, Take
  <1>6. ASSUME NEW a \in Admins,
               \/ \E immediate \in BOOLEAN : Cancel(a, immediate)
               \/ CancelAtGateway(a) \/ CancelHere(a) \/ Revoke(a) \/ AdminFails(a)
        PROVE  sub'.ext = sub.ext
    BY <1>6 DEF Cancel, CancelAtGateway, CancelHere, Revoke, AdminFails, Sub
  <1>7. ASSUME NEW x \in Externals,
               Checkout(x) \/ Completes(x) \/ Renews(x) \/ Declines(x) \/ Ends(x)
        PROVE  sub'.ext = sub.ext
    BY <1>7 DEF Checkout, Completes, Renews, Declines, Ends
  <1>8. ASSUME Tick \/ (\E j \in jobs : NeverQueued(j)) \/ UNCHANGED vars PROVE sub'.ext = sub.ext
    BY <1>8 DEF Tick, NeverQueued, vars
  <1> QED
    BY <1>2, <1>3, <1>4, <1>5, <1>6, <1>7, <1>8 DEF Next, Work

\* A cancellation can rely on the external it read, unless a handler overlaps.
LEMMA NextAdminOK ==
  ASSUME Known, [Next]_vars, NEW b \in Admins
  PROVE  AdminOK(b)' \/ overlapped'
  <1> USE DEF Known, TypeParts
  <1>1. Grows
    BY NextGrows
  <1>2. AdminOK(b) \/ overlapped
    BY DEF LinkInv
  <1>3. ASSUME admin'[b] = admin[b], sub'.ext = sub.ext PROVE AdminOK(b)' \/ overlapped'
    BY <1>1, <1>2, <1>3 DEF AdminOK, Grows, Sub
  <1>4. ASSUME NEW w \in Workers, Step(w) \/ Fail(w) PROVE AdminOK(b)' \/ overlapped'
    <2>1. Working(w) /\ UNCHANGED <<admin, overlapped>>
      BY <1>4, StepRow
    <2>2. CASE Busy(b)
      BY <2>1, <2>2 DEF AccessInv, OverlapsKnown
    <2>3. CASE ~ Busy(b)
      BY <2>1, <2>3 DEF Busy, AdminOK
    <2> QED
      BY <2>2, <2>3
  <1>5. ASSUME NEW w \in Workers, NEW j \in jobs, TakeLinked(w, j) \/ Take(w, j)
        PROVE  AdminOK(b)' \/ overlapped'
    BY <1>3, <1>5 DEF TakeLinked, Take
  <1>6. ASSUME NEW immediate \in BOOLEAN, Cancel(b, immediate) PROVE AdminOK(b)' \/ overlapped'
    BY <1>6 DEF Cancel, AdminOK
  <1>7. CASE CancelAtGateway(b)
    <2>1. /\ admin[b].pc = "gateway" /\ Cancelled(admin[b].ext) /\ UNCHANGED sub
          /\ admin'[b].pc = "cancel"
          /\ overlapped' = overlapped
      BY <1>7 DEF CancelAtGateway
    <2>2. ASSUME AdminOK(b), sub.ext # NoExt PROVE remote'[sub.ext].state = "ended"
      <3>1. admin[b].ext = sub.ext /\ sub.ext \in Externals
        BY <2>1, <2>2 DEF AdminOK, Sub
      <3>2. remote[sub.ext].state \in {"live", "ended"}
        BY <2>2 DEF LinkInv
      <3> QED
        BY <2>1, <3>1, <3>2, CancelledEnds
    <2> QED
      BY <1>2, <2>1, <2>2 DEF AdminOK
  <1>8. CASE CancelHere(b) \/ Revoke(b) \/ AdminFails(b)
    BY <1>8 DEF CancelHere, Revoke, AdminFails, Over, Idle, AdminOK, Admin
  <1>9. ASSUME NEW a \in Admins \ {b},
               \/ \E immediate \in BOOLEAN : Cancel(a, immediate)
               \/ CancelAtGateway(a) \/ CancelHere(a) \/ Revoke(a) \/ AdminFails(a)
        PROVE  AdminOK(b)' \/ overlapped'
    <2>1. admin'[b] = admin[b] /\ sub'.ext = sub.ext
      BY <1>9 DEF Cancel, CancelAtGateway, CancelHere, Revoke, AdminFails, Sub
    <2> QED
      BY <1>3, <2>1
  <1>10. ASSUME NEW x \in Externals,
                Checkout(x) \/ Completes(x) \/ Renews(x) \/ Declines(x) \/ Ends(x)
         PROVE  AdminOK(b)' \/ overlapped'
    BY <1>3, <1>10 DEF Checkout, Completes, Renews, Declines, Ends
  <1>11. CASE Tick \/ (\E j \in jobs : NeverQueued(j)) \/ UNCHANGED vars
    BY <1>3, <1>11 DEF Tick, NeverQueued, vars
  <1> QED
    BY <1>4, <1>5, <1>6, <1>7, <1>8, <1>9, <1>10, <1>11 DEF Next, Work

\* A linked event whose handler fails is tried again: attempts outlast failures.
LEMMA LinkedRetried ==
  ASSUME AttemptsLast, TypeParts, LinkInv, NEW w \in Workers, Fail(w), work[w].job.kind = "linked"
  PROVE  \E j \in jobs' : j.kind = "linked" /\ j.ext = Ext(w)
  <1> DEFINE held == work[w].job
  <1>1. held \in Job /\ EventOK(held) /\ failures \in Nat /\ failures < MaxFailures
    BY DEF TypeParts, Worker, LinkInv, WorkOK, Fail
  <1>2. held.left \in Nat /\ held.left > 1
    BY <1>1, SubscriptionsAssumption DEF AttemptsLast, EventOK, Job
  <1>3. [held EXCEPT !.left = @ - 1] \in jobs'
    BY <1>2 DEF Fail, Again
  <1>4. [held EXCEPT !.left = @ - 1].kind = "linked" /\ [held EXCEPT !.left = @ - 1].ext = Ext(w)
    BY <1>1 DEF Job, Ext
  <1> QED
    BY <1>3, <1>4

\* The queue without the job that is taken.
LEMMA TakeKeeps ==
  ASSUME NEW w \in Workers, NEW j \in jobs, TakeLinked(w, j) \/ Take(w, j)
  PROVE  \A i \in jobs : i # j => i \in jobs'
  BY DEF TakeLinked, Take, Again

\* Nothing but a completed session brings an external to life.
LEMMA OnlyCompletes ==
  ASSUME TypeParts, [Next]_vars, NEW x \in Externals, remote'[x].state = "live"
  PROVE  remote[x].state = "live" \/ Completes(x)
  <1> USE DEF TypeParts
  <1>1. ASSUME NEW y \in Externals, Checkout(y) \/ Completes(y) \/ Renews(y) \/ Declines(y)
        PROVE  remote[x].state = "live" \/ Completes(x)
    BY <1>1 DEF Checkout, Completes, Renews, Declines, External
  <1>2. ASSUME NEW y \in Externals \cup {NoExt}, Cancelled(y) PROVE remote[x].state = "live"
    BY <1>2, CancelledEnds
  <1>3. ASSUME NEW y \in Externals, Ends(y) PROVE remote[x].state = "live"
    BY <1>2, <1>3 DEF Ends
  <1>4. ASSUME NEW w \in Workers, Step(w) \/ Fail(w) PROVE remote[x].state = "live"
    <2>1. work[w].before \in Externals \cup {NoExt}
      BY DEF Worker
    <2>2. Cancelled(work[w].before) \/ UNCHANGED remote
      BY <1>4 DEF Step, Replace, Link, Activate, Emit, MarkOverdue, CancelByExternal, Done, Fail
    <2> QED
      BY <1>2, <2>1, <2>2
  <1>5. ASSUME NEW w \in Workers, NEW j \in jobs, TakeLinked(w, j) \/ Take(w, j)
        PROVE  remote[x].state = "live"
    BY <1>5 DEF TakeLinked, Take
  <1>6. ASSUME NEW a \in Admins,
               \/ \E immediate \in BOOLEAN : Cancel(a, immediate)
               \/ CancelAtGateway(a) \/ CancelHere(a) \/ Revoke(a) \/ AdminFails(a)
        PROVE  remote[x].state = "live"
    <2>1. admin[a].ext \in Externals \cup {NoExt}
      BY DEF Admin
    <2>2. Cancelled(admin[a].ext) \/ UNCHANGED remote
      BY <1>6 DEF Cancel, CancelAtGateway, CancelHere, Revoke, AdminFails
    <2> QED
      BY <1>2, <2>1, <2>2
  <1>7. ASSUME Tick \/ (\E j \in jobs : NeverQueued(j)) \/ UNCHANGED vars PROVE remote[x].state = "live"
    BY <1>7 DEF Tick, NeverQueued, vars
  <1> QED
    BY <1>1, <1>3, <1>4, <1>5, <1>6, <1>7 DEF Next, Work

\* Steps of others leave the workers and the row's link alone and only add jobs,
\* but for the event that is lost on its way to the queue.
LEMMA OthersKeep ==
  ASSUME TypeParts, [Next]_vars, \A w \in Workers : ~ Work(w) /\ ~ Fail(w),
         \A j \in jobs : ~ NeverQueued(j)
  PROVE  /\ UNCHANGED work /\ sub'.ext = sub.ext /\ jobs \subseteq jobs'
         /\ UNCHANGED sub \/ \E a \in Admins : CancelHere(a)
  <1> USE DEF TypeParts
  <1>1. ASSUME NEW x \in Externals \cup {NoExt}, Cancelled(x) PROVE jobs \subseteq jobs'
    BY <1>1, CancelledEnds
  <1>2. ASSUME NEW x \in Externals,
               Checkout(x) \/ Completes(x) \/ Renews(x) \/ Declines(x) \/ Ends(x)
        PROVE  UNCHANGED <<work, sub>> /\ jobs \subseteq jobs'
    BY <1>1, <1>2 DEF Checkout, Completes, Renews, Declines, Ends, Says
  <1>3. ASSUME NEW a \in Admins,
               \/ \E immediate \in BOOLEAN : Cancel(a, immediate)
               \/ CancelAtGateway(a) \/ CancelHere(a) \/ Revoke(a) \/ AdminFails(a)
        PROVE  /\ UNCHANGED work /\ sub'.ext = sub.ext /\ jobs \subseteq jobs'
               /\ UNCHANGED sub \/ CancelHere(a)
    <2>1. admin[a].ext \in Externals \cup {NoExt}
      BY DEF Admin
    <2> QED
      BY <1>1, <1>3, <2>1 DEF Cancel, CancelAtGateway, CancelHere, Revoke, AdminFails, Sub
  <1>4. CASE Tick \/ UNCHANGED vars
    BY <1>4 DEF Tick, vars
  <1> QED
    BY <1>2, <1>3, <1>4 DEF Next

\* What NoLooseBilling says nothing of.
Excused(x) == x \in loose \cup lost["linked"]

LEMMA NextNoLooseBilling ==
  ASSUME AttemptsLast, Known, [Next]_vars
  PROVE  NoLooseBilling'
  <1> SUFFICES ASSUME NEW x \in Externals, remote'[x].state = "live"
               PROVE  sub'.ext = x \/ Linking(x)' \/ Excused(x)'
    BY DEF NoLooseBilling, Excused
  <1> USE DEF Known, TypeParts
  <1>1. Grows /\ x # NoExt /\ (Excused(x) => Excused(x)')
    BY NextGrows, SubscriptionsAssumption DEF NoExt, Grows, Excused
  <1>2. CASE Completes(x)
    <2>1. [kind |-> "linked", ext |-> x, left |-> Attempts] \in jobs'
      BY <1>2 DEF Completes
    <2> QED
      BY <2>1 DEF Linking
  <1> SUFFICES ASSUME remote[x].state = "live"
               PROVE  sub'.ext = x \/ Linking(x)' \/ Excused(x)'
    BY <1>2, OnlyCompletes
  <1>3. sub.ext = x \/ Linking(x) \/ Excused(x)
    BY DEF LinkInv, NoLooseBilling, Excused
  <1>4. ASSUME sub'.ext = sub.ext, Linking(x) => Linking(x)'
        PROVE  sub'.ext = x \/ Linking(x)' \/ Excused(x)'
    BY <1>1, <1>3, <1>4
  <1>5. CASE (\A w \in Workers : ~ Work(w) /\ ~ Fail(w)) /\ (\A j \in jobs : ~ NeverQueued(j))
    <2>1. UNCHANGED work /\ sub'.ext = sub.ext /\ jobs \subseteq jobs'
      BY <1>5, OthersKeep
    <2>2. Linking(x) => Linking(x)'
      BY <2>1 DEF Linking, Ext
    <2> QED
      BY <1>4, <2>1, <2>2
  <1>6. ASSUME NEW w \in Workers, NEW j \in jobs, TakeLinked(w, j) \/ Take(w, j)
        PROVE  sub'.ext = x \/ Linking(x)' \/ Excused(x)'
    <2>1. work[w].pc = "free" /\ UNCHANGED sub /\ \A v \in Workers \ {w} : work'[v] = work[v]
      BY <1>6 DEF TakeLinked, Take
    <2>2. \A i \in jobs : i # j => i \in jobs'
      BY <1>6, TakeKeeps
    <2>3. CASE TakeLinked(w, j)
      <3>1. work'[w].job = j /\ work'[w].pc \in {"replace", "link"}
        BY <2>3 DEF TakeLinked, NextToLink
      <3>2. Linking(x) => Linking(x)'
        BY <2>1, <2>2, <3>1 DEF Linking, Ext
      <3> QED
        BY <1>4, <2>1, <3>2
    <2>4. CASE Take(w, j)
      <3>1. j.kind # "linked"
        BY <2>4 DEF Take
      <3>2. Linking(x) => Linking(x)'
        BY <2>1, <2>2, <3>1 DEF Linking, Ext
      <3> QED
        BY <1>4, <2>1, <3>2
    <2> QED
      BY <1>6, <2>3, <2>4
  <1>7. ASSUME NEW w \in Workers, Link(w) PROVE sub'.ext = x \/ Linking(x)' \/ Excused(x)'
    <2>1. sub'.ext = Ext(w) /\ UNCHANGED <<jobs, remote, loose>>
      BY <1>7 DEF Link, Sub
    <2>2. sub.ext = Ext(w) \/ Settled(sub.ext)
      BY <1>7 DEF Link, LinkInv, WorkOK
    <2>3. CASE Excused(x)
      BY <1>1, <2>3
    <2>4. CASE sub.ext = x
      BY <1>1, <2>1, <2>2, <2>4 DEF Settled, Excused
    <2>5. CASE Linking(x)
      BY <1>7, <2>1, <2>5 DEF Link, Linking, Ext
    <2> QED
      BY <1>1, <1>3, <2>1, <2>3, <2>4, <2>5
  <1>8. ASSUME NEW w \in Workers, Fail(w) PROVE sub'.ext = x \/ Linking(x)' \/ Excused(x)'
    <2>1. sub'.ext = sub.ext /\ \A v \in Workers \ {w} : work'[v] = work[v]
      BY <1>8 DEF Fail
    <2>2. jobs \subseteq jobs'
      BY <1>8 DEF Fail, Again
    <2>3. CASE work[w].pc \in {"replace", "link"}
      <3>1. work[w].job.kind = "linked"
        BY <2>3 DEF LinkInv, WorkOK
      <3>2. \E j \in jobs' : j.kind = "linked" /\ j.ext = Ext(w)
        BY <1>8, <3>1, LinkedRetried
      <3>3. Linking(x) => Linking(x)'
        BY <2>1, <2>2, <3>2 DEF Linking, Ext
      <3> QED
        BY <1>4, <2>1, <3>3
    <2>4. CASE work[w].pc \notin {"replace", "link"}
      <3>1. Linking(x) => Linking(x)'
        BY <2>1, <2>2, <2>4 DEF Linking, Ext
      <3> QED
        BY <1>4, <2>1, <3>1
    <2> QED
      BY <2>3, <2>4
  <1>9. ASSUME NEW w \in Workers,
               Replace(w) \/ Activate(w) \/ Emit(w) \/ MarkOverdue(w) \/ CancelByExternal(w) \/ Done(w)
        PROVE  sub'.ext = x \/ Linking(x)' \/ Excused(x)'
    <2>1. sub'.ext = sub.ext /\ \A v \in Workers \ {w} : work'[v] = work[v]
      BY <1>9 DEF Replace, Activate, Emit, MarkOverdue, CancelByExternal, Done, Goes, Sub
    <2>2. jobs \subseteq jobs'
      <3>1. work[w].before \in Externals \cup {NoExt}
        BY DEF Worker
      <3> QED
        BY <1>9, <3>1, CancelledEnds DEF Replace, Activate, Emit, MarkOverdue, CancelByExternal, Done
    <2>3. work[w].pc \in {"replace", "link"} => work'[w].pc = "link" /\ work'[w].job = work[w].job
      BY <1>9 DEF Replace, Activate, Emit, MarkOverdue, CancelByExternal, Done, Goes, Worker
    <2>4. Linking(x) => Linking(x)'
      BY <2>1, <2>2, <2>3 DEF Linking, Ext
    <2> QED
      BY <1>4, <2>1, <2>4
  <1>10. ASSUME NEW j \in jobs, NeverQueued(j) PROVE sub'.ext = x \/ Linking(x)' \/ Excused(x)'
    <2>1. UNCHANGED <<sub, work>> /\ jobs' = jobs \ {j} /\ j.kind \in Kinds /\ "linked" \in Kinds
      BY <1>10 DEF NeverQueued, Job, Kinds
    <2>2. CASE j.kind = "linked" /\ j.ext = x
      <3>1. x \in lost'["linked"]
        BY <1>10, <2>1, <2>2 DEF NeverQueued
      <3> QED
        BY <3>1 DEF Excused
    <2>3. CASE ~ (j.kind = "linked" /\ j.ext = x)
      <3>1. Linking(x) => Linking(x)'
        BY <2>1, <2>3 DEF Linking, Ext
      <3> QED
        BY <1>4, <2>1, <3>1
    <2> QED
      BY <2>2, <2>3
  <1> QED
    BY <1>5, <1>6, <1>7, <1>8, <1>9, <1>10 DEF Work, Step

LEMMA NextCanceledRelinks ==
  ASSUME AttemptsLast, Known, [Next]_vars
  PROVE  CanceledRelinks'
  <1> DEFINE x == sub'.ext
  <1> SUFFICES ASSUME sub'.status = "canceled", x # NoExt, remote'[x].state = "live", ~ overlapped'
               PROVE  Relinks(sub.ext)'
    BY DEF CanceledRelinks
  <1> USE DEF Known, TypeParts
  <1>1. Grows /\ TypeOK'
    BY NextGrows, NextTypeOK, Types
  <1>2. x \in Externals
    <2>1. sub' \in Sub
      BY <1>1 DEF TypeOK
    <2> QED
      BY <2>1 DEF Sub
  <1>3. ~ overlapped
    BY <1>1 DEF Grows
  <1>4. ASSUME sub'.ext = sub.ext PROVE remote[x].state = "live"
    <2>1. remote[x].state \in {"live", "ended"}
      BY <1>4 DEF LinkInv
    <2> QED
      BY <1>1, <1>2, <2>1 DEF Grows
  <1>5. ASSUME sub'.ext = sub.ext, sub.status = "canceled" PROVE Relinks(sub.ext)
    BY <1>3, <1>4, <1>5 DEF LinkInv, CanceledRelinks
  <1>6. ASSUME UNCHANGED sub, Relinks(sub.ext) => Relinks(sub.ext)' PROVE Relinks(sub.ext)'
    BY <1>5, <1>6
  <1>7. CASE (\A w \in Workers : ~ Work(w) /\ ~ Fail(w)) /\ (\A j \in jobs : ~ NeverQueued(j))
    <2>1. UNCHANGED work /\ sub'.ext = sub.ext /\ jobs \subseteq jobs'
      BY <1>7, OthersKeep
    <2>2. CASE UNCHANGED sub
      <3>1. Relinks(sub.ext) => Relinks(sub.ext)'
        BY <2>1, <2>2 DEF Relinks, Ext
      <3> QED
        BY <1>6, <2>2, <3>1
    <2>3. ASSUME NEW a \in Admins, CancelHere(a) PROVE FALSE
      <3>1. AdminOK(a) /\ admin[a].pc = "cancel"
        BY <1>3, <2>3 DEF CancelHere, LinkInv
      <3> QED
        BY <1>4, <2>1, <3>1 DEF AdminOK
    <2> QED
      BY <1>7, <2>2, <2>3, OthersKeep
  <1>8. ASSUME NEW w \in Workers, NEW j \in jobs, TakeLinked(w, j) \/ Take(w, j)
        PROVE  Relinks(sub.ext)'
    <2>1. work[w].pc = "free" /\ UNCHANGED sub /\ \A v \in Workers \ {w} : work'[v] = work[v]
      BY <1>8 DEF TakeLinked, Take
    <2>2. \A i \in jobs : i # j => i \in jobs'
      BY <1>8, TakeKeeps
    <2>3. j.kind = "linked" => work'[w].job = j /\ work'[w].pc \in {"replace", "link"}
      BY <1>8 DEF TakeLinked, Take, NextToLink
    <2>4. Relinks(sub.ext) => Relinks(sub.ext)'
      BY <2>1, <2>2, <2>3 DEF Relinks, Ext
    <2> QED
      BY <1>6, <2>1, <2>4
  <1>9. ASSUME NEW w \in Workers, Link(w) PROVE Relinks(sub.ext)'
    <2>1. /\ work[w].pc = "link" /\ work[w].job.kind = "linked"
          /\ work[w].inForce => sub.status = "active"
      BY <1>3, <1>9 DEF Link, LinkInv, WorkOK
    <2>2. sub'.ext = Ext(w) /\ sub'.status = sub.status
      BY <1>9 DEF Link, Sub
    <2>3. NextToActivate(w) = "activate"
      BY <2>1, <2>2 DEF NextToActivate
    <2>4. work'[w].pc = "activate" /\ work'[w].job = work[w].job
      BY <1>9, <2>3 DEF Link, At
    <2> QED
      BY <2>1, <2>2, <2>4 DEF Relinks, Ext
  <1>10. ASSUME NEW w \in Workers, Activate(w) \/ MarkOverdue(w) PROVE FALSE
    BY <1>10 DEF Activate, MarkOverdue, Sub
  <1>11. ASSUME NEW w \in Workers, CancelByExternal(w) PROVE FALSE
    <2>1. work[w].job.kind = "deleted" /\ sub.ext = Ext(w) /\ EventOK(work[w].job)
      BY <1>11 DEF CancelByExternal, LinkInv, WorkOK
    <2>2. sub'.ext = sub.ext
      BY <1>11 DEF CancelByExternal, Sub
    <2> QED
      BY <1>4, <2>1, <2>2 DEF EventOK, Ext
  <1>12. ASSUME NEW w \in Workers, Replace(w) \/ Emit(w) \/ Done(w) PROVE Relinks(sub.ext)'
    <2>1. UNCHANGED sub /\ \A v \in Workers \ {w} : work'[v] = work[v]
      BY <1>12 DEF Replace, Emit, Done, Goes
    <2>2. jobs \subseteq jobs'
      <3>1. work[w].before \in Externals \cup {NoExt}
        BY DEF Worker
      <3> QED
        BY <1>12, <3>1, CancelledEnds DEF Replace, Emit, Done
    <2>3. work[w].pc \in {"replace", "link", "activate"} =>
            work'[w].pc = "link" /\ work'[w].job = work[w].job
      BY <1>12 DEF Replace, Emit, Done, Goes, Worker
    <2>4. Relinks(sub.ext) => Relinks(sub.ext)'
      BY <2>1, <2>2, <2>3 DEF Relinks, Ext
    <2> QED
      BY <1>6, <2>1, <2>4
  <1>13. ASSUME NEW w \in Workers, Fail(w) PROVE Relinks(sub.ext)'
    <2>1. UNCHANGED sub /\ \A v \in Workers \ {w} : work'[v] = work[v]
      BY <1>13 DEF Fail
    <2>2. jobs \subseteq jobs'
      BY <1>13 DEF Fail, Again
    <2>3. work[w].job.kind = "linked" => \E j \in jobs' : j.kind = "linked" /\ j.ext = Ext(w)
      BY <1>13, LinkedRetried
    <2>4. Relinks(sub.ext) => Relinks(sub.ext)'
      BY <2>1, <2>2, <2>3 DEF Relinks, Ext
    <2> QED
      BY <1>6, <2>1, <2>4
  <1>14. ASSUME NEW j \in jobs, NeverQueued(j) PROVE Relinks(sub.ext)'
    <2>1. UNCHANGED <<sub, work>> /\ jobs' = jobs \ {j} /\ j.left = Attempts
      BY <1>14 DEF NeverQueued
    <2>2. j.kind = "linked" => j.ext # sub.ext
      BY <2>1 DEF LinkInv, FreshLinks
    <2>3. Relinks(sub.ext) => Relinks(sub.ext)'
      BY <2>1, <2>2 DEF Relinks, Ext
    <2> QED
      BY <1>6, <2>1, <2>3
  <1> QED
    BY <1>7, <1>8, <1>9, <1>10, <1>11, <1>12, <1>13, <1>14 DEF Work, Step

\* The inductive invariant of what concerns the links to the gateway.
THEOREM SpecLinkInv == ASSUME OneWorker, AttemptsLast PROVE Spec => [](IInv /\ LinkInv)
  <1>1. Init => IInv /\ LinkInv
    BY InitIInv, InitLinkInv
  <1>2. (IInv /\ LinkInv) /\ [Next]_vars => (IInv /\ LinkInv)'
    <2> SUFFICES ASSUME IInv, LinkInv, [Next]_vars PROVE IInv' /\ LinkInv'
      OBVIOUS
    <2>1. Known
      BY Types DEF Known, IInv
    <2>2. IInv'
      BY NextTypeOK, NextReplacesExt, NextAccessInv DEF IInv
    <2>3. (failures <= MaxFailures)'
      BY <2>1, NextFailures DEF Known, LinkInv
    <2>4. (\A j \in jobs : EventOK(j))'
      BY <2>1, NextEvents DEF Known
    <2>5. (\A w \in Workers : WorkOK(w))'
      BY <2>1, NextWorkOK
    <2>6. (\A a \in Admins : AdminOK(a) \/ overlapped)'
      BY <2>1, NextAdminOK
    <2>7. (sub.ext # NoExt => remote[sub.ext].state \in {"live", "ended"})'
      BY <2>1, NextLinked
    <2>8. NoLooseBilling' /\ CanceledRelinks' /\ FreshLinks'
      BY <2>1, NextNoLooseBilling, NextCanceledRelinks, NextFreshLinks
    <2> QED
      BY <2>2, <2>3, <2>4, <2>5, <2>6, <2>7, <2>8 DEF LinkInv
  <1> QED
    BY <1>1, <1>2, PTL DEF Spec

\* linkExternalSubscription: an external that is billed is linked, or its link is
\* on the way, or the gateway refused to cancel it.
THEOREM SpecNoLooseBilling == ASSUME OneWorker, AttemptsLast PROVE Spec => []NoLooseBilling
  <1>1. IInv /\ LinkInv => NoLooseBilling
    BY DEF LinkInv
  <1> QED
    BY <1>1, SpecLinkInv, PTL

\* cancel: a subscription shown as cancelled is not billed, unless a link is on the
\* way or the cancellation overlapped with a handler.
THEOREM SpecCanceledIsNotBilled == ASSUME OneWorker, AttemptsLast PROVE Spec => []CanceledIsNotBilled
  <1>1. IInv /\ LinkInv => CanceledIsNotBilled
    <2> SUFFICES ASSUME CanceledRelinks,
                        sub.status = "canceled", sub.ext # NoExt, remote[sub.ext].state = "live"
                 PROVE  \/ Linking(sub.ext)
                        \/ \E w \in Workers : work[w].pc = "activate"
                        \/ overlapped
      BY DEF LinkInv, CanceledIsNotBilled
    <2>1. Relinks(sub.ext) \/ overlapped
      BY DEF CanceledRelinks
    <2> QED
      BY <2>1 DEF Relinks, Linking
  <1> QED
    BY <1>1, SpecLinkInv, PTL

=============================================================================
