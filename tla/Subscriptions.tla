---------------------------- MODULE Subscriptions ----------------------------
(***************************************************************************)
(* A subscription that the gateway bills by itself (Stripe): the handlers  *)
(* of SubscriptionsService for the gateway's events, the administrator's   *)
(* cancellation, and the checkout that starts the billing.  One row of     *)
(* subscriptions, already created, and the licence it pays for.            *)
(*                                                                         *)
(* Each checkout makes another subscription at the gateway, here called an *)
(* external.  What the gateway has to say reaches a queue, but for what is *)
(* lost on the way there (WebhookInbox follows that way step by step);     *)
(* a handler that throws is tried again later, so events are handled in    *)
(* any order.  Every await that others can observe is a step:              *)
(*                                                                         *)
(*   free -> replace -> link -> activate -> emit -> done      linked       *)
(*   free -> activate -> emit -> done                         paid         *)
(*   free -> overdue -> done                                  failed       *)
(*   free -> cancel -> done                                   deleted      *)
(*                                                                         *)
(* Time is counted in billing cycles.  The gateways that the Hub charges   *)
(* itself, cycle by cycle, are in Settlement.                              *)
(***************************************************************************)
EXTENDS Integers, FiniteSets

CONSTANTS
  Externals,    \* checkouts, and the subscriptions they become at the gateway
  Admins,       \* callers of the admin API; bound: one cancellation each, tried
                \* again when it fails
  Workers,      \* webhook workers: one per process of the Hub
  Attempts,     \* 5 in the code: attempts of a job
  MaxNow,       \* bound: cycles a run lasts
  MaxFailures   \* bound: awaits that reject, processes that die, cards refused

ASSUME SubscriptionsAssumption ==
  /\ Externals # {} /\ Externals \subseteq Nat \ {0}
  /\ Admins \cap Workers = {}
  /\ Attempts \in Nat \ {0}
  /\ {MaxNow, MaxFailures} \subseteq Nat

VARIABLES
  sub,        \* the row of subscriptions
  licence,    \* the live licence of the customer for the product, if any
  remote,     \* remote[x]: external x, as the gateway knows it
  jobs,       \* the events that wait for a worker
  work,       \* work[w]: what worker w is doing
  admin,      \* admin[a]: the call that administrator a makes
  now,        \* cycles gone by
  overlapped, \* a cancellation and a handler were under way at once (history)
  loose,      \* externals that the Hub failed to cancel (history)
  lost,       \* lost[kind]: externals of whose events of that kind one was saved
              \* and never queued (history)
  cut,        \* an activation ended between its two writes (history)
  failures    \* what went wrong so far

vars == <<sub, licence, remote, jobs, work, admin, now, overlapped, loose, lost, cut, failures>>

NoExt == 0    \* external_subscription_id IS NULL

\* until is current_period_end, 0 while there is none.
Sub == [status: {"pending", "active", "overdue", "canceled"},
        ext: Externals \cup {NoExt}, until: Nat]

Kinds == {"linked", "paid", "failed", "deleted"}
Job   == [kind: Kinds, ext: Externals, left: 1 .. Attempts]

\* before and inForce are what the handler of linked has read: the external
\* linked so far, and whether the subscription was in force.
At(pc, j) == [pc |-> pc, before |-> NoExt, inForce |-> FALSE, job |-> j]
Free == At("free", [kind |-> "paid", ext |-> CHOOSE x \in Externals : TRUE, left |-> 1])
Over == [pc |-> "over", immediate |-> FALSE, ext |-> NoExt]
Idle == [pc |-> "idle", immediate |-> FALSE, ext |-> NoExt]

TypeOK ==
  /\ sub \in Sub
  /\ licence \in [live: BOOLEAN, until: Nat]
  /\ remote \in [Externals -> [state: {"none", "open", "live", "ended"}, until: Nat]]
  /\ jobs \subseteq Job
  /\ work \in [Workers -> [pc: {"free", "replace", "link", "activate", "emit",
                                "overdue", "cancel", "done"},
                           before: Externals \cup {NoExt}, inForce: BOOLEAN, job: Job]]
  /\ admin \in [Admins -> [pc: {"idle", "gateway", "cancel", "revoke", "over"},
                           immediate: BOOLEAN, ext: Externals \cup {NoExt}]]
  /\ now \in Nat
  /\ {overlapped, cut} \subseteq BOOLEAN
  /\ loose \subseteq Externals
  /\ lost \in [Kinds -> SUBSET Externals]
  /\ failures \in Nat

\* What create leaves.  With a trial the status is another, which no handler
\* here tells from pending, and there is a licence, which the first payment
\* renews.
Init ==
  /\ sub = [status |-> "pending", ext |-> NoExt, until |-> 0]
  /\ licence = [live |-> FALSE, until |-> 0]
  /\ remote = [x \in Externals |-> [state |-> "none", until |-> 0]]
  /\ jobs = {}
  /\ work = [w \in Workers |-> Free]
  /\ admin = [a \in Admins |-> Idle]
  /\ now = 0
  /\ overlapped = FALSE /\ loose = {} /\ lost = [k \in Kinds |-> {}] /\ cut = FALSE
  /\ failures = 0

\* Paid and within its period: the test of the checkout and of the link.
InForce == sub.status = "active" /\ sub.until > now

-----------------------------------------------------------------------------
(* The gateway.                                                            *)

Says(kind, x) == jobs' = jobs \cup {[kind |-> kind, ext |-> x, left |-> Attempts]}

\* The external as it is once cancelled, and what the gateway says of that:
\* nothing when it had ended before (cancelRecurringSubscription takes the
\* error for an answer).
Cancelled(x) ==
  IF x # NoExt /\ remote[x].state = "live"
  THEN Says("deleted", x) /\ remote' = [remote EXCEPT ![x].state = "ended"]
  ELSE UNCHANGED <<jobs, remote>>

\* The customer pays in the checkout session: the external exists from now on,
\* and two events are on their way.
Completes(x) ==
  /\ remote[x].state = "open"
  /\ remote' = [remote EXCEPT ![x] = [state |-> "live", until |-> now + 1]]
  /\ jobs' = jobs \cup {[kind |-> k, ext |-> x, left |-> Attempts] : k \in {"linked", "paid"}}
  /\ UNCHANGED <<sub, licence, work, admin, now, overlapped, loose, lost, cut, failures>>

\* ingest saves an event before it queues it.  When the process dies between the
\* two, or the queue refuses, the gateway sends the event again and is told that
\* it is a duplicate: nobody handles it.
NeverQueued(j) ==
  /\ j \in jobs /\ j.left = Attempts
  /\ failures < MaxFailures
  /\ failures' = failures + 1
  /\ jobs' = jobs \ {j}
  /\ lost' = [lost EXCEPT ![j.kind] = @ \cup {j.ext}]
  /\ UNCHANGED <<sub, licence, remote, work, admin, now, overlapped, loose, cut>>

\* The gateway charges the saved card for the cycle that begins.
Renews(x) ==
  /\ remote[x].state = "live" /\ remote[x].until <= now
  /\ remote' = [remote EXCEPT ![x].until = now + 1]
  /\ Says("paid", x)
  /\ UNCHANGED <<sub, licence, work, admin, now, overlapped, loose, lost, cut, failures>>

\* A card is refused, in the session or at a renewal; another may be tried.
Declines(x) ==
  /\ remote[x].state = "open" \/ (remote[x].state = "live" /\ remote[x].until <= now)
  /\ failures < MaxFailures
  /\ failures' = failures + 1
  /\ Says("failed", x)
  /\ UNCHANGED <<sub, licence, remote, work, admin, now, overlapped, loose, lost, cut>>

\* The gateway gives up, or the customer cancels there.
Ends(x) ==
  /\ remote[x].state = "live"
  /\ Cancelled(x)
  /\ UNCHANGED <<sub, licence, work, admin, now, overlapped, loose, lost, cut, failures>>

\* The attempts of a job are over in half a minute and a request in seconds; a
\* cycle lasts a day at least.
Tick ==
  /\ now < MaxNow
  /\ jobs = {}
  /\ \A w \in Workers : work[w].pc = "free"
  /\ \A a \in Admins : admin[a].pc \in {"idle", "over"}
  /\ now' = now + 1
  /\ UNCHANGED <<sub, licence, remote, jobs, work, admin, overlapped, loose, lost, cut, failures>>

-----------------------------------------------------------------------------
(* The handlers.                                                           *)

Goes(w, pc) == work' = [work EXCEPT ![w].pc = pc]

\* The external whose event w handles.
Ext(w) == work[w].job.ext

\* BullMQ tries a job again whose handler has thrown, unless that was the last
\* time: the queue that is left.
Again(queue, j) == IF j.left > 1 THEN queue \cup {[j EXCEPT !.left = @ - 1]} ELSE queue

Overlaps == \E a \in Admins : admin[a].pc \in {"gateway", "cancel", "revoke"}

\* A bug for the runs to catch: the external that was linked before is forgotten.
NextForgetful(x) == "link"

\* An external that another checkout has replaced is to be cancelled first.
NextToLink(x) == IF sub.ext \in {NoExt, x} THEN "link" ELSE "replace"

\* linkExternalSubscription starts with findById.  All it decides later it
\* decides by what it reads here.
TakeLinked(w, j) ==
  /\ work[w].pc = "free"
  /\ j \in jobs /\ j.kind = "linked"
  /\ jobs' = jobs \ {j}
  /\ work' = [work EXCEPT ![w] = [pc |-> NextToLink(j.ext), before |-> sub.ext,
                                 inForce |-> InForce, job |-> j]]
  /\ overlapped' = (overlapped \/ Overlaps)
  /\ UNCHANGED <<sub, licence, remote, admin, now, loose, lost, cut, failures>>

Found == [paid |-> "activate", failed |-> "overdue", deleted |-> "cancel"]

\* The other handlers start with the subscription linked to the external.
\* Without one, those of paid and failed throw, so as to be tried again, and
\* that of deleted returns.
Take(w, j) ==
  /\ work[w].pc = "free"
  /\ j \in jobs /\ j.kind # "linked"
  /\ \/ /\ sub.ext = j.ext
        /\ work' = [work EXCEPT ![w] = At(Found[j.kind], j)]
        /\ jobs' = jobs \ {j}
        /\ overlapped' = (overlapped \/ Overlaps)
     \/ /\ sub.ext # j.ext
        /\ jobs' = IF j.kind = "deleted" THEN jobs \ {j} ELSE Again(jobs \ {j}, j)
        /\ UNCHANGED <<work, overlapped>>
  /\ UNCHANGED <<sub, licence, remote, admin, now, loose, lost, cut, failures>>

\* The previous external is cancelled at the gateway.  When that fails, the
\* handler logs it and goes on.
Replace(w) ==
  /\ work[w].pc = "replace"
  /\ \/ /\ Cancelled(work[w].before)
        /\ UNCHANGED <<loose, failures>>
     \/ /\ failures < MaxFailures
        /\ failures' = failures + 1
        /\ loose' = loose \cup {work[w].before}
        /\ UNCHANGED <<remote, jobs>>
  /\ Goes(w, "link")
  /\ UNCHANGED <<sub, licence, admin, now, overlapped, lost, cut>>

\* A bug for the runs to catch: only the paid invoice activates.
NextOnlyLinked(w) == "done"

\* A completed session is a paid one (a card, a price above zero): what was not
\* in force yet is activated at once.
NextToActivate(w) == IF work[w].inForce THEN "done" ELSE "activate"

Link(w) ==
  /\ work[w].pc = "link"
  /\ sub' = [sub EXCEPT !.ext = Ext(w)]
  /\ work' = [work EXCEPT ![w] = At(NextToActivate(w), work[w].job)]
  /\ UNCHANGED <<licence, remote, jobs, admin, now, overlapped, loose, lost, cut, failures>>

\* activate: the UPDATE, whatever the status was.  The period is the invoice's,
\* or one interval of the plan from now: the same cycle.
Activate(w) ==
  /\ work[w].pc = "activate"
  /\ sub' = [status |-> "active", ext |-> sub.ext, until |-> now + 1]
  /\ Goes(w, "emit")
  /\ UNCHANGED <<licence, remote, jobs, admin, now, overlapped, loose, lost, cut, failures>>

\* A bug for the runs to catch: a live licence is taken as it is.
KeptLicence == IF licence.live THEN licence ELSE [live |-> TRUE, until |-> sub.until]

\* activate: the licence is emitted or renewed (Licenses).
RenewedLicence == [live |-> TRUE, until |-> now + 1]

Emit(w) ==
  /\ work[w].pc = "emit"
  /\ licence' = RenewedLicence
  /\ Goes(w, "done")
  /\ UNCHANGED <<sub, remote, jobs, admin, now, overlapped, loose, lost, cut, failures>>

\* markOverdue: the UPDATE, whatever the status was.  It reads the row first and
\* returns if it is overdue already, which comes to writing the same; it uses
\* nothing else of what it read: one step.
MarkOverdue(w) ==
  /\ work[w].pc = "overdue"
  /\ sub' = [sub EXCEPT !.status = "overdue"]
  /\ Goes(w, "done")
  /\ UNCHANGED <<licence, remote, jobs, admin, now, overlapped, loose, lost, cut, failures>>

\* cancelByExternal: the UPDATE, nothing to tell the gateway.  Here too the early
\* return of what is cancelled already comes to writing the same.
CancelByExternal(w) ==
  /\ work[w].pc = "cancel"
  /\ sub' = [sub EXCEPT !.status = "canceled"]
  /\ Goes(w, "done")
  /\ UNCHANGED <<licence, remote, jobs, admin, now, overlapped, loose, lost, cut, failures>>

\* The satellite is told and the event is marked as processed.
Done(w) ==
  /\ work[w].pc = "done"
  /\ work' = [work EXCEPT ![w] = Free]
  /\ UNCHANGED <<sub, licence, remote, jobs, admin, now, overlapped, loose, lost, cut, failures>>

\* An await rejects, or the process dies with the job: another attempt.
Fail(w) ==
  /\ work[w].pc # "free"
  /\ failures < MaxFailures
  /\ failures' = failures + 1
  /\ cut' = (cut \/ work[w].pc = "emit")
  /\ jobs' = Again(jobs, work[w].job)
  /\ work' = [work EXCEPT ![w] = Free]
  /\ UNCHANGED <<sub, licence, remote, admin, now, overlapped, loose, lost>>

-----------------------------------------------------------------------------
(* The admin API.                                                          *)

\* cancel: findById, and the early return of what is cancelled already.
Cancel(a, immediate) ==
  /\ admin[a].pc = "idle"
  /\ sub.status # "canceled"
  /\ admin' = [admin EXCEPT ![a] = [pc |-> "gateway", immediate |-> immediate, ext |-> sub.ext]]
  /\ overlapped' = (overlapped \/ \E w \in Workers : work[w].pc # "free")
  /\ UNCHANGED <<sub, licence, remote, jobs, work, now, loose, lost, cut, failures>>

\* A bug for the runs to catch: the gateway's refusal is logged, as in Replace.
CancelRegardless(a) ==
  /\ admin[a].pc = "gateway"
  /\ \/ Cancelled(admin[a].ext) /\ UNCHANGED failures
     \/ failures < MaxFailures /\ failures' = failures + 1 /\ UNCHANGED <<remote, jobs>>
  /\ admin' = [admin EXCEPT ![a] = [pc |-> "cancel", immediate |-> @.immediate, ext |-> NoExt]]
  /\ UNCHANGED <<sub, licence, work, now, overlapped, loose, lost, cut>>

\* cancel: the gateway first, ...
CancelAtGateway(a) ==
  /\ admin[a].pc = "gateway"
  /\ Cancelled(admin[a].ext)
  /\ admin' = [admin EXCEPT ![a] = [pc |-> "cancel", immediate |-> @.immediate, ext |-> NoExt]]
  /\ UNCHANGED <<sub, licence, work, now, overlapped, loose, lost, cut, failures>>

\* ... then the row, ...
CancelHere(a) ==
  /\ admin[a].pc = "cancel"
  /\ sub' = [sub EXCEPT !.status = "canceled"]
  /\ admin' = [admin EXCEPT ![a] = IF @.immediate THEN [@ EXCEPT !.pc = "revoke"] ELSE Over]
  /\ UNCHANGED <<licence, remote, jobs, work, now, overlapped, loose, lost, cut, failures>>

\* ... then the licence, if it was to end at once.
Revoke(a) ==
  /\ admin[a].pc = "revoke"
  /\ licence' = [licence EXCEPT !.live = FALSE]
  /\ admin' = [admin EXCEPT ![a] = Over]
  /\ UNCHANGED <<sub, remote, jobs, work, now, overlapped, loose, lost, cut, failures>>

\* createRecurringCheckout: refused while the subscription is in force.  The
\* session is created at the gateway an await later; nobody can pay in it
\* before, and one that is open already stays so: it is one step.
Checkout(x) ==
  /\ ~ InForce
  /\ remote[x].state = "none"
  /\ \A y \in Externals : y < x => remote[y].state # "none"
  /\ remote' = [remote EXCEPT ![x].state = "open"]
  /\ UNCHANGED <<sub, licence, jobs, work, admin, now, overlapped, loose, lost, cut, failures>>

\* An await of the request rejects: an error for the administrator.
AdminFails(a) ==
  /\ admin[a].pc \in {"gateway", "cancel", "revoke"}
  /\ failures < MaxFailures
  /\ failures' = failures + 1
  /\ admin' = [admin EXCEPT ![a] = Idle]
  /\ UNCHANGED <<sub, licence, remote, jobs, work, now, overlapped, loose, lost, cut>>

-----------------------------------------------------------------------------

Step(w) ==
  \/ Replace(w) \/ Link(w) \/ Activate(w) \/ Emit(w)
  \/ MarkOverdue(w) \/ CancelByExternal(w) \/ Done(w)

Work(w) == Step(w) \/ \E j \in jobs : TakeLinked(w, j) \/ Take(w, j)

Next ==
  \/ \E x \in Externals : Checkout(x) \/ Completes(x) \/ Renews(x) \/ Declines(x) \/ Ends(x)
  \/ \E j \in jobs : NeverQueued(j)
  \/ \E w \in Workers : Work(w) \/ Fail(w)
  \/ \E a \in Admins :
       \/ \E immediate \in BOOLEAN : Cancel(a, immediate)
       \/ CancelAtGateway(a) \/ CancelHere(a) \/ Revoke(a)
       \/ AdminFails(a)
  \/ Tick

Spec == Init /\ [][Next]_vars

\* The workers take what is queued and finish what they take.  Nothing obliges
\* the gateway, the customer or an administrator.
FairSpec == Spec /\ \A w \in Workers : WF_vars(Work(w))

-----------------------------------------------------------------------------

\* The gateway bills nobody on the side: an external that is alive is the one
\* the subscription is linked to, or its link is on the way.  A customer who
\* pays in two checkouts has the first cancelled when the second is linked; an
\* event that is tried again, and again overtaken, does not undo that.  What
\* remains loose is what the gateway refused to cancel, which the link only logs,
\* and what a link that was never queued was about.
Linking(x) == \/ \E j \in jobs : j.kind = "linked" /\ j.ext = x
              \/ \E w \in Workers : /\ work[w].pc \in {"replace", "link"}
                                    /\ Ext(w) = x
NoLooseBilling ==
  \A x \in Externals : remote[x].state = "live" =>
    sub.ext = x \/ Linking(x) \/ x \in loose \cup lost["linked"]

\* What the comment in cancel is afraid of: a subscription that the Hub shows as
\* cancelled while the card is charged every cycle.  It takes an administrator
\* whose cancellation overlaps with a handler of the same subscription.
CanceledIsNotBilled ==
  sub.status = "canceled" /\ sub.ext # NoExt /\ remote[sub.ext].state = "live" =>
    Linking(sub.ext) \/ (\E w \in Workers : work[w].pc = "activate") \/ overlapped

\* Who is shown as paid has access until the end of the period: activate writes
\* the row and then the licence, and nothing comes between them but a failure
\* or an administrator who revokes meanwhile.
InForceIsLicensed ==
  InForce =>
    \/ licence.live /\ licence.until >= sub.until
    \/ \E w \in Workers : work[w].pc = "emit"
    \/ cut \/ overlapped

\* A customer who has paid for the cycle is credited with it in the end, in
\* whatever order the events come: the invoice's may use up its attempts before
\* the link exists, the link then activates on its own.  Either may have been
\* lost before it was queued, which nothing makes up for.
PaidFor(x) == remote[x].state = "live" /\ remote[x].until > now
PaidIsCredited ==
  \A x \in Externals :
    PaidFor(x) ~> \/ sub.until > now \/ ~ PaidFor(x)
                  \/ x \in loose \cup lost["linked"] \cup lost["paid"] \/ overlapped

=============================================================================
