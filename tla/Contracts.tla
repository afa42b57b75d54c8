------------------------------- MODULE Contracts -------------------------------
(***************************************************************************)
(* The subscriptions of a customer to a product, one after the other or,   *)
(* where the look-up before an INSERT does not prevent it, side by side:   *)
(* SubscriptionsService over the licence service.                          *)
(*                                                                         *)
(* Subscriptions follows one row and what its gateway bills; here there    *)
(* are several rows, paid invoice by invoice, and the one licence they     *)
(* share.  An operation is a record like a call, and where it reaches the  *)
(* licence service it is one of the callers of Licenses:                   *)
(*                                                                         *)
(*   create    look   -> insert [-> emit -> called]                        *)
(*   activate  find   -> update  -> emit -> called                         *)
(*   overdue   find   -> update                                            *)
(*   plan      find   -> update  -> licence -> found -> called            *)
(*   cancel    find   -> update [-> licence -> found -> called]           *)
(*                                                                         *)
(* The others who write to that licence take part too: orders, manual      *)
(* emissions and the trial of an access request, the administrator who     *)
(* suspends, reactivates or revokes it, and the expiry jobs.               *)
(*                                                                         *)
(* Which plan a row is on and what it costs is left out: no operation but  *)
(* the change itself looks at it.  So are the gateway that a cancellation  *)
(* asks first (Subscriptions) and the event it records (EventOutbox).      *)
(***************************************************************************)
EXTENDS Licenses

CONSTANTS
  Subs,      \* rows the table of subscriptions may come to hold
  PairOfSub, \* the customer and the product of each
  Term,      \* days a payment is good for
  Trial,     \* days of a trial
  Slack,     \* 7 in the code: days from the end of a period to the licence's
  MaxOps     \* bound: operations and runs of the expiry jobs begun

ASSUME ContractsAssumption ==
  /\ PairOfSub \in [Subs -> Pairs]
  /\ {Term, Trial, Slack, MaxOps} \subseteq Nat

VARIABLES
  sub,      \* sub[s]: its status and the end of the period that is paid
  op,       \* op[c]: the operation that caller c is at
  begun,    \* operations and runs of the expiry jobs begun so far
  held,     \* history: who had a licence in hand when it was revoked
  loose,    \* history: pairs whose licence somebody else has emitted or revoked
            \* since it was last paid for
  beside,   \* history: two creations overlapped, or a canceled row came back
  crossed   \* history: an activation overlapped with another operation on the
            \* licence, or with a run of an expiry job

contractVars == <<sub, op, begun, held, loose, beside, crossed>>
allVars == <<vars, contractVars>>

SubStatuses == {"absent", "pending", "trialing", "active", "overdue", "canceled"}

SubRow == [status: SubStatuses, until: Dates]

NoSub == [status |-> "absent", until |-> NoDate]

\* until: the period to be written; id: the licence that was found.
Operation == [pc: {"idle", "insert", "update", "emit", "licence", "found", "called"},
              kind: {"none", "create", "trial", "activate", "overdue", "plan",
                     "cancel", "cancelNow", "issue", "admin", "revoke"},
              sub: Subs \cup {"none"}, until: Dates, id: Ids]

NoOp == [pc |-> "idle", kind |-> "none", sub |-> "none",
         until |-> NoDate, id |-> CHOOSE i \in Ids : TRUE]

ContractsTypeOK ==
  /\ sub \in [Subs -> SubRow]
  /\ op \in [Calls -> Operation]
  /\ begun \in Nat
  /\ held \subseteq Procs
  /\ loose \subseteq Pairs
  /\ beside \in BOOLEAN /\ crossed \in BOOLEAN

ContractsInit ==
  /\ Init
  /\ sub = [s \in Subs |-> NoSub]
  /\ op = [c \in Calls |-> NoOp]
  /\ begun = 0
  /\ held = {} /\ loose = {}
  /\ beside = FALSE /\ crossed = FALSE

-----------------------------------------------------------------------------

\* A bug for the run to catch: a subscription that is still to be paid is none.
OnlyPaid(p) == {s \in Subs : PairOfSub[s] = p /\ sub[s].status \in {"trialing", "active", "overdue"}}

\* findActiveByCustomerAndProduct: all but the canceled ones.
InForce(p) == {s \in Subs : PairOfSub[s] = p /\ sub[s].status \notin {"absent", "canceled"}}

Pair(c) == PairOfSub[op[c].sub]

Goes(c, pc) == op' = [op EXCEPT ![c].pc = pc]

Ends(c) == op' = [op EXCEPT ![c] = NoOp]

\* The licence service is called: what is left does not depend on the operation.
CallsOn(c) == op' = [op EXCEPT ![c] = [NoOp EXCEPT !.pc = "called", !.kind = op[c].kind]]

\* The operations whose reads and writes of the licence may get mixed up.
Touches == {"trial", "activate", "plan", "cancelNow", "issue", "admin", "revoke"}
Touching == {c \in Calls : op[c].kind \in Touches}

Paying == {c \in Calls : op[c].kind = "activate"}

Sweeping == {w \in Sweepers : call[w] # Idle}

Counts == begun < MaxOps /\ begun' = begun + 1

\* c begins an operation, on s if it is one on a subscription.  History: it may
\* cross an activation.
Begins(c, kind, pc, s, until) ==
  /\ op[c] = NoOp
  /\ Counts
  /\ op' = [op EXCEPT ![c] = [NoOp EXCEPT !.pc = pc, !.kind = kind, !.sub = s, !.until = until]]
  /\ crossed' = \/ crossed
                \/ kind = "activate" /\ Touching \cup Sweeping # {}
                \/ kind \in Touches /\ Paying # {}

\* create: the look-up.  Its conflict changes nothing.
Create(c, kind, s) ==
  /\ sub[s].status = "absent" /\ \A d \in Calls : op[d].pc = "insert" => op[d].sub # s
  /\ InForce(PairOfSub[s]) = {}
  /\ Begins(c, kind, "insert", s, NoDate)
  /\ beside' = (beside \/ \E d \in Calls : op[d].pc = "insert")
  /\ UNCHANGED <<vars, sub, held, loose>>

\* The two INSERTs, the invoice's being left to Settlement.  A trial's licence is
\* emitted at once.
Insert(c) ==
  /\ op[c].pc = "insert"
  /\ sub' = [sub EXCEPT ![op[c].sub].status = IF op[c].kind = "trial" THEN "trialing" ELSE "pending"]
  /\ IF op[c].kind = "trial"
     THEN op' = [op EXCEPT ![c].pc = "emit", ![c].until = now + Trial]
     ELSE Ends(c)
  /\ UNCHANGED <<begun, vars, held, loose, beside, crossed>>

\* A payment: the period is computed, and findById.  No status is tested.
Activate(c, s) ==
  /\ sub[s].status # "absent"
  /\ Begins(c, "activate", "update", s, now + Term)
  /\ UNCHANGED <<vars, sub, held, loose, beside>>

MarkOverdue(c, s) ==
  /\ sub[s].status \notin {"absent", "overdue"}
  /\ Begins(c, "overdue", "update", s, NoDate)
  /\ UNCHANGED <<vars, sub, held, loose, beside>>

ChangePlan(c, s) ==
  /\ sub[s].status \in {"active", "overdue", "trialing"}
  /\ Begins(c, "plan", "update", s, NoDate)
  /\ UNCHANGED <<vars, sub, held, loose, beside>>

Cancel(c, kind, s) ==
  /\ sub[s].status \notin {"absent", "canceled"}
  /\ Begins(c, kind, "update", s, NoDate)
  /\ UNCHANGED <<vars, sub, held, loose, beside>>

\* The UPDATE, by the id alone.
Update(c) ==
  /\ op[c].pc = "update"
  /\ LET s == op[c].sub IN
     sub' = CASE op[c].kind = "activate" ->
                   [sub EXCEPT ![s] = [status |-> "active", until |-> op[c].until]]
              [] op[c].kind = "overdue" -> [sub EXCEPT ![s].status = "overdue"]
              [] op[c].kind \in {"cancel", "cancelNow"} -> [sub EXCEPT ![s].status = "canceled"]
              [] OTHER -> sub
  /\ beside' = (beside \/ (sub[op[c].sub].status = "canceled"
                             /\ sub'[op[c].sub].status # "canceled"))
  /\ CASE op[c].kind = "activate" -> Goes(c, "emit")
       [] op[c].kind \in {"plan", "cancelNow"} -> Goes(c, "licence")
       [] OTHER -> Ends(c)
  /\ loose' = IF op[c].kind = "activate" THEN loose \ {Pair(c)} ELSE loose
  /\ UNCHANGED <<begun, vars, held, crossed>>

\* A bug for the run to catch: the licence ends with the day of the payment.
FromToday(c) == Asked("subscription", now, DefaultGrace)

\* What emit is asked for.
Promised(c) ==
  IF op[c].kind = "trial" THEN Asked("trial", op[c].until, DefaultGrace)
  ELSE Asked("subscription", op[c].until + Slack, DefaultGrace)

Emit(c) ==
  /\ op[c].pc = "emit"
  /\ EmitFind(c, Pair(c), Promised(c))
  /\ CallsOn(c)
  /\ UNCHANGED <<begun, sub, held, loose, beside, crossed>>

\* changePlan and an immediate cancellation look for the pair's licence, whichever
\* subscription it was paid by.
FindLicence(c) ==
  /\ op[c].pc = "licence"
  /\ \/ Live(Pair(c)) = {} /\ Ends(c)
     \/ \E i \in Live(Pair(c)) : op' = [op EXCEPT ![c] =
                               [NoOp EXCEPT !.pc = "found", !.kind = op[c].kind, !.id = i]]
  /\ UNCHANGED <<begun, vars, sub, held, loose, beside, crossed>>

\* renew without an expiry, and revoke: by the id that was found.
OnLicence(c) ==
  /\ op[c].pc = "found"
  /\ Begin(c, IF op[c].kind = "plan" THEN "renew" ELSE "revoke", op[c].id)
  /\ CallsOn(c)
  /\ UNCHANGED <<begun, sub, held, loose, beside, crossed>>

\* An await outside of the licence service rejects.
BreakOff(c) ==
  /\ op[c].pc \notin {"idle", "called"}
  /\ failures < MaxFailures /\ failures' = failures + 1
  /\ Ends(c) /\ held' = held \ {c}
  /\ UNCHANGED <<begun, lic, call, now, sub, loose, beside, crossed>>

\* c is at an operation on licence i, or has it on its list.
InHand(c, i) ==
  \/ call[c].pc \in {"read", "write"} /\ call[c].id = i
  \/ i \in call[c].todo
  \/ c \in Calls /\ op[c].pc = "found" /\ op[c].id = i

\* History: this step of c revokes a licence that others have in hand, or c is done.
Holds(c) ==
  held' = IF call'[c] = Idle THEN held \ {c}
          ELSE held \cup {d \in Procs \ {c} : \E i \in Ids :
                            /\ lic[i].status # "revoked" /\ lic'[i].status = "revoked"
                            /\ InHand(d, i)}

\* A step of the licence service.  The operation is over when it returns or throws.
LicenceStep(c) ==
  /\ Step(c) \/ Fail(c)
  /\ Holds(c)
  /\ IF call'[c] = Idle THEN Ends(c) ELSE UNCHANGED op
  /\ UNCHANGED <<begun, sub, loose, beside, crossed>>

-----------------------------------------------------------------------------
(* The others who write to the licence.                                    *)

\* A paid order, a manual emission, or the trial an access request starts.
Issue(c, p) ==
  /\ \E par \in Offers : EmitFind(c, p, par)
  /\ Begins(c, "issue", "called", "none", NoDate)
  /\ loose' = loose \cup {p}
  /\ UNCHANGED <<sub, held, beside>>

\* The administrator suspends or reactivates any licence, whatever its status.  An
\* early return changes nothing.
Administer(c, o, i) ==
  /\ Begin(c, o, i) /\ call'[c] # Idle
  /\ Begins(c, "admin", "called", "none", NoDate)
  /\ UNCHANGED <<sub, held, loose, beside>>

Revoke(c, i) ==
  /\ Begin(c, "revoke", i)
  /\ Begins(c, "revoke", "called", "none", NoDate)
  /\ loose' = loose \cup {PairOf[i]}
  /\ UNCHANGED <<sub, held, beside>>

\* cron starts an expiry job.  History: it may cross an activation.
StartSweep(w) ==
  /\ Counts
  /\ \E job \in {"hourlyLicenses", "daily"} : Sweep(w, job)
  /\ crossed' = (crossed \/ Paying # {})
  /\ UNCHANGED <<sub, op, held, loose, beside>>

\* The job goes on.
SweepOn(w) ==
  /\ SweepPick(w) \/ SweepNext(w) \/ Step(w) \/ Fail(w)
  /\ Holds(w)
  /\ UNCHANGED <<sub, op, begun, loose, beside, crossed>>

-----------------------------------------------------------------------------

ContractsNext ==
  \/ \E c \in Calls, s \in Subs :
       \/ \E kind \in {"create", "trial"} : Create(c, kind, s)
       \/ Activate(c, s) \/ MarkOverdue(c, s) \/ ChangePlan(c, s)
       \/ \E kind \in {"cancel", "cancelNow"} : Cancel(c, kind, s)
  \/ \E c \in Calls :
       \/ Insert(c) \/ Update(c) \/ Emit(c) \/ FindLicence(c) \/ OnLicence(c)
       \/ BreakOff(c) \/ LicenceStep(c)
       \/ \E p \in Pairs : Issue(c, p)
       \/ \E i \in Ids : \/ \E o \in {"suspend", "reactivate"} : Administer(c, o, i)
                        \/ Revoke(c, i)
  \/ \E w \in Sweepers : StartSweep(w) \/ SweepOn(w)
  \/ Tick /\ UNCHANGED contractVars

ContractsSpec == ContractsInit /\ [][ContractsNext]_allVars

-----------------------------------------------------------------------------
(* What the contracts promise.                                             *)

\* A customer has one subscription to a product at a time: that is all the look-up
\* before the INSERT can give.  Creations that overlap, and a payment or a refused
\* card that is heard of after the cancellation, bring two.
OneContract ==
  ~ beside => \A p \in Pairs : Cardinality(InForce(p)) <= 1

\* s is shown as paid, its licence is not over, and nobody else has emitted or
\* revoked it since the payment.
PaidFor(s) ==
  /\ sub[s].status = "active" /\ PairOfSub[s] \notin loose
  /\ sub[s].until + Slack >= now

\* Who is shown as paid until some day has a licence for exactly that long, whatever
\* changes of plan, cancellations of earlier subscriptions, late events, expiry jobs
\* and an administrator who suspends and reactivates come between, if no activation
\* crossed with another operation on the licence or with an expiry job.
TermKept ==
  \A s \in Subs :
    /\ PaidFor(s) /\ ~ beside /\ ~ crossed /\ failures = 0 /\ Paying = {}
    => \E i \in Live(PairOfSub[s]) : lic[i].expires = sub[s].until + Slack

\* What has been revoked comes back only by a write of somebody who had found the
\* licence before: a payment, another emission, a change of plan, an expiry job or a
\* request of the administrator; or because the administrator suspends or reactivates
\* it.  No later event of a subscription brings it back.
RevokedStays ==
  [][\A i \in Ids :
       lic[i].status = "revoked" /\ lic'[i].status \in LiveStatuses
       => \E c \in Procs :
            /\ call[c].pc = "write" /\ call[c].id = i
            /\ c \in held \/ (c \in Calls /\ op[c].kind = "admin")]_allVars
================================================================================
