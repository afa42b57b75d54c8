----------------------------- MODULE Settlement -----------------------------
(***************************************************************************)
(* How the Hub learns that a charge was paid, refused, expired or charged  *)
(* back, and what it does about it: the handlers of InvoicesService, the   *)
(* workers that run them for a webhook event, the three minutely jobs that *)
(* ask a gateway about pending charges, each in its own way, and the two   *)
(* cron jobs that update charges behind everybody's back.  One invoice and *)
(* its charges.                                                            *)
(*                                                                         *)
(* Every await on the database is a step, and none is in a transaction:    *)
(*                                                                         *)
(*   find -> charge -> payment -> invoice -> grant -> notify -> done       *)
(*                                              markPaid                   *)
(*   find -> charge -> invoice -> suspend -> notify -> done                *)
(*                                              handleChargeback           *)
(*   find -> charge -> notify -> done           markFailed,                *)
(*                                              markChargeExpired          *)
(*                                                                         *)
(* markFailed's branch for the last attempt is left out: every caller of   *)
(* createCharge says attempt 1 of 3.  Activating the subscription or the   *)
(* order and emitting its licence, modelled in Licenses, is one step here. *)
(***************************************************************************)
EXTENDS Integers, FiniteSets, Sequences

CONSTANTS
  Charges,      \* charges a customer may start, numbered in that order; also
                \* the payments the gateway keeps for them
  Workers,      \* webhook workers
  Syncs,        \* runs of the jobs that ask a gateway about pending charges
  GatewayOf,    \* the gateway that a run asks: each of three has a job of its own
  Crons,        \* runs of the overdue-retry job
  Offered,      \* bound: the means, one after the other, of an invoice's charges
  Batch,        \* 20 in the code: payments a sync asks about at most
  Attempts,     \* 5 in the code: attempts BullMQ makes for an event
  MaxFailures   \* bound: awaits that reject

ASSUME SettlementAssumption ==
  /\ Charges # {} /\ Charges \subseteq Nat \ {0}
  /\ Workers \cap Syncs = {} /\ Workers \cap Crons = {} /\ Syncs \cap Crons = {}
  /\ GatewayOf \in [Syncs -> {"mercadopago", "stripe", "livepix"}]
  /\ Offered \subseteq Seq({"pix", "hosted", "session", "livepix", "asaas"})
  /\ {Batch, Attempts} \subseteq Nat \ {0}
  /\ MaxFailures \in Nat

VARIABLES
  origin,    \* what the invoice is for
  remote,    \* remote[p]: what the gateway knows of payment p
  jobs,      \* jobs[p, kind]: attempts left for that event, 0 when none is queued
  charge,    \* charge[r]: row r of the charges table
  payments,  \* payments[r]: rows of the payments table for charge r
  invoice,   \* the status of the invoice
  licence,   \* the licence the invoice pays for
  told,      \* what the satellite system was told, as <<payment, kind>>
  call,      \* call[c]: the progress of worker, sync or cron c
  limited,   \* LivePix has limited the client's calls: no run begins meanwhile
  aged,      \* charges more than a day old, which the LivePix job lists no more
  crowded,   \* LivePix payments that newer ones drove from the list it answers
  cut,       \* charges whose payment row was about to be inserted when an
             \* await rejected (history)
  failures   \* awaits that rejected so far

vars == <<origin, remote, jobs, charge, payments, invoice, licence, told,
          call, limited, aged, crowded, cut, failures>>

\* What LivePix's job looks at, which no handler touches.
livepix == <<limited, aged, crowded>>

Procs == Workers \cup Syncs \cup Crons

Kinds    == {"paid", "failed", "expired", "chargeback"}
NoId     == 0    \* the row holds a preference: its payment has an id of its own

\* How a charge is paid: at Mercado Pago by a Pix code that expires or on a hosted
\* page that makes a payment of its own, in a session of Stripe's, on a page of
\* LivePix's, by an Asaas code, which expires and which no job asks about.
Means == {"pix", "hosted", "session", "livepix", "asaas"}

Issuer(means) ==
  CASE means \in {"pix", "hosted"} -> "mercadopago"
    [] means = "session"           -> "stripe"
    [] OTHER                       -> means

Statuses == {"absent", "pending", "paid", "failed", "canceled", "refunded"}

Charge == [status: Statuses, ext: Charges \cup {NoId}, means: Means, retry: BOOLEAN]

Call == [pc: {"idle", "ask", "pick", "find", "charge", "payment", "invoice", "grant",
              "suspend", "notify", "done"},
         kind: Kinds \cup {"none"}, pay: Charges \cup {NoId},
         row: Charges \cup {0}, seen: Statuses, todo: SUBSET Charges]

Idle == [pc |-> "idle", kind |-> "none", pay |-> NoId, row |-> 0,
         seen |-> "absent", todo |-> {}]

TypeOK ==
  /\ origin \in {"subscription", "order"}
  /\ remote \in [Charges -> {"none", "pending", "completed", "approved", "lapsed",
                          "declined", "chargedback"}]
  /\ jobs \in [Charges \X Kinds -> 0 .. Attempts]
  /\ charge \in [Charges -> Charge]
  /\ payments \in [Charges -> Nat]
  /\ invoice \in {"open", "paid", "void"}
  /\ licence \in {"none", "active", "suspended"}
  /\ told \subseteq Charges \X Kinds
  /\ call \in [Procs -> Call]
  /\ limited \in BOOLEAN
  /\ aged \subseteq Charges /\ crowded \subseteq Charges /\ cut \subseteq Charges
  /\ failures \in Nat

Init ==
  /\ origin \in {"subscription", "order"}
  /\ remote = [p \in Charges |-> "none"]
  /\ jobs = [j \in Charges \X Kinds |-> 0]
  /\ charge = [r \in Charges |->
                [status |-> "absent", ext |-> NoId, means |-> "pix", retry |-> FALSE]]
  /\ payments = [r \in Charges |-> 0]
  /\ invoice = "open"
  /\ licence = "none"
  /\ told = {}
  /\ call = [c \in Procs |-> Idle]
  /\ limited = FALSE
  /\ aged = {} /\ crowded = {} /\ cut = {}
  /\ failures = 0

-----------------------------------------------------------------------------
(* The gateway and the customer.                                           *)

Existing == {r \in Charges : charge[r].status # "absent"}

\* A preference of Mercado Pago's is no payment yet: the row waits for its id.
NewRow(r, means) ==
  [status |-> "pending", means |-> means, retry |-> FALSE,
   ext |-> IF means = "hosted" THEN NoId ELSE r]

\* createCheckout: the gateway's charge, then the row.  Nobody can pay before the
\* answer that carries the link or the QR code, so they are one step.
Checkout(r, means) ==
  /\ charge[r].status = "absent"
  /\ \E plan \in Offered :
       /\ r \in DOMAIN plan /\ plan[r] = means
       /\ \A s \in 1 .. r - 1 : s \in Existing /\ plan[s] = charge[s].means
  /\ charge' = [charge EXCEPT ![r] = NewRow(r, means)]
  /\ remote' = [remote EXCEPT ![r] = "pending"]
  /\ UNCHANGED <<origin, jobs, payments, invoice, licence, told, call, livepix, cut, failures>>

\* The gateway decides, and a notice of that is queued or none ever arrives.
Decides(p, from, to, kinds) ==
  /\ remote[p] = from
  /\ remote' = [remote EXCEPT ![p] = to]
  /\ \/ \E kind \in kinds : jobs' = [jobs EXCEPT ![<<p, kind>>] = Attempts]
     \/ UNCHANGED jobs
  /\ UNCHANGED <<origin, charge, payments, invoice, licence, told, call, livepix, cut, failures>>

\* A session of Stripe's may be completed before it is paid, by a boleto: the
\* notice of the completion counts as one of the payment, and what becomes of it
\* then is not heard of, nor is a chargeback.  LivePix tells of payments only.
\* An Asaas notice is one that bears a name the Hub knows.
Gateway(p) ==
  LET means == charge[p].means IN
  \/ Decides(p, "pending", "approved", {"paid"})
  \/ /\ means # "livepix"
     /\ Decides(p, "pending", "declined",
                IF means = "asaas" THEN {"failed", "expired"} ELSE {"failed"})
  \/ /\ means # "livepix"
     /\ Decides(p, "approved", "chargedback",
                CASE means = "asaas" -> {"chargeback"}
                  [] means = "session" -> {}
                  [] OTHER -> {"failed"})
  \/ /\ means = "session"
     /\ \/ Decides(p, "pending", "completed", {"paid"})
        \/ Decides(p, "completed", "approved", {})
        \/ Decides(p, "completed", "lapsed", {})

\* LivePix limits the client, for any call of its, and a minute later no more:
\* looked at while there is a charge of its to ask about.
Limit ==
  /\ \E r \in Existing : charge[r].means = "livepix"
  /\ limited' = ~ limited
  /\ UNCHANGED <<origin, remote, jobs, charge, payments, invoice, licence, told, call,
                 aged, crowded, cut, failures>>

\* A day passes over a charge, or fifty newer payments come in after a payment.
Age(r) ==
  /\ r \in Existing /\ charge[r].means = "livepix"
  /\ aged' = aged \cup {r}
  /\ UNCHANGED <<origin, remote, jobs, charge, payments, invoice, licence, told, call,
                 limited, crowded, cut, failures>>

Crowd(p) ==
  /\ remote[p] = "approved" /\ charge[p].means = "livepix"
  /\ crowded' = crowded \cup {p}
  /\ UNCHANGED <<origin, remote, jobs, charge, payments, invoice, licence, told, call,
                 limited, aged, cut, failures>>

-----------------------------------------------------------------------------
(* The handlers.                                                           *)

Newest(R) == {r \in R : \A s \in R : s <= r}

\* resolveChargeForEvent: by external id, and for markPaid, whose payload holds
\* the external reference unless it is LivePix's, by origin: the newest charge of
\* that origin.
Candidates(kind, p) ==
  LET known == {r \in Existing : charge[r].ext = p} IN
  IF known # {} THEN known
  ELSE IF kind = "paid" /\ charge[p].means # "livepix" THEN Existing ELSE {}

\* The call is over: a worker waits for its next job, a sync goes on with its list.
Returned(c) == [Idle EXCEPT !.pc = IF c \in Workers THEN "idle" ELSE "pick",
                            !.todo = call[c].todo]

Goes(c, pc) == call' = [call EXCEPT ![c].pc = pc]

\* A handler finishes: for a job, the event is still to be marked as processed.
Ends(c) == IF c \in Workers THEN Goes(c, "done")
                            ELSE call' = [call EXCEPT ![c] = Returned(c)]

Find(c) ==
  LET k == call[c]
      R == Candidates(k.kind, k.pay)
  IN
  /\ k.pc = "find"
  /\ \/ R = {} /\ Ends(c)
     \/ \E r \in Newest(R) :
          call' = [call EXCEPT ![c].pc = "charge", ![c].row = r, ![c].seen = charge[r].status]
  /\ UNCHANGED <<origin, remote, jobs, charge, payments, invoice, licence, told, livepix, cut, failures>>

\* updateCharge tests no status.  Only markPaid and markFailed give the external
\* id, which links a hosted checkout to the payment.
Marked(kind, p, row) ==
  CASE kind = "paid"       -> [row EXCEPT !.status = "paid", !.ext = p]
    [] kind = "failed"     -> [row EXCEPT !.status = "failed", !.ext = p, !.retry = TRUE]
    [] kind = "expired"    -> [row EXCEPT !.status = "canceled"]
    [] kind = "chargeback" -> [row EXCEPT !.status = "refunded"]

\* Bugs for the runs to catch: only a pending charge gets a payment row; a
\* charge that is paid already needs nothing more.
AfterChargePendingOnly(k) ==
  CASE k.kind = "paid"       -> IF k.seen = "pending" THEN "payment" ELSE "invoice"
    [] k.kind = "chargeback" -> "invoice"
    [] OTHER                 -> "notify"

AfterChargeOnce(k) ==
  CASE k.kind = "paid"       -> IF k.seen = "paid" THEN "notify" ELSE "payment"
    [] k.kind = "chargeback" -> "invoice"
    [] OTHER                 -> "notify"

\* What follows the charge: a payment row unless the charge was paid when read.
AfterCharge(k) ==
  CASE k.kind = "paid"       -> IF k.seen = "paid" THEN "invoice" ELSE "payment"
    [] k.kind = "chargeback" -> "invoice"
    [] OTHER                 -> "notify"

UpdateCharge(c) ==
  LET k == call[c] IN
  /\ k.pc = "charge"
  /\ charge' = [charge EXCEPT ![k.row] = Marked(k.kind, k.pay, charge[k.row])]
  /\ Goes(c, AfterCharge(k))
  /\ UNCHANGED <<origin, remote, jobs, payments, invoice, licence, told, livepix, cut, failures>>

CreatePayment(c) ==
  /\ call[c].pc = "payment"
  /\ payments' = [payments EXCEPT ![call[c].row] = @ + 1]
  /\ Goes(c, "invoice")
  /\ UNCHANGED <<origin, remote, jobs, charge, invoice, licence, told, livepix, cut, failures>>

\* A chargeback of an order ends here: no suspension and no notice.
UpdateInvoice(c) ==
  /\ call[c].pc = "invoice"
  /\ \/ /\ call[c].kind = "paid"
        /\ invoice' = "paid"
        /\ Goes(c, "grant")
     \/ /\ call[c].kind = "chargeback"
        /\ invoice' = "void"
        /\ IF origin = "subscription" THEN Goes(c, "suspend") ELSE Ends(c)
  /\ UNCHANGED <<origin, remote, jobs, charge, payments, licence, told, livepix, cut, failures>>

\* activateSubscriptionFromPayment, activateOrderFromPayment: emit a licence,
\* or renew the one there is.
Grant(c) ==
  /\ call[c].pc = "grant"
  /\ licence' = "active"
  /\ Goes(c, "notify")
  /\ UNCHANGED <<origin, remote, jobs, charge, payments, invoice, told, livepix, cut, failures>>

\* licenses.suspend: only once the grace period, which is not modelled, is over.
Suspend(c) ==
  /\ call[c].pc = "suspend"
  /\ \/ licence = "active" /\ licence' = "suspended"
     \/ UNCHANGED licence
  /\ Goes(c, "notify")
  /\ UNCHANGED <<origin, remote, jobs, charge, payments, invoice, told, livepix, cut, failures>>

\* internalEvents.dispatch.
Notify(c) ==
  /\ call[c].pc = "notify"
  /\ told' = told \cup {<<call[c].pay, call[c].kind>>}
  /\ Ends(c)
  /\ UNCHANGED <<origin, remote, jobs, charge, payments, invoice, licence, livepix, cut, failures>>

-----------------------------------------------------------------------------
(* Who calls the handlers.                                                 *)

\* A worker takes an event that no other worker is at.
Take(w, p, kind) ==
  /\ call[w] = Idle
  /\ jobs[<<p, kind>>] > 0
  /\ \A v \in Workers : <<call[v].pay, call[v].kind>> # <<p, kind>>
  /\ call' = [call EXCEPT ![w] = [Idle EXCEPT !.pc = "find", !.kind = kind, !.pay = p]]
  /\ UNCHANGED <<origin, remote, jobs, charge, payments, invoice, licence, told, livepix, cut, failures>>

\* markProcessed, and BullMQ removes the job.
Done(w) ==
  /\ call[w].pc = "done"
  /\ jobs' = [jobs EXCEPT ![<<call[w].pay, call[w].kind>>] = 0]
  /\ call' = [call EXCEPT ![w] = Returned(w)]
  /\ UNCHANGED <<origin, remote, charge, payments, invoice, licence, told, livepix, cut, failures>>

\* What a rejected job costs the event: one of its attempts.
AttemptsLeft(n) == n - 1

\* An await rejects.  BullMQ makes another attempt; a sync catches the error and
\* goes on with its list.
Fail(c) ==
  LET k == call[c] IN
  /\ k.kind # "none"
  /\ failures < MaxFailures
  /\ failures' = failures + 1
  /\ cut' = IF k.pc = "payment" THEN cut \cup {k.row} ELSE cut
  /\ jobs' = IF c \in Workers
             THEN [jobs EXCEPT ![<<k.pay, k.kind>>] = AttemptsLeft(@)] ELSE jobs
  /\ call' = [call EXCEPT ![c] = Returned(c)]
  /\ UNCHANGED <<origin, remote, charge, payments, invoice, licence, told, livepix>>

\* The payments a job lists: those of its gateway's pending rows, among which
\* LivePix's job looks at the recent ones.  Left out are rows that the fallback by
\* origin linked to a payment elsewhere, which the gateway does not know.
Pending(gateway) ==
  LET At(r) == Issuer(charge[r].means) = gateway
      Listed == {r \in Existing : /\ charge[r].status = "pending"
                                  /\ charge[r].ext # NoId
                                  /\ At(r) /\ At(charge[r].ext)
                                  /\ gateway # "livepix" \/ r \notin aged}
  IN  {charge[r].ext : r \in Listed}

\* Which ones the SELECT takes when there are more than a batch is left open.  The
\* job of LivePix does not begin while the client is limited.
SyncList(s, P) ==
  LET gateway == GatewayOf[s] IN
  /\ call[s] = Idle
  /\ gateway = "livepix" => ~ limited
  /\ P # {} /\ P \subseteq Pending(gateway)
  /\ P = Pending(gateway) \/ Cardinality(P) = Batch
  /\ Cardinality(P) <= Batch
  /\ call' = [call EXCEPT ![s] = [Idle EXCEPT !.pc = IF gateway = "livepix" THEN "ask" ELSE "pick",
                                             !.todo = P]]
  /\ UNCHANGED <<origin, remote, jobs, charge, payments, invoice, licence, told, livepix, cut, failures>>

\* LivePix is asked once, for the newest payments it received: the job goes on
\* with those among them that it listed, whatever becomes of their charges.
Received(s) ==
  /\ call[s].pc = "ask"
  /\ call' = [call EXCEPT ![s].pc = "pick",
                         ![s].todo = {p \in @ : remote[p] = "approved" /\ p \notin crowded}]
  /\ UNCHANGED <<origin, remote, jobs, charge, payments, invoice, licence, told, livepix, cut, failures>>

\* That call fails, and the job is over for this minute.
NotReceived(s) ==
  /\ call[s].pc = "ask"
  /\ failures < MaxFailures
  /\ failures' = failures + 1
  /\ call' = [call EXCEPT ![s] = Idle]
  /\ UNCHANGED <<origin, remote, jobs, charge, payments, invoice, licence, told, livepix, cut>>

\* Bugs for the runs to catch: any final status counts as paid; the status that
\* means paid is not recognised.
SyncKindFinal(means, status) == IF status = "pending" THEN "none" ELSE "paid"
SyncKindUnknown(means, status) ==
  IF status \in {"declined", "chargedback"} THEN "failed" ELSE "none"

\* What the answer about a payment makes the job call.  A session that was
\* completed counts as paid, whether it was, and stays so after a chargeback.
SyncKind(means, status) ==
  CASE status = "approved"                            -> "paid"
    [] status = "declined"                            -> "failed"
    [] status = "chargedback" /\ means # "session"    -> "failed"
    [] status \in {"completed", "lapsed", "chargedback"} /\ means = "session" -> "paid"
    [] OTHER                                          -> "none"

SyncPick(s) ==
  /\ s \in Syncs
  /\ call[s].pc = "pick"
  /\ \E p \in call[s].todo :
       LET kind == SyncKind(charge[p].means, remote[p]) IN
         call' = [call EXCEPT ![s] =
                    IF kind = "none"
                    THEN [Idle EXCEPT !.pc = "pick", !.todo = call[s].todo \ {p}]
                    ELSE [Idle EXCEPT !.pc = "find", !.todo = call[s].todo \ {p},
                                      !.kind = kind, !.pay = p]]
  /\ UNCHANGED <<origin, remote, jobs, charge, payments, invoice, licence, told, livepix, cut, failures>>

\* pix-expiry: one UPDATE of the pending charges whose QR code has expired.
PixExpiry(R) ==
  /\ R # {}
  /\ \A r \in R : charge[r].status = "pending" /\ charge[r].means \in {"pix", "asaas"}
  /\ charge' = [r \in Charges |-> IF r \in R THEN [charge[r] EXCEPT !.status = "canceled"]
                                             ELSE charge[r]]
  /\ UNCHANGED <<origin, remote, jobs, payments, invoice, licence, told, call, livepix, cut, failures>>

\* overdue-retry: the SELECT of the failed charges that are due, ...
RetryList(k, R) ==
  /\ call[k] = Idle
  /\ invoice = "open"
  /\ R # {}
  /\ \A r \in R : charge[r].status = "failed" /\ charge[r].retry
  /\ call' = [call EXCEPT ![k] = [Idle EXCEPT !.pc = "pick", !.todo = R]]
  /\ UNCHANGED <<origin, remote, jobs, charge, payments, invoice, licence, told, livepix, cut, failures>>

\* ... and an UPDATE for each, whatever became of it since.
RetryOne(k) ==
  /\ k \in Crons
  /\ call[k].pc = "pick"
  /\ \E r \in call[k].todo :
       /\ charge' = [charge EXCEPT ![r].status = "pending", ![r].retry = FALSE]
       /\ call' = [call EXCEPT ![k].todo = @ \ {r}]
  /\ UNCHANGED <<origin, remote, jobs, payments, invoice, licence, told, livepix, cut, failures>>

ListDone(c) ==
  /\ call[c].pc = "pick" /\ call[c].todo = {}
  /\ call' = [call EXCEPT ![c] = Idle]
  /\ UNCHANGED <<origin, remote, jobs, charge, payments, invoice, licence, told, livepix, cut, failures>>

-----------------------------------------------------------------------------

Step(c) ==
  \/ Find(c) \/ UpdateCharge(c) \/ CreatePayment(c) \/ UpdateInvoice(c)
  \/ Grant(c) \/ Suspend(c) \/ Notify(c)

Work(w) == Step(w) \/ Done(w) \/ \E p \in Charges, kind \in Kinds : Take(w, p, kind)
Sync(s) ==
  \/ \E P \in SUBSET Charges : SyncList(s, P)
  \/ Received(s) \/ SyncPick(s) \/ Step(s) \/ ListDone(s)

Next ==
  \/ \E r \in Charges, means \in Means : Checkout(r, means)
  \/ Limit
  \/ \E p \in Charges : Gateway(p) \/ Age(p) \/ Crowd(p)
  \/ \E w \in Workers : Work(w)
  \/ \E s \in Syncs : Sync(s) \/ NotReceived(s)
  \/ \E k \in Crons : RetryOne(k) \/ ListDone(k) \/ \E R \in SUBSET Charges : RetryList(k, R)
  \/ \E R \in SUBSET Charges : PixExpiry(R)
  \/ \E c \in Procs : Fail(c)

Spec == Init /\ [][Next]_vars

\* Workers take what is queued, cron starts the sync every minute, and both
\* finish what they start.  Nothing obliges the gateway or the customer.
FairSpec ==
  /\ Spec
  /\ \A w \in Workers : WF_vars(Work(w))
  /\ \A s \in Syncs : WF_vars(Sync(s))

-----------------------------------------------------------------------------

\* The gateway had the money, or says of a session of Stripe's that it was
\* completed, which a boleto does before it is paid.
Confirmed(p) ==
  \/ remote[p] \in {"approved", "chargedback"}
  \/ remote[p] \in {"completed", "lapsed"} /\ charge[p].means = "session"

\* Nothing else is taken for a payment: whatever event or answer is resolved to
\* whatever charge, in whatever order, a charge shown as paid is linked to a payment
\* that its gateway confirmed, and there is one behind a licence.
PaidIsConfirmed ==
  /\ licence # "none" => \E p \in Charges : Confirmed(p)
  /\ \A r \in Charges :
       charge[r].status = "paid" => charge[r].ext \in Charges /\ Confirmed(charge[r].ext)

\* A charge counts as paid before its payment row exists.  The row follows: a
\* paid charge without one has a handler about to insert it, or lost the
\* handler that was to do so (no later attempt makes up for it).
PaymentRecorded ==
  \A r \in Charges :
    charge[r].status = "paid" /\ payments[r] = 0 =>
      \/ r \in cut
      \/ \E c \in Procs : call[c].pc = "payment" /\ call[c].row = r

\* The satellite hears of an approved payment only when there is a licence to
\* ask about: it may react to the event with a query.
ToldAfterGrant ==
  \A p \in Charges : <<p, "paid">> \in told => licence # "none"

\* An approval that reached the queue ends in a licence, although attempts fail.
DeliveredIsGranted ==
  \A p \in Charges : jobs[<<p, "paid">>] > 0 ~> licence # "none"

\* The jobs are the safety net for a webhook that never came: an approved payment
\* does not leave its charge pending for ever, whatever rejects meanwhile (as long
\* as there are no more pending charges than a batch takes).  No job asks Asaas, and
\* LivePix's helps only if the client is not limited for ever, while the charge is
\* recent and the payment among the newest.
Missed(r) == charge[r].means = "livepix" /\ (r \in aged \/ charge[r].ext \in crowded)

StuckPending(r) ==
  LET p == charge[r].ext IN
  /\ charge[r].status = "pending" /\ charge[r].means # "asaas"
  /\ p # NoId /\ remote[p] = "approved"
  /\ Issuer(charge[p].means) = Issuer(charge[r].means)

PendingIsNoticed ==
  (<>[] ~ limited) => \A r \in Charges : StuckPending(r) ~> ~ StuckPending(r) \/ Missed(r)

\* What the safety net is for: who paid in a session of Stripe's or on LivePix's
\* page gets access even if no webhook comes, within the limits of LivePix's job,
\* unless the payment is charged back first or some await rejected: one
\* interleaving with the crons or a worker is not enough to keep access from who
\* paid.  A Pix code is not so lucky: pix-expiry takes its charge off the list.
PaidOnPage(p) == remote[p] = "approved" /\ charge[p].means \in {"session", "livepix"}

PaidGetsAccessUnlessCut ==
  (<>[] ~ limited) =>
    \A p \in Charges :
      PaidOnPage(p) ~> licence # "none" \/ ~ PaidOnPage(p) \/ failures > 0 \/ Missed(p)

=============================================================================
