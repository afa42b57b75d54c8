-------------------------------- MODULE Checkout --------------------------------
(***************************************************************************)
(* One order and the clicks on its checkout button, from POST /orders to   *)
(* the link a customer can pay with.                                       *)
(*                                                                         *)
(*   order   draft -> invoice -> pending_payment           OrdersService   *)
(*   click   [reuse ->] charge -> invoice -> row -> answer CheckoutService *)
(*                                                                         *)
(* Each arrow is an await and none is in a transaction, so each click and  *)
(* the creation itself may break off between two of them, and clicks       *)
(* overlap.  Nothing asks for the order's status.  What happens to the     *)
(* charge afterwards, modelled in Settlement, is one step here.            *)
(*                                                                         *)
(* A gateway makes a payment and a way to pay it: a Pix code (Mercado      *)
(* Pago, Asaas), a link (LivePix) or a session (Stripe; a Mercado Pago     *)
(* preference is asked for and kept in the same way).  Asaas sends the     *)
(* customer its own notices; with the others, only who holds the answer of *)
(* the checkout can pay.                                                   *)
(***************************************************************************)
EXTENDS Naturals, Sequences

CONSTANTS
  Clicks,        \* requests that may be open at once
  Offered,       \* the gateways that take part
  Window,        \* LIVEPIX_REUSE_WINDOW_MINUTES
  MaxTime,       \* bound: minutes
  MaxCharges     \* bound: payments, and rows

ASSUME CheckoutAssumption ==
  /\ Offered \subseteq {"livepix", "mercadopago", "stripe", "asaas"}
  /\ {Window, MaxTime, MaxCharges} \subseteq Nat \ {0}

VARIABLES
  order,      \* its status
  creating,   \* the next statement of its creation
  invoiced,   \* it has an invoice
  payments,   \* external: the payments made at the gateways
  charges,    \* the rows of table charges, by created_at
  links,      \* payments whose link or code was handed out
  click,      \* click[c]: its progress
  now

vars == <<order, creating, invoiced, payments, charges, links, click, now>>

\* looked (history): how many rows there were when the click looked for one to reuse.
Click == [pc: {"idle", "reuse", "charge", "invoice", "row", "answer"},
          gateway: Offered \cup {"none"}, payment: 0 .. MaxCharges, looked: 0 .. MaxCharges]

NoClick == [pc |-> "idle", gateway |-> "none", payment |-> 0, looked |-> 0]

Payment == [gateway: Offered, status: {"pending", "approved", "canceled", "refunded"}]

Charge == [gateway: Offered, payment: 1 .. MaxCharges, status: {"pending", "paid"},
           at: 0 .. MaxTime, looked: 0 .. MaxCharges]

TypeOK ==
  /\ order \in {"none", "draft", "pending_payment", "paid", "canceled"}
  /\ creating \in {"order", "invoice", "status", "over"}
  /\ invoiced \in BOOLEAN
  /\ payments \in Seq(Payment)
  /\ charges \in Seq(Charge)
  /\ links \subseteq 1 .. MaxCharges
  /\ click \in [Clicks -> Click]
  /\ now \in 0 .. MaxTime

Init ==
  /\ order = "none" /\ creating = "order" /\ invoiced = FALSE
  /\ payments = <<>> /\ charges = <<>> /\ links = {}
  /\ click = [c \in Clicks |-> NoClick]
  /\ now = 0

-----------------------------------------------------------------------------
(* The order.  No statement of it looks at the status it overwrites.       *)

Create ==
  /\ \/ creating = "order" /\ creating' = "invoice" /\ order' = "draft" /\ UNCHANGED invoiced
     \/ creating = "invoice" /\ creating' = "status" /\ invoiced' = TRUE /\ UNCHANGED order
     \/ creating = "status" /\ creating' = "over" /\ order' = "pending_payment" /\ UNCHANGED invoiced
  /\ UNCHANGED <<payments, charges, links, click, now>>

CreateBreaksOff ==
  /\ creating \in {"invoice", "status"}
  /\ creating' = "over"
  /\ UNCHANGED <<order, invoiced, payments, charges, links, click, now>>

CancelOrder ==
  /\ order # "none"
  /\ order' = "canceled"
  /\ UNCHANGED <<creating, invoiced, payments, charges, links, click, now>>

-----------------------------------------------------------------------------
(* A click.                                                                *)

Goes(c, pc) == click' = [click EXCEPT ![c].pc = pc]

Ends(c) == click' = [click EXCEPT ![c] = NoClick]

\* createCheckout, for the gateway the product or the settings name.  Plans that
\* are not active and payers without a document are refused here.
Arrive(c, g) ==
  /\ click[c] = NoClick /\ order # "none"
  /\ click' = [click EXCEPT ![c].gateway = g,
                            ![c].pc = IF g = "livepix" THEN "reuse" ELSE "charge"]
  /\ UNCHANGED <<order, creating, invoiced, payments, charges, links, now>>

\* The newest of the rows S, if there are any: ORDER BY created_at DESC LIMIT 1.
Newest(S) == {r \in S : \A s \in S : s <= r}

\* A bug for the run to catch: the age is compared the wrong way round.
OnlyOld ==
  {r \in DOMAIN charges : /\ charges[r].gateway = "livepix"
                          /\ charges[r].status = "pending"
                          /\ charges[r].at + Window < now}

\* findReusablePendingCharge
Reusable ==
  {r \in DOMAIN charges : /\ charges[r].gateway = "livepix"
                          /\ charges[r].status = "pending"
                          /\ charges[r].at + Window > now}

Reuse(c) ==
  /\ click[c].pc = "reuse"
  /\ IF Reusable # {}
     THEN /\ \E r \in Newest(Reusable) : links' = links \cup {charges[r].payment}
          /\ Ends(c)
     ELSE /\ click' = [click EXCEPT ![c].pc = "charge", ![c].looked = Len(charges)]
          /\ UNCHANGED links
  /\ UNCHANGED <<order, creating, invoiced, payments, charges, now>>

Opens(c, g) ==
  /\ Len(payments) < MaxCharges
  /\ payments' = Append(payments, [gateway |-> g, status |-> "pending"])
  /\ click' = [click EXCEPT ![c].pc = "invoice", ![c].payment = Len(payments) + 1]

\* A bug for the run to catch: the idempotency key is made of the time.
NothingKept(g) == {}

\* The payments the gateway kept under the Idempotency-Key of this call.  It is
\* made of the order's id alone, and only Mercado Pago's Pix has one.
Kept(g) == IF g # "mercadopago" THEN {} ELSE {p \in DOMAIN payments : payments[p].gateway = g}

\* The gateway makes the payment, or answers with the one it made for that key,
\* whatever has become of it.
GatewayCharge(c) ==
  /\ click[c].pc = "charge"
  /\ LET g == click[c].gateway IN
     IF Kept(g) = {} THEN Opens(c, g)
     ELSE \E p \in Kept(g) :
            /\ click' = [click EXCEPT ![c].pc = "invoice", ![c].payment = p]
            /\ UNCHANGED payments
  /\ UNCHANGED <<order, creating, invoiced, charges, links, now>>

\* A bug for the run to catch: a checkout without an invoice is answered all the same.
AnswersAnyway(c) == IF invoiced THEN Goes(c, "row") ELSE Goes(c, "answer")

\* findInvoiceByOrigin: without one, invoice.id throws.
WithInvoice(c) == IF invoiced THEN Goes(c, "row") ELSE Ends(c)

FindInvoice(c) ==
  /\ click[c].pc = "invoice"
  /\ WithInvoice(c)
  /\ UNCHANGED <<order, creating, invoiced, payments, charges, links, now>>

\* createCharge of the repository: a row for each click, for the same payment as well.
InsertCharge(c) ==
  /\ click[c].pc = "row" /\ Len(charges) < MaxCharges
  /\ charges' = Append(charges, [gateway |-> click[c].gateway, payment |-> click[c].payment,
                                 status |-> "pending", at |-> now, looked |-> click[c].looked])
  /\ Goes(c, "answer")
  /\ UNCHANGED <<order, creating, invoiced, payments, links, now>>

\* The payer's document is kept as well, but a failure of that is swallowed.
Answer(c) ==
  /\ click[c].pc = "answer"
  /\ links' = links \cup {click[c].payment}
  /\ Ends(c)
  /\ UNCHANGED <<order, creating, invoiced, payments, charges, now>>

\* An await rejects, or the process ends: for Asaas, fetching the QR code too.
BreakOff(c) ==
  /\ click[c] # NoClick
  /\ Ends(c)
  /\ UNCHANGED <<order, creating, invoiced, payments, charges, links, now>>

-----------------------------------------------------------------------------
(* What becomes of a payment.                                              *)

RowsOf(p) == {r \in DOMAIN charges : charges[r].payment = p}

Becomes(p, status) ==
  /\ payments' = [payments EXCEPT ![p].status = status]
  /\ UNCHANGED <<order, creating, invoiced, charges, links, click, now>>

Pay(p) ==
  /\ payments[p].status = "pending"
  /\ p \in links \/ payments[p].gateway = "asaas"
  /\ Becomes(p, "approved")

\* POST /payments/charges/:externalId/cancel and /refund find the charge and ask its
\* gateway; LivePix's has no such call.  The row is left alone.
CancelCharge(p) ==
  /\ payments[p].status = "pending" /\ payments[p].gateway # "livepix" /\ RowsOf(p) # {}
  /\ Becomes(p, "canceled")

Refund(p) ==
  /\ payments[p].status = "approved" /\ payments[p].gateway # "livepix" /\ RowsOf(p) # {}
  /\ Becomes(p, "refunded")

\* markPaid, by the webhook or by the sync: the newest row with that external id.
Confirm(p) ==
  /\ payments[p].status = "approved"
  /\ \E r \in Newest(RowsOf(p)) : charges' = [charges EXCEPT ![r].status = "paid"]
  /\ order' = "paid"
  /\ UNCHANGED <<creating, invoiced, payments, links, click, now>>

Tick ==
  /\ now < MaxTime
  /\ now' = now + 1
  /\ UNCHANGED <<order, creating, invoiced, payments, charges, links, click>>

Step(c) ==
  \/ \E g \in Offered : Arrive(c, g)
  \/ Reuse(c) \/ GatewayCharge(c) \/ FindInvoice(c) \/ InsertCharge(c) \/ Answer(c)
  \/ BreakOff(c)

Next ==
  \/ Create \/ CreateBreaksOff \/ CancelOrder \/ Tick
  \/ \E c \in Clicks : Step(c)
  \/ \E p \in DOMAIN payments : Pay(p) \/ CancelCharge(p) \/ Refund(p) \/ Confirm(p)

Spec == Init /\ [][Next]_vars

-----------------------------------------------------------------------------
(* What a checkout promises.                                               *)

\* What a customer has paid, the Hub can find: only a payment Asaas has told the
\* customer of by itself can be paid for without a row, when the click broke off
\* after the gateway's charge or the order has no invoice.
PaidIsKnown ==
  \A p \in DOMAIN payments :
    payments[p].status = "approved" => payments[p].gateway = "asaas" \/ RowsOf(p) # {}

\* Two LivePix charges that are both pending and less than a window apart come of
\* clicks that overlapped: the second had looked before the first had its row.
SameLinkWithinWindow ==
  \A r, s \in DOMAIN charges :
    (/\ r < s
     /\ charges[r].gateway = "livepix" /\ charges[s].gateway = "livepix"
     /\ charges[r].status = "pending"
     /\ charges[s].at < charges[r].at + Window)
      => charges[s].looked < r

\* However often and however quickly an order is checked out with Mercado Pago's
\* Pix, its customer cannot pay it twice that way.
PixPaidOnce ==
  \A p, q \in {p \in DOMAIN payments : payments[p].gateway = "mercadopago"} :
    payments[p].status \in {"approved", "refunded"} /\ payments[q].status \in {"approved", "refunded"}
      => p = q
================================================================================
