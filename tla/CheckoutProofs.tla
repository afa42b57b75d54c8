---------------------------- MODULE CheckoutProofs ----------------------------
(***************************************************************************)
(* Proofs about a checkout and the two parts it leans on.                  *)
(*                                                                         *)
(*   Checkout       for any number of clicks, any window and any bounds:   *)
(*                  what is paid has a row, overlapping clicks alone make  *)
(*                  a second LivePix charge within the window, and Pix is  *)
(*                  paid once                                              *)
(*   Customers      for any addresses, documents, rows and requests: what  *)
(*                  an address is said to be, and when an upsert fails     *)
(*   LivePixClient  for any requests and applications: whose token the     *)
(*                  client holds, and that its cooldown covers the limit   *)
(*                                                                         *)
(* The three have no state in common, and no theorem is about two of them. *)
(***************************************************************************)
EXTENDS Checkout, Customers, LivePixClient, SequenceTheorems, FiniteSetTheorems, TLAPS

-----------------------------------------------------------------------------
(* The checkout.                                                           *)

\* How far the bounded sequences and the references into them go.
Bounded ==
  /\ Len(payments) <= MaxCharges /\ Len(charges) <= MaxCharges
  /\ \A c \in Clicks : click[c].payment <= Len(payments) /\ click[c].looked <= Len(charges)
  /\ \A c \in Clicks : click[c].pc \in {"invoice", "row", "answer"} => click[c].payment > 0
  /\ \A c \in Clicks : click[c].pc # "idle" => click[c].gateway \in Offered
  /\ \A r \in DOMAIN charges : charges[r].payment <= Len(payments)

\* What is handed out has a row: the answer comes after the INSERT.
LinksKnown ==
  /\ \A p \in links : RowsOf(p) # {}
  /\ \A c \in Clicks : click[c].pc = "answer" => RowsOf(click[c].payment) # {}

\* The idempotency key: Mercado Pago makes one Pix payment for an order.
OnePix ==
  \A p, q \in DOMAIN payments :
    payments[p].gateway = "mercadopago" /\ payments[q].gateway = "mercadopago" => p = q

\* A click that has looked and found nothing: of the rows it saw, none is pending
\* and young any more, nor will be.
Looked ==
  \A c \in Clicks :
    click[c].gateway = "livepix" /\ click[c].pc \in {"charge", "invoice", "row"} =>
      \A r \in DOMAIN charges :
        r <= click[c].looked /\ charges[r].gateway = "livepix" /\ charges[r].status = "pending"
          => charges[r].at + Window <= now

IInv ==
  TypeOK /\ Bounded /\ LinksKnown /\ OnePix /\ Looked /\ PaidIsKnown /\ SameLinkWithinWindow

LEMMA OnePixPaidOnce == OnePix => PixPaidOnce
  BY DEF OnePix, PixPaidOnce

LEMMA Sizes ==
  ASSUME TypeOK
  PROVE  /\ Len(payments) \in Nat /\ DOMAIN payments = 1 .. Len(payments)
         /\ Len(charges) \in Nat /\ DOMAIN charges = 1 .. Len(charges)
         /\ \A p \in DOMAIN payments : payments[p] \in Payment
         /\ \A r \in DOMAIN charges : charges[r] \in Charge
         /\ Window \in Nat \ {0} /\ MaxTime \in Nat \ {0} /\ MaxCharges \in Nat \ {0}
  BY CheckoutAssumption DEF TypeOK

LEMMA NoClickOK == NoClick \in Click
  BY CheckoutAssumption DEF NoClick, Click

-----------------------------------------------------------------------------
(* Steps of a click that leave payments and rows alone.                    *)

\* The click of c becomes k, which refers to what is there.
LEMMA MovesInv ==
  ASSUME IInv, NEW c \in Clicks, NEW k \in Click,
         click' = [click EXCEPT ![c] = k], UNCHANGED <<payments, charges, links, now>>,
         TypeOK',
         k.payment <= Len(payments), k.looked <= Len(charges),
         k.pc \in {"invoice", "row", "answer"} => k.payment > 0,
         k.pc # "idle" => k.gateway \in Offered,
         k.pc = "answer" => RowsOf(k.payment) # {},
         k.gateway = "livepix" /\ k.pc \in {"charge", "invoice", "row"} =>
           \A r \in DOMAIN charges :
             r <= k.looked /\ charges[r].gateway = "livepix" /\ charges[r].status = "pending"
               => charges[r].at + Window <= now
  PROVE  IInv'
  <1>1. \A d \in Clicks : click'[d] = IF d = c THEN k ELSE click[d]
    BY DEF IInv, TypeOK
  <1>2. \A p : RowsOf(p)' = RowsOf(p)
    BY DEF RowsOf
  <1>3. Bounded'
    BY <1>1 DEF IInv, Bounded
  <1>4. LinksKnown'
    BY <1>1, <1>2 DEF IInv, LinksKnown
  <1>5. Looked'
    <2> SUFFICES ASSUME NEW d \in Clicks, click'[d].gateway = "livepix",
                        click'[d].pc \in {"charge", "invoice", "row"},
                        NEW r \in DOMAIN charges, r <= click'[d].looked,
                        charges[r].gateway = "livepix", charges[r].status = "pending"
                 PROVE  charges[r].at + Window <= now
      BY DEF Looked
    <2>1. CASE d = c
      BY <1>1, <2>1
    <2>2. CASE d # c
      BY <1>1, <2>2 DEF IInv, Looked
    <2> QED
      BY <2>1, <2>2
  <1>6. PaidIsKnown' /\ OnePix' /\ SameLinkWithinWindow'
    BY <1>2 DEF IInv, PaidIsKnown, OnePix, SameLinkWithinWindow
  <1> QED
    BY <1>3, <1>4, <1>5, <1>6 DEF IInv

LEMMA EndsInv ==
  ASSUME IInv, NEW c \in Clicks, Ends(c),
         UNCHANGED <<order, creating, invoiced, payments, charges, links, now>>
  PROVE  IInv'
  <1>1. click' = [click EXCEPT ![c] = NoClick]
    BY DEF Ends
  <1>2. TypeOK'
    BY <1>1, NoClickOK DEF IInv, TypeOK
  <1>3. /\ NoClick.payment = 0 /\ NoClick.looked = 0 /\ NoClick.pc = "idle"
        /\ NoClick.gateway = "none"
    BY DEF NoClick
  <1>4. NoClick.payment <= Len(payments) /\ NoClick.looked <= Len(charges)
    BY <1>3, Sizes DEF IInv
  <1>5. UNCHANGED <<payments, charges, links, now>>
    OBVIOUS
  <1> QED
    BY <1>1, <1>2, <1>3, <1>4, <1>5, NoClickOK, MovesInv

LEMMA ArriveInv ==
  ASSUME IInv, NEW c \in Clicks, NEW g \in Offered, Arrive(c, g)
  PROVE  IInv'
  <1> DEFINE k == [click[c] EXCEPT !.gateway = g,
                                   !.pc = IF g = "livepix" THEN "reuse" ELSE "charge"]
  <1>1. click[c] = NoClick /\ click[c] \in Click
    BY DEF Arrive, IInv, TypeOK
  <1>2. k \in Click
    BY <1>1 DEF Click
  <1>3. /\ k.payment = 0 /\ k.looked = 0 /\ k.gateway = g
        /\ k.pc = IF g = "livepix" THEN "reuse" ELSE "charge"
    BY <1>1 DEF NoClick
  <1>4. click' = [click EXCEPT ![c] = k]
    BY DEF Arrive
  <1>5. TypeOK'
    BY <1>2, <1>4 DEF Arrive, IInv, TypeOK
  <1>6. k.payment <= Len(payments) /\ k.looked <= Len(charges) /\ k.gateway \in Offered
    BY <1>3, Sizes DEF IInv
  <1>7. UNCHANGED <<payments, charges, links, now>>
    BY DEF Arrive
  <1>8. /\ k.pc \notin {"invoice", "row", "answer"}
        /\ ~ (k.gateway = "livepix" /\ k.pc \in {"charge", "invoice", "row"})
    BY <1>3
  <1> HIDE DEF k
  <1> QED
    BY <1>2, <1>4, <1>5, <1>6, <1>7, <1>8, MovesInv

\* What is reused has a row; who finds nothing has looked at them all.
LEMMA ReuseInv ==
  ASSUME IInv, NEW c \in Clicks, Reuse(c)
  PROVE  IInv'
  <1>1. ASSUME Reusable # {}, NEW r \in Newest(Reusable),
               links' = links \cup {charges[r].payment}, Ends(c)
        PROVE  IInv'
    <2>1. r \in DOMAIN charges /\ charges[r] \in Charge
      BY Sizes DEF Newest, Reusable, IInv
    <2>2. charges[r].payment \in 1 .. MaxCharges /\ r \in RowsOf(charges[r].payment)
      BY <2>1 DEF Charge, RowsOf
    <2>3. TypeOK'
      BY <1>1, <2>2, NoClickOK DEF Reuse, Ends, IInv, TypeOK
    <2>4. \A d \in Clicks : click'[d] = IF d = c THEN NoClick ELSE click[d]
      BY <1>1 DEF Ends, IInv, TypeOK
    <2>5. \A p : RowsOf(p)' = RowsOf(p)
      BY DEF Reuse, RowsOf
    <2>6. /\ NoClick.payment = 0 /\ NoClick.looked = 0 /\ NoClick.pc = "idle"
          /\ Len(payments) \in Nat /\ Len(charges) \in Nat
      BY Sizes DEF NoClick, IInv
    <2>7. Bounded'
      BY <2>4, <2>6 DEF Reuse, IInv, Bounded
    <2>8. LinksKnown'
      BY <1>1, <2>2, <2>4, <2>5, <2>6 DEF IInv, LinksKnown
    <2>9. Looked'
      BY <2>4, <2>6 DEF Reuse, IInv, Looked
    <2>10. PaidIsKnown' /\ OnePix' /\ SameLinkWithinWindow'
      BY <2>5 DEF Reuse, IInv, PaidIsKnown, OnePix, SameLinkWithinWindow
    <2> QED
      BY <2>3, <2>7, <2>8, <2>9, <2>10 DEF IInv
  <1>2. ASSUME Reusable = {}, UNCHANGED links,
               click' = [click EXCEPT ![c].pc = "charge", ![c].looked = Len(charges)]
        PROVE  IInv'
    <2> DEFINE k == [click[c] EXCEPT !.pc = "charge", !.looked = Len(charges)]
    <2>1. Len(charges) \in 0 .. MaxCharges /\ click[c] \in Click
      BY Sizes DEF IInv, Bounded, TypeOK
    <2>2. k \in Click /\ k.payment = click[c].payment /\ k.looked = Len(charges) /\ k.pc = "charge"
      BY <2>1 DEF Click
    <2>3. click' = [click EXCEPT ![c] = k]
      BY <1>2
    <2>4. TypeOK'
      BY <1>2, <2>2, <2>3 DEF Reuse, IInv, TypeOK
    <2>5. ASSUME NEW r \in DOMAIN charges, charges[r].gateway = "livepix",
                 charges[r].status = "pending"
          PROVE  charges[r].at + Window <= now
      <3>1. charges[r].at \in Nat /\ now \in Nat /\ Window \in Nat
        BY Sizes DEF IInv, TypeOK, Charge
      <3>2. ~ (charges[r].at + Window > now)
        BY <1>2, <2>5 DEF Reusable
      <3> QED
        BY <3>1, <3>2
    <2>6. UNCHANGED <<payments, charges, links, now>>
      BY <1>2 DEF Reuse
    <2>7. /\ click[c].payment <= Len(payments) /\ Len(charges) <= Len(charges)
          /\ k.gateway \in Offered
      BY <2>1 DEF Reuse, IInv, Bounded, Click
    <2> HIDE DEF k
    <2> QED
      BY <2>2, <2>3, <2>4, <2>5, <2>6, <2>7, MovesInv
  <1> QED
    BY <1>1, <1>2 DEF Reuse

\* A payment is made: one more, pending, and a Pix of Mercado Pago only as the first.
LEMMA OpensInv ==
  ASSUME IInv, NEW c \in Clicks, click[c].pc = "charge", NEW g \in Offered,
         g = click[c].gateway, Kept(g) = {}, Opens(c, g),
         UNCHANGED <<order, creating, invoiced, charges, links, now>>
  PROVE  IInv'
  <1> DEFINE n == Len(payments) + 1
             new == [gateway |-> g, status |-> "pending"]
             k == [click[c] EXCEPT !.pc = "invoice", !.payment = n]
  <1>1. /\ Len(payments) \in Nat /\ Len(payments) < MaxCharges /\ n \in 1 .. MaxCharges
        /\ payments \in Seq(Payment) /\ click[c] \in Click
    BY Sizes DEF Opens, IInv, TypeOK
  <1>2. /\ payments' = Append(payments, new) /\ new \in Payment
        /\ click' = [click EXCEPT ![c] = k]
    BY DEF Opens, Payment
  <1>3. /\ payments' \in Seq(Payment) /\ Len(payments') = n
        /\ \A p \in 1 .. Len(payments) : payments'[p] = payments[p]
        /\ payments'[n] = new
    BY <1>1, <1>2, AppendProperties
  <1>4. /\ k \in Click
        /\ k.payment = n /\ k.looked = click[c].looked /\ k.pc = "invoice"
        /\ k.gateway = g
    <2> HIDE DEF n
    <2>1. n \in 0 .. MaxCharges
      BY <1>1, Sizes DEF IInv
    <2>2. k \in Click
      BY <1>1, <2>1 DEF Click
    <2>3. k.payment = n /\ k.looked = click[c].looked /\ k.pc = "invoice"
      BY <1>1 DEF Click
    <2>4. k.gateway = g
      BY <1>1 DEF Click
    <2> QED
      BY <2>2, <2>3, <2>4
  <1>5. TypeOK'
    BY <1>2, <1>3, <1>4 DEF IInv, TypeOK
  <1>6. \A d \in Clicks : click'[d] = IF d = c THEN k ELSE click[d]
    BY <1>2 DEF IInv, TypeOK
  <1>7. /\ DOMAIN payments = 1 .. Len(payments) /\ DOMAIN payments' = 1 .. n
        /\ DOMAIN charges = 1 .. Len(charges) /\ Len(charges) \in Nat
        /\ \A r \in DOMAIN charges : charges[r].payment \in Nat
        /\ \A d \in Clicks : click[d].payment \in Nat /\ click[d].looked \in Nat
    BY <1>3, Sizes DEF IInv, TypeOK, Charge, Click
  <1>8. \A p : RowsOf(p)' = RowsOf(p)
    BY DEF RowsOf
  <1> HIDE DEF k, n, new
  <1>9. Bounded'
    <2>1. Len(payments') <= MaxCharges /\ Len(payments) <= Len(payments')
      BY <1>1, <1>3 DEF n
    <2>2. ASSUME NEW d \in Clicks
          PROVE  /\ click'[d].payment <= Len(payments') /\ click'[d].looked <= Len(charges)
                 /\ click'[d].pc \in {"invoice", "row", "answer"} => click'[d].payment > 0
                 /\ click'[d].pc # "idle" => click'[d].gateway \in Offered
      <3>1. CASE d = c
        BY <1>1, <1>3, <1>4, <1>6, <3>1 DEF IInv, Bounded
      <3>2. CASE d # c
        BY <1>1, <1>3, <1>6, <1>7, <3>2 DEF IInv, Bounded, n
      <3> QED
        BY <3>1, <3>2
    <2>3. \A r \in DOMAIN charges : charges[r].payment <= Len(payments')
      BY <1>1, <1>3, <1>7 DEF IInv, Bounded, n
    <2> QED
      BY <2>1, <2>2, <2>3 DEF IInv, Bounded
  <1>10. LinksKnown'
    BY <1>4, <1>6, <1>8 DEF IInv, LinksKnown
  <1>11. OnePix'
    <2> SUFFICES ASSUME NEW p \in DOMAIN payments', NEW q \in DOMAIN payments',
                        payments'[p].gateway = "mercadopago", payments'[q].gateway = "mercadopago"
                 PROVE  p = q
      BY DEF OnePix
    <2>1. /\ p = n \/ (p \in DOMAIN payments /\ payments'[p] = payments[p])
          /\ q = n \/ (q \in DOMAIN payments /\ payments'[q] = payments[q])
      BY <1>1, <1>3, <1>7 DEF n
    <2>2. g = "mercadopago" => \A x \in DOMAIN payments : payments[x].gateway # g
      BY DEF Kept
    <2>3. payments'[n].gateway = g
      BY <1>3 DEF new
    <2> QED
      BY <2>1, <2>2, <2>3 DEF IInv, OnePix
  <1>12. Looked'
    <2> SUFFICES ASSUME NEW d \in Clicks, click'[d].gateway = "livepix",
                        click'[d].pc \in {"charge", "invoice", "row"},
                        NEW r \in DOMAIN charges, r <= click'[d].looked,
                        charges[r].gateway = "livepix", charges[r].status = "pending"
                 PROVE  charges[r].at + Window <= now
      BY DEF Looked
    <2> QED
      BY <1>4, <1>6 DEF IInv, Looked
  <1>13. PaidIsKnown'
    <2> SUFFICES ASSUME NEW p \in DOMAIN payments', payments'[p].status = "approved"
                 PROVE  payments'[p].gateway = "asaas" \/ RowsOf(p) # {}
      BY <1>8 DEF PaidIsKnown
    <2>1. p # n
      BY <1>3 DEF new
    <2>2. p \in DOMAIN payments /\ payments'[p] = payments[p]
      BY <1>1, <1>3, <1>7, <2>1 DEF n
    <2> QED
      BY <2>2 DEF IInv, PaidIsKnown
  <1>14. SameLinkWithinWindow'
    BY DEF IInv, SameLinkWithinWindow
  <1> QED
    BY <1>5, <1>9, <1>10, <1>11, <1>12, <1>13, <1>14 DEF IInv

LEMMA GatewayChargeInv ==
  ASSUME IInv, NEW c \in Clicks, GatewayCharge(c)
  PROVE  IInv'
  <1> DEFINE g == click[c].gateway
  <1>1. CASE Kept(g) = {}
    <2>1. Opens(c, g) /\ click[c].pc = "charge"
          /\ UNCHANGED <<order, creating, invoiced, charges, links, now>>
      BY <1>1 DEF GatewayCharge
    <2>2. g \in Offered
      BY <2>1 DEF IInv, Bounded
    <2> QED
      BY <1>1, <2>1, <2>2, OpensInv
  <1>2. ASSUME NEW p \in Kept(g), UNCHANGED payments,
               click' = [click EXCEPT ![c].pc = "invoice", ![c].payment = p]
        PROVE  IInv'
    <2> DEFINE k == [click[c] EXCEPT !.pc = "invoice", !.payment = p]
    <2>1. p \in DOMAIN payments /\ click[c] \in Click
      BY <1>2 DEF Kept, IInv, TypeOK
    <2>2. p \in 1 .. MaxCharges /\ p <= Len(payments) /\ p > 0
      BY <2>1, Sizes DEF IInv, Bounded
    <2>3. /\ k \in Click
          /\ k.payment = p /\ k.looked = click[c].looked /\ k.pc = "invoice" /\ k.gateway = g
      <3>1. p \in 0 .. MaxCharges
        BY <2>2, Sizes DEF IInv
      <3>2. k \in Click
        BY <2>1, <3>1 DEF Click
      <3>3. k.payment = p /\ k.looked = click[c].looked /\ k.pc = "invoice"
        BY <2>1 DEF Click
      <3>4. k.gateway = g
        BY <2>1 DEF Click
      <3> QED
        BY <3>2, <3>3, <3>4
    <2>4. click' = [click EXCEPT ![c] = k]
      BY <1>2
    <2>5. TypeOK'
      BY <1>2, <2>3, <2>4 DEF GatewayCharge, IInv, TypeOK
    <2>6. UNCHANGED <<payments, charges, links, now>>
      BY <1>2 DEF GatewayCharge
    <2>7. k.payment <= Len(payments) /\ k.looked <= Len(charges) /\ k.payment > 0
      BY <2>2, <2>3 DEF IInv, Bounded
    <2>9. k.gateway \in Offered
      BY <2>3 DEF GatewayCharge, IInv, Bounded
    <2>8. k.gateway = "livepix" =>
            \A r \in DOMAIN charges :
              r <= k.looked /\ charges[r].gateway = "livepix" /\ charges[r].status = "pending"
                => charges[r].at + Window <= now
      BY <2>3 DEF GatewayCharge, IInv, Looked
    <2> HIDE DEF k
    <2> QED
      BY <2>3, <2>4, <2>5, <2>6, <2>7, <2>8, <2>9, MovesInv
  <1> QED
    BY <1>1, <1>2 DEF GatewayCharge

\* The click goes on to pc with the payment it has.
LEMMA GoesInv ==
  ASSUME IInv, NEW c \in Clicks, click[c].pc = "invoice", Goes(c, "row"),
         UNCHANGED <<order, creating, invoiced, payments, charges, links, now>>
  PROVE  IInv'
  <1> DEFINE k == [click[c] EXCEPT !.pc = "row"]
  <1>1. click[c] \in Click
    BY DEF IInv, TypeOK
  <1>2. k \in Click /\ k.payment = click[c].payment /\ k.looked = click[c].looked
        /\ k.pc = "row" /\ k.gateway = click[c].gateway
    BY <1>1 DEF Click
  <1>3. click' = [click EXCEPT ![c] = k]
    BY DEF Goes
  <1>4. TypeOK'
    BY <1>2, <1>3 DEF IInv, TypeOK
  <1>5. /\ k.payment <= Len(payments) /\ k.looked <= Len(charges) /\ k.payment > 0
        /\ k.gateway \in Offered
    BY <1>2 DEF IInv, Bounded
  <1>6. k.gateway = "livepix" =>
          \A r \in DOMAIN charges :
            r <= k.looked /\ charges[r].gateway = "livepix" /\ charges[r].status = "pending"
              => charges[r].at + Window <= now
    BY <1>2 DEF IInv, Looked
  <1>7. UNCHANGED <<payments, charges, links, now>>
    OBVIOUS
  <1> HIDE DEF k
  <1> QED
    BY <1>2, <1>3, <1>4, <1>5, <1>6, <1>7, MovesInv

LEMMA FindInvoiceInv ==
  ASSUME IInv, NEW c \in Clicks, FindInvoice(c)
  PROVE  IInv'
  <1>1. CASE Goes(c, "row")
    BY <1>1, GoesInv DEF FindInvoice
  <1>2. CASE Ends(c)
    BY <1>2, EndsInv DEF FindInvoice
  <1> QED
    BY <1>1, <1>2 DEF FindInvoice, WithInvoice

\* A row is written: no row that its click has looked at is pending and younger
\* than a window, so the rows that are were written since.
LEMMA InsertChargeInv ==
  ASSUME IInv, NEW c \in Clicks, InsertCharge(c)
  PROVE  IInv'
  <1> DEFINE m == Len(charges) + 1
             row == [gateway |-> click[c].gateway, payment |-> click[c].payment,
                     status |-> "pending", at |-> now, looked |-> click[c].looked]
             k == [click[c] EXCEPT !.pc = "answer"]
  <1>1. /\ click[c] \in Click /\ click[c].pc = "row" /\ Len(charges) \in Nat
        /\ Len(charges) < MaxCharges /\ charges \in Seq(Charge) /\ now \in 0 .. MaxTime
        /\ UNCHANGED <<order, creating, invoiced, payments, links, now>>
    BY Sizes DEF InsertCharge, IInv, TypeOK
  <1>2. /\ click[c].gateway \in Offered /\ click[c].payment \in 1 .. MaxCharges
        /\ click[c].looked \in 0 .. MaxCharges
    BY <1>1, Sizes DEF IInv, Bounded, Click
  <1>3. /\ row \in Charge
        /\ row.gateway = click[c].gateway /\ row.payment = click[c].payment
        /\ row.status = "pending" /\ row.at = now /\ row.looked = click[c].looked
    BY <1>1, <1>2 DEF Charge
  <1>4. charges' = Append(charges, row)
    BY DEF InsertCharge
  <1>5. /\ charges' \in Seq(Charge) /\ Len(charges') = m /\ m \in 1 .. MaxCharges
        /\ \A r \in 1 .. Len(charges) : charges'[r] = charges[r]
        /\ charges'[m] = row
    BY <1>1, <1>3, <1>4, AppendProperties, Sizes DEF IInv
  <1>6. /\ k \in Click
        /\ k.payment = click[c].payment /\ k.looked = click[c].looked /\ k.pc = "answer"
        /\ k.gateway = click[c].gateway
    <2>1. k \in Click
      BY <1>1 DEF Click
    <2>2. /\ k.payment = click[c].payment /\ k.looked = click[c].looked /\ k.pc = "answer"
          /\ k.gateway = click[c].gateway
      BY <1>1 DEF Click
    <2> QED
      BY <2>1, <2>2
  <1>7. click' = [click EXCEPT ![c] = k]
    BY DEF InsertCharge, Goes
  <1>8. \A d \in Clicks : click'[d] = IF d = c THEN k ELSE click[d]
    BY <1>7 DEF IInv, TypeOK
  <1>9. TypeOK'
    BY <1>1, <1>5, <1>6, <1>7 DEF IInv, TypeOK
  <1>10. /\ DOMAIN charges = 1 .. Len(charges) /\ DOMAIN charges' = 1 .. m
         /\ DOMAIN payments' = DOMAIN payments /\ Len(payments) \in Nat
         /\ \A d \in Clicks : click[d].payment \in Nat /\ click[d].looked \in Nat
    BY <1>1, <1>5, Sizes DEF IInv, TypeOK, Click
  <1> HIDE DEF k, row
  <1>11. \A r \in DOMAIN charges : r \in DOMAIN charges' /\ charges'[r] = charges[r] /\ r < m
    BY <1>1, <1>5, <1>10
  <1>12. \A r \in DOMAIN charges' : r \in DOMAIN charges \/ r = m
    BY <1>1, <1>10
  <1>13. m \in DOMAIN charges' /\ m > Len(charges)
    BY <1>1, <1>10
  <1> HIDE DEF m
  <1>14. /\ \A p : RowsOf(p) # {} => RowsOf(p)' # {}
         /\ \A p : p = click[c].payment => RowsOf(p)' # {}
    <2>1. ASSUME NEW p, RowsOf(p) # {}
          PROVE  RowsOf(p)' # {}
      BY <1>11, <2>1 DEF RowsOf
    <2>2. ASSUME NEW p, p = click[c].payment
          PROVE  RowsOf(p)' # {}
      <3>1. m \in DOMAIN charges' /\ charges'[m].payment = p
        BY <1>3, <1>5, <1>13, <2>2
      <3> QED
        BY <3>1 DEF RowsOf
    <2> QED
      BY <2>1, <2>2
  <1>15. Bounded'
    <2>1. Len(payments') <= MaxCharges /\ Len(charges') <= MaxCharges
      BY <1>1, <1>5, Sizes DEF IInv, Bounded
    <2>2. ASSUME NEW d \in Clicks
          PROVE  /\ click'[d].payment <= Len(payments) /\ click'[d].looked <= Len(charges')
                 /\ click'[d].pc \in {"invoice", "row", "answer"} => click'[d].payment > 0
                 /\ click'[d].pc # "idle" => click'[d].gateway \in Offered
      <3>1. click'[d].looked <= Len(charges) /\ click'[d].looked \in Nat
        BY <1>6, <1>8, <1>10 DEF IInv, Bounded
      <3>2. click'[d].looked <= Len(charges')
        BY <1>1, <1>5, <1>13, <3>1, Sizes DEF IInv
      <3>3. /\ click'[d].payment <= Len(payments)
            /\ click'[d].pc \in {"invoice", "row", "answer"} => click'[d].payment > 0
            /\ click'[d].pc # "idle" => click'[d].gateway \in Offered
        BY <1>1, <1>2, <1>6, <1>8 DEF IInv, Bounded
      <3> QED
        BY <3>2, <3>3
    <2>3. \A r \in DOMAIN charges' : charges'[r].payment <= Len(payments)
      BY <1>3, <1>5, <1>11, <1>12 DEF IInv, Bounded
    <2> QED
      BY <1>1, <2>1, <2>2, <2>3 DEF Bounded
  <1>16. LinksKnown'
    BY <1>1, <1>6, <1>8, <1>14 DEF IInv, LinksKnown
  <1>17. OnePix'
    BY <1>1 DEF IInv, OnePix
  <1>18. Looked'
    <2> SUFFICES ASSUME NEW d \in Clicks, click'[d].gateway = "livepix",
                        click'[d].pc \in {"charge", "invoice", "row"},
                        NEW r \in DOMAIN charges', r <= click'[d].looked,
                        charges'[r].gateway = "livepix", charges'[r].status = "pending"
                 PROVE  charges'[r].at + Window <= now
      BY <1>1 DEF Looked
    <2>1. d # c /\ click'[d] = click[d]
      BY <1>6, <1>8
    <2>2. click[d].looked <= Len(charges)
      BY DEF IInv, Bounded
    <2>3. r # m
      BY <1>1, <1>5, <1>10, <1>13, <2>1, <2>2
    <2>4. r \in DOMAIN charges /\ charges'[r] = charges[r]
      BY <1>11, <1>12, <2>3
    <2> QED
      BY <2>1, <2>4 DEF IInv, Looked
  <1>19. PaidIsKnown'
    BY <1>1, <1>10, <1>14 DEF IInv, PaidIsKnown
  <1>20. SameLinkWithinWindow'
    <2> SUFFICES ASSUME NEW r \in DOMAIN charges', NEW s \in DOMAIN charges', r < s,
                        charges'[r].gateway = "livepix", charges'[s].gateway = "livepix",
                        charges'[r].status = "pending",
                        charges'[s].at < charges'[r].at + Window
                 PROVE  charges'[s].looked < r
      BY DEF SameLinkWithinWindow
    <2>1. r \in DOMAIN charges /\ charges'[r] = charges[r]
      <3>1. r # m
        BY <1>1, <1>5, <1>10
      <3> QED
        BY <1>11, <1>12, <3>1
    <2>2. CASE s \in DOMAIN charges
      BY <1>11, <2>1, <2>2 DEF IInv, SameLinkWithinWindow
    <2>3. CASE s = m
      <3>1. /\ charges'[s].at = now /\ charges'[s].looked = click[c].looked
            /\ click[c].gateway = "livepix"
        BY <1>3, <1>5, <2>3
      <3>2. r <= click[c].looked => charges[r].at + Window <= now
        BY <1>1, <2>1, <3>1 DEF IInv, Looked
      <3>3. charges[r].at \in Nat /\ Window \in Nat /\ now \in Nat
        BY <1>1, <2>1, Sizes DEF IInv, Charge
      <3>4. ~ (charges[r].at + Window <= now)
        BY <2>1, <3>1, <3>3
      <3>5. r \in Nat /\ click[c].looked \in Nat
        BY <1>1, <1>2, <1>10, <2>1
      <3> QED
        BY <3>1, <3>2, <3>4, <3>5
    <2> QED
      BY <1>12, <2>2, <2>3
  <1> QED
    BY <1>9, <1>15, <1>16, <1>17, <1>18, <1>19, <1>20 DEF IInv

\* What is answered has a row.
LEMMA AnswerInv ==
  ASSUME IInv, NEW c \in Clicks, Answer(c)
  PROVE  IInv'
  <1>1. /\ click[c].payment \in 1 .. MaxCharges
        /\ RowsOf(click[c].payment) # {}
    BY Sizes DEF Answer, IInv, TypeOK, Click, Bounded, LinksKnown
  <1>2. TypeOK'
    BY <1>1, NoClickOK DEF Answer, Ends, IInv, TypeOK
  <1>3. \A d \in Clicks : click'[d] = IF d = c THEN NoClick ELSE click[d]
    BY DEF Answer, Ends, IInv, TypeOK
  <1>4. \A p : RowsOf(p)' = RowsOf(p)
    BY DEF Answer, RowsOf
  <1>5. /\ NoClick.payment = 0 /\ NoClick.looked = 0 /\ NoClick.pc = "idle"
        /\ Len(payments) \in Nat /\ Len(charges) \in Nat
    BY Sizes DEF NoClick, IInv
  <1>6. Bounded'
    BY <1>3, <1>5 DEF Answer, IInv, Bounded
  <1>7. LinksKnown'
    BY <1>1, <1>3, <1>4, <1>5 DEF Answer, IInv, LinksKnown
  <1>8. Looked'
    BY <1>3, <1>5 DEF Answer, IInv, Looked
  <1>9. PaidIsKnown' /\ OnePix' /\ SameLinkWithinWindow'
    BY <1>4 DEF Answer, IInv, PaidIsKnown, OnePix, SameLinkWithinWindow
  <1> QED
    BY <1>2, <1>6, <1>7, <1>8, <1>9 DEF IInv

LEMMA StepInv ==
  ASSUME IInv, NEW c \in Clicks, Step(c)
  PROVE  IInv'
  BY ArriveInv, ReuseInv, GatewayChargeInv, FindInvoiceInv, InsertChargeInv, AnswerInv, EndsInv
     DEF Step, BreakOff

-----------------------------------------------------------------------------
(* Steps of the order, of the clock and of a payment.                      *)

LEMMA OrderInv ==
  ASSUME IInv, TypeOK', UNCHANGED <<payments, charges, links, click, now>>
  PROVE  IInv'
  <1>1. \A p : RowsOf(p)' = RowsOf(p)
    BY DEF RowsOf
  <1> QED
    BY <1>1 DEF IInv, Bounded, LinksKnown, OnePix, Looked, PaidIsKnown, SameLinkWithinWindow

LEMMA TickInv ==
  ASSUME IInv, Tick
  PROVE  IInv'
  <1>1. TypeOK'
    BY Sizes DEF Tick, IInv, TypeOK
  <1>2. \A p : RowsOf(p)' = RowsOf(p)
    BY DEF Tick, RowsOf
  <1>3. Looked'
    <2>1. now \in Nat /\ now' = now + 1 /\ Window \in Nat
      BY Sizes DEF Tick, IInv, TypeOK
    <2>2. ASSUME NEW r \in DOMAIN charges, charges[r].at + Window <= now
          PROVE  charges[r].at + Window <= now'
      <3>1. charges[r].at \in Nat
        BY Sizes DEF IInv, Charge
      <3> QED
        BY <2>1, <2>2, <3>1
    <2> QED
      BY <2>2 DEF Tick, IInv, Looked
  <1> QED
    BY <1>1, <1>2, <1>3 DEF Tick, IInv, Bounded, LinksKnown, OnePix, PaidIsKnown, SameLinkWithinWindow

\* A payment changes its status alone; approved, it is one that is known.
LEMMA BecomesInv ==
  ASSUME IInv, NEW p \in DOMAIN payments,
         NEW status \in {"pending", "approved", "canceled", "refunded"}, Becomes(p, status),
         status = "approved" => payments[p].gateway = "asaas" \/ RowsOf(p) # {}
  PROVE  IInv'
  <1> DEFINE k == [payments[p] EXCEPT !.status = status]
  <1>1. /\ payments \in Seq(Payment) /\ payments[p] \in Payment /\ p \in 1 .. Len(payments)
        /\ DOMAIN payments = 1 .. Len(payments)
    BY Sizes DEF IInv, TypeOK
  <1>2. k \in Payment /\ k.gateway = payments[p].gateway /\ k.status = status
    BY <1>1 DEF Payment
  <1>3. payments' = [payments EXCEPT ![p] = k]
    BY DEF Becomes
  <1> HIDE DEF k
  <1>4. /\ payments' \in Seq(Payment) /\ Len(payments') = Len(payments)
        /\ \A q \in 1 .. Len(payments) : payments'[q] = IF q = p THEN k ELSE payments[q]
    BY <1>1, <1>2, <1>3, ExceptSeq
  <1>5. TypeOK'
    BY <1>4 DEF Becomes, IInv, TypeOK
  <1>6. DOMAIN payments' = DOMAIN payments
    BY <1>1, <1>3
  <1>7. \A q \in DOMAIN payments :
          /\ payments'[q].gateway = payments[q].gateway
          /\ payments'[q].status = IF q = p THEN status ELSE payments[q].status
    BY <1>1, <1>2, <1>4
  <1>8. \A q : RowsOf(q)' = RowsOf(q)
    BY DEF Becomes, RowsOf
  <1>9. Bounded'
    BY <1>4 DEF Becomes, IInv, Bounded
  <1>10. LinksKnown' /\ Looked' /\ SameLinkWithinWindow'
    BY <1>8 DEF Becomes, IInv, LinksKnown, Looked, SameLinkWithinWindow
  <1>11. OnePix'
    BY <1>6, <1>7 DEF IInv, OnePix
  <1>12. PaidIsKnown'
    BY <1>6, <1>7, <1>8 DEF IInv, PaidIsKnown
  <1> QED
    BY <1>5, <1>9, <1>10, <1>11, <1>12 DEF IInv

LEMMA PayInv ==
  ASSUME IInv, NEW p \in DOMAIN payments, Pay(p)
  PROVE  IInv'
  <1>1. payments[p].gateway = "asaas" \/ RowsOf(p) # {}
    BY DEF Pay, IInv, LinksKnown
  <1> QED
    BY <1>1, BecomesInv DEF Pay

LEMMA ConfirmInv ==
  ASSUME IInv, NEW p \in DOMAIN payments, Confirm(p)
  PROVE  IInv'
  <1>1. PICK r \in Newest(RowsOf(p)) : charges' = [charges EXCEPT ![r].status = "paid"]
    BY DEF Confirm
  <1> DEFINE k == [charges[r] EXCEPT !.status = "paid"]
  <1>2. /\ charges \in Seq(Charge) /\ r \in DOMAIN charges /\ charges[r] \in Charge
        /\ DOMAIN charges = 1 .. Len(charges)
    BY Sizes DEF Newest, RowsOf, IInv, TypeOK
  <1>3. k \in Charge
    BY <1>2 DEF Charge
  <1>4. /\ k.gateway = charges[r].gateway /\ k.payment = charges[r].payment
        /\ k.at = charges[r].at /\ k.looked = charges[r].looked /\ k.status = "paid"
    BY <1>2 DEF Charge
  <1>5. charges' = [charges EXCEPT ![r] = k]
    BY <1>1
  <1> HIDE DEF k
  <1>6. /\ charges' \in Seq(Charge) /\ Len(charges') = Len(charges)
        /\ \A s \in 1 .. Len(charges) : charges'[s] = IF s = r THEN k ELSE charges[s]
    BY <1>2, <1>3, <1>5, ExceptSeq
  <1>7. UNCHANGED <<payments, links, click, now>>
    BY DEF Confirm
  <1>8. TypeOK'
    BY <1>6 DEF Confirm, IInv, TypeOK
  <1>9. DOMAIN charges' = DOMAIN charges
    BY <1>5
  <1>10. \A s \in DOMAIN charges :
           /\ charges'[s].gateway = charges[s].gateway /\ charges'[s].payment = charges[s].payment
           /\ charges'[s].at = charges[s].at /\ charges'[s].looked = charges[s].looked
           /\ charges'[s].status = "pending" => charges[s].status = "pending"
    BY <1>2, <1>4, <1>6
  <1>11. \A q : RowsOf(q)' = RowsOf(q)
    BY <1>9, <1>10 DEF RowsOf
  <1>12. Bounded'
    BY <1>6, <1>7, <1>9, <1>10 DEF IInv, Bounded
  <1>13. LinksKnown' /\ OnePix' /\ PaidIsKnown'
    BY <1>7, <1>11 DEF IInv, LinksKnown, OnePix, PaidIsKnown
  <1>14. Looked'
    BY <1>7, <1>9, <1>10 DEF IInv, Looked
  <1>15. SameLinkWithinWindow'
    BY <1>9, <1>10 DEF IInv, SameLinkWithinWindow
  <1> QED
    BY <1>8, <1>12, <1>13, <1>14, <1>15 DEF IInv

-----------------------------------------------------------------------------

LEMMA InitInv == Init => IInv
  <1> SUFFICES ASSUME Init
               PROVE  IInv
    OBVIOUS
  <1>1. TypeOK
    <2>1. payments \in Seq(Payment) /\ charges \in Seq(Charge)
      BY EmptySeq DEF Init
    <2>2. links \subseteq 1 .. MaxCharges /\ now \in 0 .. MaxTime
      BY CheckoutAssumption DEF Init
    <2>3. click \in [Clicks -> Click]
      BY NoClickOK DEF Init
    <2> QED
      BY <2>1, <2>2, <2>3 DEF Init, TypeOK
  <1>2. /\ Len(payments) = 0 /\ Len(charges) = 0 /\ DOMAIN payments = {} /\ DOMAIN charges = {}
        /\ \A c \in Clicks : click[c] = NoClick
    BY DEF Init
  <1>3. MaxCharges \in Nat
    BY CheckoutAssumption
  <1> QED
    BY <1>1, <1>2, <1>3
       DEF Init, IInv, Bounded, LinksKnown, OnePix, Looked, PaidIsKnown, SameLinkWithinWindow, NoClick

LEMMA NextInv == IInv /\ [Next]_vars => IInv'
  <1> SUFFICES ASSUME IInv, [Next]_vars
               PROVE  IInv'
    OBVIOUS
  <1>1. CASE Create \/ CreateBreaksOff \/ CancelOrder
    <2>1. TypeOK' /\ UNCHANGED <<payments, charges, links, click, now>>
      BY <1>1 DEF Create, CreateBreaksOff, CancelOrder, IInv, TypeOK
    <2> QED
      BY <2>1, OrderInv
  <1>2. CASE Tick
    BY <1>2, TickInv
  <1>3. ASSUME NEW c \in Clicks, Step(c)
        PROVE  IInv'
    BY <1>3, StepInv
  <1>4. ASSUME NEW p \in DOMAIN payments, Pay(p) \/ CancelCharge(p) \/ Refund(p)
        PROVE  IInv'
    BY <1>4, PayInv, BecomesInv DEF CancelCharge, Refund
  <1>5. ASSUME NEW p \in DOMAIN payments, Confirm(p)
        PROVE  IInv'
    BY <1>5, ConfirmInv
  <1>6. CASE UNCHANGED vars
    <2>1. TypeOK' /\ UNCHANGED <<payments, charges, links, click, now>>
      BY <1>6 DEF vars, IInv, TypeOK
    <2> QED
      BY <2>1, OrderInv
  <1> QED
    BY <1>1, <1>2, <1>3, <1>4, <1>5, <1>6 DEF Next

LEMMA Invariant == Spec => []IInv
  BY InitInv, NextInv, PTL DEF Spec

\* Every variable has its type: an order, its clicks, payments and rows.
THEOREM Typed == Spec => []TypeOK
  <1>1. IInv => TypeOK
    BY DEF IInv
  <1> QED
    BY <1>1, Invariant, PTL

\* What a customer has paid by an answer of the checkout has a row by which the
\* webhook and the sync find it: createCharge precedes every answer, and a link
\* that is handed out again is a row's.
THEOREM PaidHasRow == Spec => []PaidIsKnown
  <1>1. IInv => PaidIsKnown
    BY DEF IInv
  <1> QED
    BY <1>1, Invariant, PTL

\* findReusablePendingCharge: two pending LivePix charges within a window come of
\* clicks that overlapped, whatever the window.
THEOREM SameLink == Spec => []SameLinkWithinWindow
  <1>1. IInv => SameLinkWithinWindow
    BY DEF IInv
  <1> QED
    BY <1>1, Invariant, PTL

\* The idempotency key of Mercado Pago's Pix: no order is paid twice that way.
THEOREM PixOnce == Spec => []PixPaidOnce
  <1>1. IInv => PixPaidOnce
    BY OnePixPaidOnce DEF IInv
  <1> QED
    BY <1>1, Invariant, PTL

-----------------------------------------------------------------------------
(* The customers.                                                          *)

\* A row has an address, ...
RowsNamed == \A i \in Rows : customer[i].email \in Emails

\* ... which no other row has.
Unique == \A i, j \in Rows : customer[i].email = customer[j].email => i = j

\* Whoever an address was said to be has it still.
ToldNamed == \A e \in Emails : told[e] \subseteq Named(e)

\* What the progress of a request tells of it.
Fits(q) ==
  /\ q.pc \in {"email", "document", "synthetic", "insert", "again"} => q.email \in Emails
  /\ q.pc \in {"find", "write"} => q.kind \in {"persist", "rename"}
  /\ q.pc \in {"find", "write"} /\ q.kind = "rename" => q.email \in Emails
  /\ q.pc \in {"find", "write"} /\ q.kind = "persist" => q.document \in Documents
  /\ q.pc = "write" => q.target \in Rows
  /\ q.pc = "synthetic" => q.kind = "create"
  /\ q.pc \in {"idle", "failed"} => q.kind = "none"

CustomersFit == \A r \in Queries : Fits(query[r])

CustomerInv == CustomersTypeOK /\ RowsNamed /\ Unique /\ ToldNamed /\ CustomersFit

-----------------------------------------------------------------------------
(* What the table says.                                                    *)

LEMMA RowIsNamed ==
  ASSUME RowsNamed, NEW i \in Ids, NEW e \in Emails
  PROVE  i \in Named(e) <=> customer[i].email = e
  <1>1. NoRow.email = NoEmail /\ NoEmail # e
    BY CustomersAssumption DEF NoRow
  <1> QED
    BY <1>1 DEF Named, Rows

\* Who is told of is one row at most.
LEMMA OneIsTold == CustomerInv => SameAnswer
  <1> SUFFICES ASSUME CustomerInv
               PROVE  SameAnswer
    OBVIOUS
  <1>1. ASSUME NEW e \in Emails
        PROVE  Cardinality(told[e]) <= 1
    <2>1. \A i, j \in told[e] : i = j
      BY DEF CustomerInv, ToldNamed, Unique, Named
    <2>2. CASE told[e] = {}
      BY <2>2, FS_EmptySet
    <2>3. CASE told[e] # {}
      <3>1. PICK i \in told[e] : TRUE
        BY <2>3
      <3>2. told[e] = {i}
        BY <2>1, <3>1
      <3>3. Cardinality({i}) = 1
        BY FS_Singleton
      <3> QED
        BY <3>2, <3>3
    <2> QED
      BY <2>2, <2>3
  <1>2. \A e \in Emails : told[e] \subseteq Named(e)
    BY DEF CustomerInv, ToldNamed
  <1>3. \A e \in Emails : Cardinality(told[e]) = Cardinality(told[e])
    BY Zenon DEF Cardinality, Cardinality
  <1> QED
    BY <1>1, <1>2, <1>3 DEF SameAnswer

LEMMA NoQueryOK ==
  /\ NoQuery \in Query
  /\ [NoQuery EXCEPT !.pc = "failed"] \in Query
  <1>1. (CHOOSE i \in Ids : TRUE) \in Ids
    BY CustomersAssumption
  <1>2. 0 \in 0 .. MaxAttempts
    BY CustomersAssumption
  <1> QED
    BY <1>1, <1>2 DEF NoQuery, Query

\* One request moves, and what it then is fits; the rows stay.
LEMMA MovesProgress ==
  ASSUME CustomerInv, NEW r \in Queries, NEW q \in Query, Fits(q),
         query' = [query EXCEPT ![r] = q], Rows \subseteq Rows'
  PROVE  CustomersFit' /\ query' \in [Queries -> Query]
  <1>1. query' \in [Queries -> Query]
    BY DEF CustomerInv, CustomersTypeOK
  <1>2. ASSUME NEW p \in Queries
        PROVE  query'[p] = IF p = r THEN q ELSE query[p]
    BY DEF CustomerInv, CustomersTypeOK
  <1>3. ASSUME NEW p \in Queries
        PROVE  Fits(query[p])'
    <2>1. CASE p = r
      BY <1>2, <2>1 DEF Fits
    <2>2. CASE p # r
      BY <1>2, <2>2 DEF CustomerInv, CustomersFit, Fits
    <2> QED
      BY <2>1, <2>2
  <1> QED
    BY <1>1, <1>3 DEF CustomersFit

\* A request that is over, with an answer or without one.
LEMMA EndsProgress ==
  ASSUME CustomerInv, NEW r \in Queries, Answered(r) \/ Fails(r),
         Rows \subseteq Rows'
  PROVE  CustomersFit' /\ query' \in [Queries -> Query]
  <1>1. CASE Answered(r)
    BY <1>1, MovesProgress, NoQueryOK DEF Answered, NoQuery, Fits
  <1>2. CASE Fails(r)
    BY <1>2, MovesProgress, NoQueryOK DEF Fails, NoQuery, Fits
  <1> QED
    BY <1>1, <1>2

\* A step that only moves a request.
LEMMA CustomerQuiet ==
  ASSUME CustomerInv, CustomersFit', query' \in [Queries -> Query],
         UNCHANGED <<customer, told>>
  PROVE  CustomerInv'
  BY DEF CustomerInv, CustomersTypeOK, RowsNamed, Rows, Unique, ToldNamed, Named

\* Whoever has an address is told of.
LEMMA CustomerTells ==
  ASSUME CustomerInv, CustomersFit', query' \in [Queries -> Query],
         UNCHANGED customer,
         NEW e \in Emails, NEW i \in Named(e), Tells(e, i)
  PROVE  CustomerInv'
  <1>1. i \in Ids
    BY DEF Named, Rows
  <1>2. told' \in [Emails -> SUBSET Ids]
    BY <1>1 DEF Tells, CustomerInv, CustomersTypeOK
  <1>3. \A f \in Emails : told'[f] = IF f = e THEN told[f] \cup {i} ELSE told[f]
    BY DEF Tells, CustomerInv, CustomersTypeOK
  <1>4. \A f \in Emails : Named(f)' = Named(f)
    BY DEF Named, Rows
  <1>5. ToldNamed'
    BY <1>3, <1>4 DEF CustomerInv, ToldNamed
  <1> QED
    BY <1>2, <1>5 DEF CustomerInv, CustomersTypeOK, RowsNamed, Rows, Unique

-----------------------------------------------------------------------------
(* The actions.                                                            *)

LEMMA AskedFits ==
  \A q \in Asked : q \in Query /\ Fits(q)
  <1>1. ASSUME NEW kind \in {"upsert", "create", "lookup", "access"}, NEW e \in Emails,
               NEW d \in Given \cup {NoDocument}
        PROVE  OfAddress(kind, e, d) \in Query /\ Fits(OfAddress(kind, e, d))
    <2> DEFINE q == OfAddress(kind, e, d)
    <2>1. /\ q.pc = "email" /\ q.email \in Emails /\ q.kind \in QueryKinds
          /\ q.document \in Documents \cup {NoDocument}
      BY CustomersAssumption DEF OfAddress, NoQuery, QueryKinds
    <2>2. q \in Query
      BY <2>1, NoQueryOK DEF OfAddress, NoQuery, Query
    <2> QED
      BY <2>1, <2>2 DEF Fits
  <1>2. ASSUME NEW i \in Ids, NEW d \in Given
        PROVE  /\ OfRow("persist", i, NoEmail, d) \in Query
               /\ Fits(OfRow("persist", i, NoEmail, d))
    BY NoQueryOK, CustomersAssumption DEF OfRow, NoQuery, Query, QueryKinds, Fits
  <1>3. ASSUME NEW i \in Ids, NEW e \in Emails
        PROVE  /\ OfRow("rename", i, e, NoDocument) \in Query
               /\ Fits(OfRow("rename", i, e, NoDocument))
    BY NoQueryOK, CustomersAssumption DEF OfRow, NoQuery, Query, QueryKinds, Fits
  <1> QED
    BY <1>1, <1>2, <1>3 DEF Asked

LEMMA CustomerArrive ==
  ASSUME CustomerInv, NEW r \in Queries, NEW asked \in Asked, Ask(r, asked)
  PROVE  CustomerInv'
  <1>1. Rows' = Rows
    BY DEF Ask, Rows
  <1>2. CustomersFit' /\ query' \in [Queries -> Query]
    BY <1>1, AskedFits, MovesProgress DEF Ask
  <1> QED
    BY <1>2, CustomerQuiet DEF Ask

LEMMA OnwardFits ==
  ASSUME CustomerInv, NEW r \in Queries, query[r].pc = "email"
  PROVE  Onward(r) \in Query /\ Fits(Onward(r))
  <1> DEFINE q == query[r]
  <1>1. q \in Query /\ q.email \in Emails
    BY DEF CustomerInv, CustomersTypeOK, CustomersFit, Fits
  <1>2. 0 \in 0 .. MaxAttempts - 1
    BY CustomersAssumption
  <1>3. Synthetic[q.email][0] \in Documents
    BY <1>1, <1>2, CustomersAssumption
  <1>4. ASSUME q.kind \in {"access", "lookup"}
        PROVE  Onward(r) \in Query /\ Fits(Onward(r))
    BY <1>1, <1>4 DEF Onward, Query, Fits
  <1>5. ASSUME q.kind = "create", q.document = NoDocument
        PROVE  Onward(r) \in Query /\ Fits(Onward(r))
    BY <1>1, <1>5 DEF Onward, Query, Fits
  <1>6. ASSUME q.kind = "upsert", q.document = NoDocument
        PROVE  Onward(r) \in Query /\ Fits(Onward(r))
    BY <1>1, <1>3, <1>6 DEF Onward, Query, Fits
  <1>7. ASSUME ~ (q.kind \in {"access", "lookup"}),
               ~ (q.kind = "create" /\ q.document = NoDocument),
               ~ (q.kind = "upsert" /\ q.document = NoDocument)
        PROVE  Onward(r) \in Query /\ Fits(Onward(r))
    <2>1. Onward(r) = [q EXCEPT !.pc = "insert"]
      BY <1>7 DEF Onward
    <2> QED
      BY <1>1, <2>1 DEF Query, Fits
  <1> QED
    BY <1>4, <1>5, <1>6, <1>7

LEMMA CustomerFindByEmail ==
  ASSUME CustomerInv, NEW r \in Queries, FindByEmail(r)
  PROVE  CustomerInv'
  <1> DEFINE e == query[r].email
  <1>1. e \in Emails /\ Rows' = Rows /\ UNCHANGED customer
    BY DEF FindByEmail, Rows, CustomerInv, CustomersFit, Fits
  <1>2. CASE query' = [query EXCEPT ![r] = Onward(r)] /\ UNCHANGED told
    <2>1. query[r].pc = "email"
      BY DEF FindByEmail
    <2>2. CustomersFit' /\ query' \in [Queries -> Query]
      BY <1>1, <1>2, <2>1, OnwardFits, MovesProgress
    <2> QED
      BY <1>1, <1>2, <2>2, CustomerQuiet
  <1>3. ASSUME NEW i \in Named(e),
               IF query[r].kind = "create" THEN Fails(r) ELSE Answered(r),
               IF query[r].kind = "create" THEN UNCHANGED told ELSE Tells(e, i)
        PROVE  CustomerInv'
    <2>1. CustomersFit' /\ query' \in [Queries -> Query]
      BY <1>1, <1>3, EndsProgress
    <2>2. CASE UNCHANGED told
      BY <1>1, <2>1, <2>2, CustomerQuiet
    <2>3. CASE Tells(e, i)
      BY <1>1, <2>1, <2>3, CustomerTells
    <2> QED
      BY <1>3, <2>2, <2>3
  <1> QED
    BY <1>2, <1>3 DEF FindByEmail

LEMMA CustomerFindByDocument ==
  ASSUME CustomerInv, NEW r \in Queries, FindByDocument(r)
  PROVE  CustomerInv'
  <1>1. Rows' = Rows /\ UNCHANGED <<customer, told>>
    BY DEF FindByDocument, Rows
  <1>2. CASE Answered(r)
    BY <1>1, <1>2, EndsProgress, CustomerQuiet
  <1>3. CASE GoesOn(r, "insert")
    <2>1. /\ [query[r] EXCEPT !.pc = "insert"] \in Query
          /\ Fits([query[r] EXCEPT !.pc = "insert"])
      BY DEF FindByDocument, CustomerInv, CustomersTypeOK, Query, CustomersFit, Fits
    <2>2. query' = [query EXCEPT ![r] = [query[r] EXCEPT !.pc = "insert"]]
      BY <1>3 DEF GoesOn
    <2> QED
      BY <1>1, <2>1, <2>2, MovesProgress, CustomerQuiet
  <1> QED
    BY <1>2, <1>3 DEF FindByDocument

LEMMA CustomerTrySynthetic ==
  ASSUME CustomerInv, NEW r \in Queries, TrySynthetic(r)
  PROVE  CustomerInv'
  <1> DEFINE n == query[r].attempt
             again == [query[r] EXCEPT !.attempt = n + 1]
             found == [query[r] EXCEPT !.pc = "insert",
                                         !.document = Synthetic[query[r].email][n]]
  <1>1. Rows' = Rows /\ UNCHANGED <<customer, told>>
    BY DEF TrySynthetic, Rows
  <1>2. query[r] \in Query /\ n \in 0 .. MaxAttempts /\ query[r].email \in Emails
    BY DEF TrySynthetic, CustomerInv, CustomersTypeOK, Query, CustomersFit, Fits
  <1>3. ASSUME n < MaxAttempts, query' = [query EXCEPT ![r].attempt = n + 1]
        PROVE  CustomerInv'
    <2>1. n + 1 \in 0 .. MaxAttempts
      BY <1>2, <1>3, CustomersAssumption
    <2>2. again \in Query
      BY <1>2, <2>1 DEF Query
    <2>3. Fits(again)
      BY <1>2 DEF TrySynthetic, CustomerInv, CustomersTypeOK, Query,
         CustomersFit, Fits
    <2>4. query' = [query EXCEPT ![r] = again]
      BY <1>3
    <2> QED
      BY <1>1, <2>2, <2>3, <2>4, MovesProgress, CustomerQuiet
  <1>4. ASSUME n < MaxAttempts,
               query' = [query EXCEPT ![r].pc = "insert",
                                          ![r].document = Synthetic[query[r].email][n]]
        PROVE  CustomerInv'
    <2>1. n \in 0 .. MaxAttempts - 1
      BY <1>2, <1>4, CustomersAssumption
    <2>2. Synthetic[query[r].email][n] \in Documents
      BY <1>2, <2>1, CustomersAssumption
    <2>3. found \in Query /\ Fits(found)
      BY <1>2, <2>2 DEF Query, Fits
    <2>4. query' = [query EXCEPT ![r] = found]
      BY <1>4
    <2> QED
      BY <1>1, <2>3, <2>4, MovesProgress, CustomerQuiet
  <1>5. CASE Fails(r)
    BY <1>1, <1>5, EndsProgress, CustomerQuiet
  <1> QED
    BY <1>3, <1>4, <1>5 DEF TrySynthetic

\* A row is inserted where nobody has the address.
LEMMA CustomerInsert ==
  ASSUME CustomerInv, NEW r \in Queries, Insert(r)
  PROVE  CustomerInv'
  <1>1. /\ query[r].email \in Emails
        /\ query[r].document \in Documents \cup {NoDocument}
    BY DEF Insert, CustomerInv, CustomersTypeOK, Query, CustomersFit, Fits
  <1>e. PICK e \in Emails : e = query[r].email
    BY <1>1
  <1>2. CASE Refusal(r) /\ UNCHANGED <<customer, told>>
    <2>1. Rows' = Rows
      BY <1>2 DEF Rows
    <2>2. ASSUME NEW i \in Holders(e, {}),
                 query' = [query EXCEPT ![r].pc = "again", ![r].target = i]
          PROVE  CustomerInv'
      <3> DEFINE q == [query[r] EXCEPT !.pc = "again", !.target = i]
      <3>1. i \in Ids
        BY DEF Holders, Named, Rows
      <3>2. q \in Query /\ Fits(q)
        BY <1>1, <3>1 DEF CustomerInv, CustomersTypeOK, Query, Fits
      <3>3. query' = [query EXCEPT ![r] = q]
        BY <2>2
      <3> QED
        BY <1>2, <2>1, <3>2, <3>3, MovesProgress, CustomerQuiet
    <2>3. CASE Fails(r)
      BY <1>2, <2>1, <2>3, EndsProgress, CustomerQuiet
    <2> QED
      BY <1>2, <1>e, <2>2, <2>3 DEF Refusal
  <1>3. ASSUME Holders(e, {}) = {}, NEW i \in Ids \ Rows,
               customer' = [customer EXCEPT ![i] = [email |-> e, document |-> query[r].document]],
               Tells(e, i), Answered(r)
        PROVE  CustomerInv'
    <2>1. \A j \in Ids :
            customer'[j] = IF j = i THEN [email |-> e, document |-> query[r].document]
                                                 ELSE customer[j]
      BY <1>3 DEF CustomerInv, CustomersTypeOK
    <2>2. customer' \in [Ids -> Row]
      BY <1>1, <1>3 DEF CustomerInv, CustomersTypeOK, Row
    <2>3. [email |-> e, document |-> query[r].document] # NoRow
      BY <1>1, CustomersAssumption DEF NoRow
    <2>4. Rows' = Rows \cup {i}
      BY <2>1, <2>3 DEF Rows
    <2>5. Named(e) = {}
      BY <1>3 DEF Holders
    <2>6. RowsNamed'
      BY <1>1, <2>1, <2>4 DEF CustomerInv, RowsNamed, Rows
    <2>7. Unique'
      BY <2>1, <2>4, <2>5 DEF CustomerInv, Unique, Named, Rows
    <2>8. \A f \in Emails : told'[f] = IF f = e THEN told[f] \cup {i} ELSE told[f]
      BY <1>3 DEF Tells, CustomerInv, CustomersTypeOK
    <2>9. /\ \A f \in Emails : Named(f) \subseteq Named(f)'
          /\ i \in Named(e)'
      <3>1. \A j \in Rows : j # i /\ j \in Ids /\ customer'[j] = customer[j]
        BY <1>3, <2>1 DEF Rows
      <3>2. customer'[i].email = e
        BY <2>1
      <3> QED
        BY <2>4, <3>1, <3>2 DEF Named
    <2>10. ToldNamed'
      <3> SUFFICES ASSUME NEW f \in Emails, NEW j \in told'[f]
                   PROVE  j \in Named(f)'
        BY DEF ToldNamed
      <3>1. j \in told[f] \/ (f = e /\ j = i)
        BY <2>8
      <3>2. told[f] \subseteq Named(f)
        BY DEF CustomerInv, ToldNamed
      <3> QED
        BY <2>9, <3>1, <3>2
    <2>11. told' \in [Emails -> SUBSET Ids]
      BY <1>3 DEF Tells, CustomerInv, CustomersTypeOK
    <2>12. CustomersFit' /\ query' \in [Queries -> Query]
      BY <1>3, <2>4, EndsProgress
    <2> QED
      BY <2>2, <2>6, <2>7, <2>10, <2>11, <2>12 DEF CustomerInv, CustomersTypeOK
  <1> QED
    BY <1>2, <1>3, <1>e DEF Insert

LEMMA CustomerFindAgain ==
  ASSUME CustomerInv, NEW r \in Queries, FindAgain(r)
  PROVE  CustomerInv'
  <1> DEFINE e == query[r].email
  <1>1. e \in Emails /\ Rows' = Rows /\ UNCHANGED customer
    BY DEF FindAgain, Rows, CustomerInv, CustomersFit, Fits
  <1>2. ASSUME NEW i \in Named(e), Answered(r), Tells(e, i)
        PROVE  CustomerInv'
    BY <1>1, <1>2, EndsProgress, CustomerTells
  <1>3. CASE Fails(r) /\ UNCHANGED told
    BY <1>1, <1>3, EndsProgress, CustomerQuiet
  <1> QED
    BY <1>2, <1>3 DEF FindAgain

LEMMA CustomerFindById ==
  ASSUME CustomerInv, NEW r \in Queries, FindById(r)
  PROVE  CustomerInv'
  <1> DEFINE q == [query[r] EXCEPT !.pc = "write"]
  <1>1. Rows' = Rows /\ UNCHANGED <<customer, told>>
    BY DEF FindById, Rows
  <1>2. CASE Answered(r) \/ Fails(r)
    BY <1>1, <1>2, EndsProgress, CustomerQuiet
  <1>3. CASE query[r].target \in Rows /\ GoesOn(r, "write")
    <2>1. q \in Query /\ Fits(q)
      BY <1>3 DEF FindById, CustomerInv, CustomersTypeOK, Query, CustomersFit, Fits
    <2>2. query' = [query EXCEPT ![r] = q]
      BY <1>3 DEF GoesOn
    <2> QED
      BY <1>1, <2>1, <2>2, MovesProgress, CustomerQuiet
  <1> QED
    BY <1>2, <1>3 DEF FindById

LEMMA CustomerWriteDocument ==
  ASSUME CustomerInv, NEW r \in Queries, WriteDocument(r)
  PROVE  CustomerInv'
  <1> DEFINE i == query[r].target
             d == query[r].document
  <1>1. i \in Rows /\ i \in Ids /\ d \in Documents
    BY DEF WriteDocument, CustomerInv, CustomersFit, Fits, Rows
  <1>2. \A j \in Ids :
          /\ customer'[j].email = customer[j].email
          /\ j # i => customer'[j] = customer[j]
    BY DEF WriteDocument, CustomerInv, CustomersTypeOK, Row
  <1>3. customer' \in [Ids -> Row]
    BY <1>1 DEF WriteDocument, CustomerInv, CustomersTypeOK, Row
  <1>4. customer'[i] # NoRow
    <2>1. customer[i].email \in Emails
      BY <1>1 DEF CustomerInv, RowsNamed
    <2>2. customer'[i].email \in Emails
      BY <1>1, <1>2, <2>1
    <2> QED
      BY <2>2, CustomersAssumption DEF NoRow
  <1>5. Rows' = Rows
    <2>1. \A j \in Ids : customer'[j] # NoRow <=> customer[j] # NoRow
      BY <1>1, <1>2, <1>4 DEF Rows
    <2> QED
      BY <2>1 DEF Rows
  <1>6. \A e \in Emails : Named(e)' = Named(e)
    <2>1. \A j \in Rows : customer'[j].email = customer[j].email
      BY <1>2 DEF Rows
    <2> QED
      BY <1>5, <2>1 DEF Named
  <1>7. RowsNamed' /\ Unique' /\ ToldNamed'
    BY <1>2, <1>5, <1>6 DEF WriteDocument, CustomerInv, RowsNamed, Unique, ToldNamed,
       Rows
  <1>8. CustomersFit' /\ query' \in [Queries -> Query]
    BY <1>5, EndsProgress DEF WriteDocument
  <1> QED
    BY <1>3, <1>7, <1>8 DEF WriteDocument, CustomerInv, CustomersTypeOK

\* An address is given to a row where no other row has it, and nobody has been told
\* of either address since.
LEMMA CustomerWriteEmail ==
  ASSUME CustomerInv, NEW r \in Queries, WriteEmail(r)
  PROVE  CustomerInv'
  <1> DEFINE i == query[r].target
             e == query[r].email
  <1>1. i \in Rows /\ i \in Ids /\ e \in Emails
    BY DEF WriteEmail, CustomerInv, CustomersFit, Fits, Rows
  <1>2. CASE Fails(r) /\ UNCHANGED <<customer, told>>
    <2>1. Rows' = Rows
      BY <1>2 DEF Rows
    <2> QED
      BY <1>2, <2>1, EndsProgress, CustomerQuiet
  <1>3. ASSUME Holders(e, {i}) = {}, customer' = [customer EXCEPT ![i].email = e],
               told' = IF customer[i].email = e THEN told
                       ELSE [told EXCEPT ![e] = {}, ![customer[i].email] = {}],
               Answered(r)
        PROVE  CustomerInv'
    <2>1. customer' \in [Ids -> Row]
      BY <1>1, <1>3 DEF CustomerInv, CustomersTypeOK, Row
    <2>2. customer'[i].email = e /\ \A j \in Ids \ {i} : customer'[j] = customer[j]
      BY <1>1, <1>3 DEF CustomerInv, CustomersTypeOK, Row
    <2>3. customer'[i] # NoRow
      BY <1>1, <2>2, CustomersAssumption DEF NoRow
    <2>4. Rows' = Rows
      BY <1>1, <2>2, <2>3 DEF Rows
    <2>5. RowsNamed'
      BY <1>1, <2>2, <2>4 DEF CustomerInv, RowsNamed, Rows
    <2>6. \A j \in Rows \ {i} : customer[j].email # e
      BY <1>3 DEF Holders, Named
    <2>7. Unique'
      BY <1>1, <2>2, <2>4, <2>6 DEF CustomerInv, Unique, Rows
    <2>8. customer[i].email \in Emails
      BY <1>1 DEF CustomerInv, RowsNamed
    <2>9. told' \in [Emails -> SUBSET Ids]
      BY <1>1, <1>3 DEF CustomerInv, CustomersTypeOK
    <2>10. ToldNamed'
      <3> SUFFICES ASSUME NEW f \in Emails, NEW j \in told'[f]
                   PROVE  j \in Named(f)'
        BY DEF ToldNamed
      <3>1. CASE customer[i].email = e
        <4>1. \A k \in Ids : customer'[k].email = customer[k].email
          BY <2>2, <3>1
        <4>2. told' = told
          BY <1>3, <3>1
        <4>3. j \in Named(f)
          BY <4>2 DEF CustomerInv, ToldNamed
        <4> QED
          BY <2>4, <4>1, <4>3 DEF Named, Rows
      <3>2. CASE customer[i].email # e
        <4>1. told'[f] = IF f \in {e, customer[i].email} THEN {} ELSE told[f]
          BY <1>1, <1>3, <2>8, <3>2 DEF CustomerInv, CustomersTypeOK
        <4>2. f # customer[i].email /\ j \in Named(f)
          BY <4>1 DEF CustomerInv, ToldNamed
        <4>3. j # i
          BY <4>2 DEF Named
        <4> QED
          BY <2>2, <2>4, <4>2, <4>3 DEF Named, Rows
      <3> QED
        BY <3>1, <3>2
    <2>11. CustomersFit' /\ query' \in [Queries -> Query]
      BY <1>3, <2>4, EndsProgress
    <2> QED
      BY <2>1, <2>5, <2>7, <2>9, <2>10, <2>11 DEF CustomerInv, CustomersTypeOK
  <1> QED
    BY <1>2, <1>3 DEF WriteEmail

LEMMA CustomerInit == CustomersInit => CustomerInv
  <1> SUFFICES ASSUME CustomersInit
               PROVE  CustomerInv
    OBVIOUS
  <1>1. NoRow \in Row
    BY DEF NoRow, Row
  <1>2. Rows = {}
    BY DEF CustomersInit, Rows
  <1>3. CustomersTypeOK
    BY <1>1, NoQueryOK DEF CustomersInit, CustomersTypeOK
  <1>4. CustomersFit
    BY DEF CustomersInit, CustomersFit, Fits, NoQuery
  <1> QED
    BY <1>2, <1>3, <1>4 DEF CustomersInit, CustomerInv, RowsNamed, Unique, ToldNamed

LEMMA CustomerNext ==
  CustomerInv /\ [CustomersNext]_customersVars => CustomerInv'
  <1> SUFFICES ASSUME CustomerInv, [CustomersNext]_customersVars
               PROVE  CustomerInv'
    OBVIOUS
  <1>1. ASSUME NEW r \in Queries, NEW asked \in Asked, Ask(r, asked)
        PROVE  CustomerInv'
    BY <1>1, CustomerArrive
  <1>2. ASSUME NEW r \in Queries, Serve(r)
        PROVE  CustomerInv'
    BY <1>2, CustomerFindByEmail, CustomerFindByDocument, CustomerTrySynthetic,
       CustomerInsert, CustomerFindAgain,
       CustomerFindById, CustomerWriteDocument, CustomerWriteEmail DEF Serve
  <1>3. CASE UNCHANGED customersVars
    BY <1>3 DEF customersVars, CustomerInv, CustomersTypeOK, RowsNamed, Unique, ToldNamed,
       CustomersFit, Fits, Rows, Named
  <1> QED
    BY <1>1, <1>2, <1>3 DEF CustomersNext

LEMMA CustomersHold == CustomersSpec => []CustomerInv
  BY CustomerInit, CustomerNext, PTL DEF CustomersSpec

-----------------------------------------------------------------------------

\* The rows, and the progress of each request, are what they should be.
THEOREM CustomerTypes == CustomersSpec => []CustomersTypeOK
  BY CustomersHold, PTL DEF CustomerInv

\* Everybody who asks for an address is told the same customer.
THEOREM EverybodyIsToldTheSame == CustomersSpec => []SameAnswer
  BY CustomersHold, OneIsTold, PTL

\* An upsert that fails lost its address twice: to the row that refused it, and
\* then to nobody.
LEMMA UpsertFails ==
  ASSUME CustomerInv, [CustomersNext]_customersVars, NEW r \in Queries,
         query[r].kind = "upsert", query'[r].pc = "failed"
  PROVE  customer[query[r].target].email # query[r].email
  <1>1. query[r] \in Query /\ query[r].pc # "failed"
    BY DEF CustomerInv, CustomersTypeOK, CustomersFit, Fits
  <1>2. query' # query
    BY <1>1
  <1>3. PICK q \in Queries : (\E asked \in Asked : Ask(q, asked)) \/ Serve(q)
    BY <1>2 DEF CustomersNext, customersVars
  <1>4. q = r
    BY <1>1, <1>3 DEF Ask, Serve, FindByEmail, FindByDocument,
       TrySynthetic, Insert, Refusal,
       FindAgain, FindById, WriteDocument, WriteEmail, GoesOn,
       Answered, Fails, CustomerInv, CustomersTypeOK
  <1>5. FindAgain(r)
    <2>1. ASSUME NEW asked \in Asked, Ask(r, asked)
          PROVE  FALSE
      BY <1>1, <2>1 DEF Ask, CustomerInv, CustomersFit, Fits
    <2>2. ASSUME FindByEmail(r)
          PROVE  FALSE
      <3>1. query'[r] = Onward(r) \/ query'[r] = NoQuery
        BY <1>1, <2>2 DEF FindByEmail, Answered, CustomerInv, CustomersTypeOK
      <3>2. Onward(r).pc # "failed" /\ NoQuery.pc # "failed"
        BY <1>1 DEF Onward, NoQuery, Query
      <3> QED
        BY <3>1, <3>2
    <2>3. ASSUME FindByDocument(r)
          PROVE  FALSE
      BY <1>1, <2>3 DEF FindByDocument, Answered, GoesOn, NoQuery,
         CustomerInv, CustomersTypeOK, Query
    <2>4. ASSUME Insert(r)
          PROVE  FALSE
      BY <1>1, <2>4 DEF Insert, Refusal, Answered, NoQuery,
         CustomerInv, CustomersTypeOK, Query
    <2>5. ASSUME \/ TrySynthetic(r) \/ FindById(r)
                 \/ WriteDocument(r) \/ WriteEmail(r)
          PROVE  FALSE
      BY <2>5 DEF TrySynthetic, FindById, WriteDocument, WriteEmail,
         CustomerInv, CustomersFit, Fits
    <2> QED
      BY <1>3, <1>4, <2>1, <2>2, <2>3, <2>4, <2>5 DEF Serve
  <1>6. Named(query[r].email) = {}
    BY <1>5 DEF FindAgain, Answered, NoQuery, CustomerInv, CustomersTypeOK
  <1>7. query[r].email \in Emails /\ query[r].target \in Ids
    BY <1>1, <1>5 DEF FindAgain, CustomerInv, CustomersFit, Fits, Query
  <1> QED
    BY <1>6, <1>7, RowIsNamed DEF CustomerInv

\* An upsert is idempotent but for an address that changes hands under it.
THEOREM UpsertsAreAnswered == CustomersSpec => UpsertIsAnswered
  <1>1. CustomerInv /\ [CustomersNext]_customersVars =>
          [\A r \in Queries :
             query[r].kind = "upsert" /\ query'[r].pc = "failed"
             => customer[query[r].target].email # query[r].email]_customersVars
    BY UpsertFails
  <1> QED
    BY <1>1, CustomersHold, PTL DEF CustomersSpec, UpsertIsAnswered

-----------------------------------------------------------------------------
(* The LivePix client.                                                     *)

\* A limit that is over has nothing to be told of.
ToldWhileLimited == informed => limit > 0

\* A limit the client was told of in full ends no later than its cooldown.
CooldownCoversLimit == informed => cooldown >= limit

LivePixInv ==
  /\ ClientTypeOK /\ ToldWhileLimited
  /\ OwnTokenUnlessLate /\ CooldownCoversLimit

LEMMA LivePixInit == ClientInit => LivePixInv
  <1> SUFFICES ASSUME ClientInit
               PROVE  LivePixInv
    OBVIOUS
  <1>1. NoRequest \in Request
    BY DEF NoRequest, Request, Pair, NoPair, Longest
  <1>2. NoPair \in Pair /\ {} \in SUBSET [key: {"id", "secret"}, account: Accounts]
    BY DEF NoPair, Pair
  <1>3. ClientTypeOK
    <2>1. pending \in SUBSET [key: {"id", "secret"}, account: Accounts]
      BY <1>2 DEF ClientInit
    <2>2. setting \in Pair /\ client \in Pair
      BY <1>2 DEF ClientInit
    <2>3. request \in [Requests -> Request]
      BY <1>1 DEF ClientInit
    <2>4. cooldown \in 0 .. Longest /\ limit \in Nat
      BY DEF ClientInit, Longest
    <2> QED
      BY <2>1, <2>2, <2>3, <2>4 DEF ClientInit, ClientTypeOK
  <1> QED
    BY <1>3 DEF ClientInit, LivePixInv, OwnTokenUnlessLate,
       CooldownCoversLimit, ToldWhileLimited

-----------------------------------------------------------------------------
(* The progress of a request, by the ways it is updated.                   *)

LEMMA LivePixEndsType ==
  ASSUME ClientTypeOK, NEW r \in Requests, Done(r)
  PROVE  request' \in [Requests -> Request]
  <1>1. NoRequest \in Request
    BY DEF NoRequest, Request, Pair, NoPair, Longest
  <1> QED
    BY <1>1 DEF Done, ClientTypeOK

LEMMA LivePixProceedsType ==
  ASSUME ClientTypeOK, NEW r \in Requests, NEW a \in Accounts \cup {NoAccount},
         Proceeds(r, a)
  PROVE  request' \in [Requests -> Request]
  <1>1. [request[r] EXCEPT !.pc = "send", !.bearer = a, !.creds = NoPair, !.methods = {}]
           \in Request
    BY DEF ClientTypeOK, Request, NoPair, Pair
  <1>2. CASE request[r].kind = "test"
    BY <1>2, LivePixEndsType DEF Proceeds
  <1>3. CASE request[r].kind # "test"
    BY <1>1, <1>3 DEF Proceeds, ClientTypeOK
  <1> QED
    BY <1>2, <1>3

\* What the actions that touch no credentials, token or limit leave alone.
LivePixUntouched == UNCHANGED <<client, token, preferred, cooldown, limit, late, informed>>

LEMMA LivePixQuiet ==
  ASSUME LivePixInv, ClientTypeOK', LivePixUntouched
  PROVE  LivePixInv'
  BY DEF LivePixInv, LivePixUntouched, OwnTokenUnlessLate,
     CooldownCoversLimit, ToldWhileLimited

-----------------------------------------------------------------------------
(* The actions.                                                            *)

LEMMA LivePixSettings ==
  ASSUME LivePixInv,
         (\E a \in Accounts : Save(a)) \/ WriteSetting \/ SaveBreaksOff
  PROVE  LivePixInv'
  <1>1. ASSUME NEW a \in Accounts, Save(a)
        PROVE  LivePixInv'
    <2>1. ClientTypeOK'
      BY <1>1 DEF Save, LivePixInv, ClientTypeOK
    <2> QED
      BY <1>1, <2>1, LivePixQuiet DEF Save, LivePixUntouched
  <1>2. CASE WriteSetting
    <2>1. PICK row \in pending :
            /\ setting' = IF row.key = "id" THEN [setting EXCEPT !.id = row.account]
                                            ELSE [setting EXCEPT !.secret = row.account]
            /\ pending' = pending \ {row}
      BY <1>2 DEF WriteSetting
    <2>2. row \in [key: {"id", "secret"}, account: Accounts]
      BY DEF LivePixInv, ClientTypeOK
    <2>3. setting' \in Pair
      BY <2>1, <2>2 DEF LivePixInv, ClientTypeOK, Pair
    <2>4. ClientTypeOK'
      BY <1>2, <2>1, <2>3 DEF WriteSetting, LivePixInv, ClientTypeOK
    <2> QED
      BY <1>2, <2>4, LivePixQuiet DEF WriteSetting, LivePixUntouched
  <1>3. CASE SaveBreaksOff
    <2>1. ClientTypeOK'
      BY <1>3 DEF SaveBreaksOff, LivePixInv, ClientTypeOK
    <2> QED
      BY <1>3, <2>1, LivePixQuiet DEF SaveBreaksOff, LivePixUntouched
  <1> QED
    BY <1>1, <1>2, <1>3

LEMMA LivePixArrive ==
  ASSUME LivePixInv, NEW r \in Requests, NEW kind \in Kinds, Start(r, kind)
  PROVE  LivePixInv'
  <1>1. [request[r] EXCEPT !.pc = "config", !.kind = kind] \in Request
    BY DEF LivePixInv, ClientTypeOK, Request
  <1>2. ClientTypeOK'
    BY <1>1 DEF Start, LivePixInv, ClientTypeOK
  <1> QED
    BY <1>2, LivePixQuiet DEF Start, LivePixUntouched

LEMMA LivePixReadConfig ==
  ASSUME LivePixInv, NEW r \in Requests, ReadConfig(r)
  PROVE  LivePixInv'
  <1>1. [request[r] EXCEPT !.pc = "apply", !.creds = setting] \in Request
    BY DEF LivePixInv, ClientTypeOK, Request
  <1>2. ClientTypeOK'
    BY <1>1 DEF ReadConfig, LivePixInv, ClientTypeOK
  <1> QED
    BY <1>2, LivePixQuiet DEF ReadConfig, LivePixUntouched

\* Other credentials take the token with them, another id the way of authenticating.
LEMMA LivePixApply ==
  ASSUME LivePixInv, NEW r \in Requests, Apply(r)
  PROVE  LivePixInv'
  <1> DEFINE creds == request[r].creds
  <1>1. creds \in Pair
    BY DEF LivePixInv, ClientTypeOK, Request
  <1>2. CASE NoAccount \in {creds.id, creds.secret}
    <2>1. Done(r) /\ UNCHANGED <<client, token, preferred, late>>
      BY <1>2 DEF Apply
    <2>2. request' \in [Requests -> Request]
      BY <2>1, LivePixEndsType DEF LivePixInv
    <2>3. ClientTypeOK'
      BY <2>1, <2>2 DEF Apply, LivePixInv, ClientTypeOK
    <2> QED
      BY <2>1, <2>3, LivePixQuiet DEF Apply, LivePixUntouched
  <1>3. CASE NoAccount \notin {creds.id, creds.secret}
    <2>1. /\ client' = creds
          /\ token' = TokenAfter(creds)
          /\ preferred' = MethodAfter(creds)
          /\ late' = (late /\ creds.id = client.id)
          /\ request' = [request EXCEPT ![r].creds = NoPair,
                ![r].pc = IF request[r].kind = "payment" THEN "reuse" ELSE "call"]
          /\ UNCHANGED <<setting, pending, cooldown, limit, informed>>
      BY <1>3 DEF Apply
    <2>2. [request[r] EXCEPT !.creds = NoPair,
              !.pc = IF request[r].kind = "payment" THEN "reuse" ELSE "call"] \in Request
      BY DEF LivePixInv, ClientTypeOK, Request, Pair, NoPair
    <2>3. request' \in [Requests -> Request]
      BY <2>1, <2>2 DEF LivePixInv, ClientTypeOK
    <2>4. token' \in Accounts \cup {NoAccount} /\ preferred' \in Methods \cup {"none"}
      BY <2>1 DEF TokenAfter, MethodAfter, LivePixInv, ClientTypeOK
    <2>5. late' \in BOOLEAN
      BY <2>1
    <2>6. ClientTypeOK'
      BY <1>1, <2>1, <2>3, <2>4, <2>5 DEF LivePixInv, ClientTypeOK
    <2>7. OwnTokenUnlessLate'
      <3>1. CASE creds = client
        BY <2>1, <3>1 DEF TokenAfter, MethodAfter, LivePixInv,
           OwnTokenUnlessLate
      <3>2. CASE creds # client /\ creds.id = client.id
        BY <2>1, <3>2 DEF TokenAfter, MethodAfter, LivePixInv,
           OwnTokenUnlessLate
      <3>3. CASE creds.id # client.id
        BY <2>1, <3>3 DEF TokenAfter, MethodAfter, OwnTokenUnlessLate
      <3> QED
        BY <3>1, <3>2, <3>3
    <2> QED
      BY <2>1, <2>6, <2>7 DEF LivePixInv, CooldownCoversLimit, ToldWhileLimited
  <1> QED
    BY <1>2, <1>3

LEMMA LivePixReuse ==
  ASSUME LivePixInv, NEW r \in Requests, ReusePayment(r)
  PROVE  LivePixInv'
  <1>1. [request[r] EXCEPT !.pc = "call"] \in Request
    BY DEF LivePixInv, ClientTypeOK, Request
  <1>2. request' \in [Requests -> Request]
    BY <1>1, LivePixEndsType DEF ReusePayment, MovesTo, LivePixInv, ClientTypeOK
  <1>3. ClientTypeOK'
    BY <1>2 DEF ReusePayment, LivePixInv, ClientTypeOK
  <1> QED
    BY <1>3, LivePixQuiet DEF ReusePayment, LivePixUntouched

LEMMA LivePixCall ==
  ASSUME LivePixInv, NEW r \in Requests, Call(r)
  PROVE  LivePixInv'
  <1>1. ASSUME EnsureToken(r), token # NoAccount
        PROVE  request' \in [Requests -> Request]
    BY <1>1, LivePixProceedsType DEF EnsureToken, LivePixInv, ClientTypeOK
  <1>2. ASSUME EnsureToken(r), token = NoAccount
        PROVE  request' \in [Requests -> Request]
    <2>1. [request[r] EXCEPT !.pc = "oauth", !.creds = client,
              !.methods = IF preferred = "none" THEN Methods ELSE {preferred}]
             \in Request
      BY DEF LivePixInv, ClientTypeOK, Request
    <2> QED
      BY <1>2, <2>1 DEF EnsureToken, LivePixInv, ClientTypeOK
  <1>3. request' \in [Requests -> Request]
    BY <1>1, <1>2, LivePixEndsType DEF Call, LivePixInv, ClientTypeOK
  <1>4. ClientTypeOK'
    BY <1>3 DEF Call, LivePixInv, ClientTypeOK
  <1> QED
    BY <1>4, LivePixQuiet DEF Call, LivePixUntouched

\* The token that is issued belongs to the credentials sent: if the client still
\* holds them, to it.
LEMMA LivePixIssued ==
  ASSUME LivePixInv, NEW r \in Requests, Issued(r)
  PROVE  LivePixInv'
  <1> DEFINE creds == request[r].creds
  <1>1. creds \in Pair /\ creds.id \in Accounts \cup {NoAccount}
    BY DEF LivePixInv, ClientTypeOK, Request, Pair
  <1>2. /\ creds.id = creds.secret /\ Method(r) \in Accepts[creds.id]
        /\ token' = creds.id /\ preferred' = Method(r) /\ late' = (creds # client)
        /\ Proceeds(r, creds.id)
        /\ UNCHANGED <<setting, pending, client, cooldown, limit, informed>>
    BY DEF Issued
  <1>3. request' \in [Requests -> Request]
    BY <1>1, <1>2, LivePixProceedsType DEF LivePixInv
  <1>4. Method(r) \in Methods
    BY DEF Method, Methods
  <1>5. ClientTypeOK'
    BY <1>1, <1>2, <1>3, <1>4 DEF LivePixInv, ClientTypeOK
  <1>6. OwnTokenUnlessLate'
    BY <1>2 DEF OwnTokenUnlessLate
  <1> QED
    BY <1>2, <1>5, <1>6 DEF LivePixInv, CooldownCoversLimit, ToldWhileLimited

LEMMA LivePixDenied ==
  ASSUME LivePixInv, NEW r \in Requests, Denied(r)
  PROVE  LivePixInv'
  <1>1. [request[r] EXCEPT !.methods = @ \ {Method(r)}, !.creds = client]
           \in Request
    BY DEF LivePixInv, ClientTypeOK, Request
  <1>2. request' \in [Requests -> Request]
    BY <1>1, LivePixEndsType DEF Denied, LivePixInv, ClientTypeOK
  <1>3. ClientTypeOK'
    BY <1>2 DEF Denied, LivePixInv, ClientTypeOK
  <1> QED
    BY <1>3, LivePixQuiet DEF Denied, LivePixUntouched

LEMMA LivePixUnanswered ==
  ASSUME LivePixInv, NEW r \in Requests, Unanswered(r)
  PROVE  LivePixInv'
  <1>1. request' \in [Requests -> Request]
    BY LivePixEndsType DEF Unanswered, LivePixInv
  <1>2. ClientTypeOK'
    BY <1>1 DEF Unanswered, LivePixInv, ClientTypeOK
  <1> QED
    BY <1>2, LivePixQuiet DEF Unanswered, LivePixUntouched

\* A limit the client has been told of does not change while it lasts.
LEMMA LivePixSend ==
  ASSUME LivePixInv, NEW r \in Requests, Send(r)
  PROVE  LivePixInv'
  <1>1. PICK m \in (IF limit > 0 THEN {limit} ELSE {0} \cup Limits) :
          /\ limit' = m
          /\ \E t \in Cooldowns(m) :
               request' = [request EXCEPT ![r].pc = "reply", ![r].bearer = NoAccount,
                                                         ![r].told = t]
    BY DEF Send
  <1>2. m \in Nat /\ (limit > 0 => m = limit)
    BY LivePixAssumption DEF LivePixInv, ClientTypeOK
  <1>3. PICK t \in Cooldowns(m) :
          request' = [request EXCEPT ![r].pc = "reply", ![r].bearer = NoAccount,
                                                    ![r].told = t]
    BY <1>1
  <1>4. t \in 0 .. Longest
    BY <1>2, <1>3 DEF Cooldowns, Longest, Guess
  <1>5. [request[r] EXCEPT !.pc = "reply", !.bearer = NoAccount, !.told = t] \in Request
    BY <1>4 DEF LivePixInv, ClientTypeOK, Request
  <1>6. request' \in [Requests -> Request]
    BY <1>3, <1>5 DEF LivePixInv, ClientTypeOK
  <1>7. ClientTypeOK'
    BY <1>1, <1>2, <1>6 DEF Send, LivePixInv, ClientTypeOK
  <1>8. informed => limit' = limit
    BY <1>1, <1>2 DEF LivePixInv, ToldWhileLimited
  <1>9. CooldownCoversLimit' /\ ToldWhileLimited'
    BY <1>8 DEF Send, LivePixInv, CooldownCoversLimit, ToldWhileLimited
  <1> QED
    BY <1>7, <1>9 DEF Send, LivePixInv, OwnTokenUnlessLate

\* The longer cooldown covers what either covers.
LEMMA LivePixReply ==
  ASSUME LivePixInv, NEW r \in Requests, Reply(r)
  PROVE  LivePixInv'
  <1>1. request[r].told \in 0 .. Longest /\ cooldown \in 0 .. Longest /\ limit \in Nat
    BY DEF LivePixInv, ClientTypeOK, Request
  <1>2. request' \in [Requests -> Request]
    BY LivePixEndsType DEF Reply, LivePixInv
  <1>3. /\ cooldown' \in 0 .. Longest /\ cooldown' >= cooldown
        /\ cooldown' >= request[r].told
    BY <1>1 DEF Reply, CooldownFor, Longest
  <1>4. ClientTypeOK'
    BY <1>2, <1>3 DEF Reply, LivePixInv, ClientTypeOK
  <1>5. limit' = limit /\ informed' = (informed \/ (limit > 0 /\ request[r].told >= limit))
    BY DEF Reply
  <1>6. CooldownCoversLimit'
    <2>1. CASE informed
      <3>1. cooldown >= limit
        BY <2>1 DEF LivePixInv, CooldownCoversLimit
      <3>2. cooldown' >= limit'
        BY <1>1, <1>3, <1>5, <3>1 DEF Longest
      <3> QED
        BY <3>2 DEF CooldownCoversLimit
    <2>2. CASE request[r].told >= limit
      <3>1. cooldown' >= limit'
        BY <1>1, <1>3, <1>5, <2>2 DEF Longest
      <3> QED
        BY <3>1 DEF CooldownCoversLimit
    <2> QED
      BY <1>5, <2>1, <2>2 DEF CooldownCoversLimit
  <1>7. ToldWhileLimited'
    BY <1>5 DEF LivePixInv, ToldWhileLimited
  <1> QED
    BY <1>4, <1>6, <1>7 DEF Reply, LivePixInv, OwnTokenUnlessLate

LEMMA LivePixExpire ==
  ASSUME LivePixInv, Expire
  PROVE  LivePixInv'
  <1>1. ClientTypeOK'
    BY DEF Expire, LivePixInv, ClientTypeOK
  <1> QED
    BY <1>1 DEF Expire, LivePixInv, OwnTokenUnlessLate,
       CooldownCoversLimit, ToldWhileLimited

LEMMA LivePixTick ==
  ASSUME LivePixInv, Minute
  PROVE  LivePixInv'
  <1>1. cooldown \in 0 .. Longest /\ limit \in Nat
    BY DEF LivePixInv, ClientTypeOK
  <1>2. ClientTypeOK'
    BY <1>1 DEF Minute, Less, Longest, LivePixInv, ClientTypeOK
  <1>3. ASSUME informed'
        PROVE  cooldown' >= limit' /\ limit' > 0
    <2>1. informed /\ limit > 1
      BY <1>3 DEF Minute
    <2>2. cooldown >= limit
      BY <2>1 DEF LivePixInv, CooldownCoversLimit
    <2>3. cooldown' = cooldown - 1 /\ limit' = limit - 1
      BY <1>1, <2>1, <2>2 DEF Minute, Less, Longest
    <2> QED
      BY <1>1, <2>1, <2>2, <2>3 DEF Longest
  <1>4. CooldownCoversLimit' /\ ToldWhileLimited'
    BY <1>3 DEF CooldownCoversLimit, ToldWhileLimited
  <1> QED
    BY <1>2, <1>4 DEF Minute, LivePixInv, OwnTokenUnlessLate

LEMMA LivePixNext == LivePixInv /\ [ClientNext]_clientVars => LivePixInv'
  <1> SUFFICES ASSUME LivePixInv, [ClientNext]_clientVars
               PROVE  LivePixInv'
    OBVIOUS
  <1>1. CASE (\E a \in Accounts : Save(a)) \/ WriteSetting \/ SaveBreaksOff
    BY <1>1, LivePixSettings
  <1>2. ASSUME NEW r \in Requests, NEW kind \in Kinds, Start(r, kind)
        PROVE  LivePixInv'
    BY <1>2, LivePixArrive
  <1>3. ASSUME NEW r \in Requests, Continue(r)
        PROVE  LivePixInv'
    BY <1>3, LivePixReadConfig, LivePixApply, LivePixReuse, LivePixCall, LivePixIssued,
       LivePixDenied,
       LivePixUnanswered, LivePixSend, LivePixReply DEF Continue
  <1>4. CASE Expire \/ Minute
    BY <1>4, LivePixExpire, LivePixTick
  <1>5. CASE UNCHANGED clientVars
    BY <1>5 DEF clientVars, LivePixInv, ClientTypeOK, OwnTokenUnlessLate,
       CooldownCoversLimit, ToldWhileLimited
  <1> QED
    BY <1>1, <1>2, <1>3, <1>4, <1>5 DEF ClientNext

LEMMA LivePixHolds == ClientSpec => []LivePixInv
  BY LivePixInit, LivePixNext, PTL DEF ClientSpec

-----------------------------------------------------------------------------

\* The client's fields, and the progress of each request, are what they should be.
THEOREM LivePixTypes == ClientSpec => []ClientTypeOK
  BY LivePixHolds, PTL DEF LivePixInv

\* Token and way of authenticating are the client's own, unless they came late.
THEOREM OwnToken == ClientSpec => []OwnTokenUnlessLate
  BY LivePixHolds, PTL DEF LivePixInv

\* A payment that comes to the test is not under way otherwise, and other steps
\* leave its progress alone.
LEMMA LivePixTurnsAway ==
  ASSUME LivePixInv, [ClientNext]_clientVars, NEW r \in Requests,
         informed, request[r].kind = "payment", request[r].pc = "call"
  PROVE  request'[r] \in {request[r], NoRequest}
  <1>1. cooldown > 0
    BY DEF LivePixInv, ToldWhileLimited, CooldownCoversLimit, ClientTypeOK, Longest
  <1>2. request[r] # NoRequest
    BY DEF NoRequest
  <1>3. request \in [Requests -> Request]
    BY DEF LivePixInv, ClientTypeOK
  <1>4. CASE \/ \E a \in Accounts : Save(a)
             \/ WriteSetting \/ SaveBreaksOff \/ Expire \/ Minute \/ UNCHANGED clientVars
    BY <1>4 DEF Save, WriteSetting, SaveBreaksOff, Expire, Minute, clientVars
  <1>5. ASSUME NEW q \in Requests, NEW kind \in Kinds, Start(q, kind)
        PROVE  request'[r] = request[r]
    BY <1>2, <1>3, <1>5 DEF Start
  <1>6. ASSUME NEW q \in Requests, Continue(q)
        PROVE  request'[r] \in {request[r], NoRequest}
    <2>1. CASE q = r
      <3>1. Call(r)
        BY <1>6, <2>1 DEF Continue, ReadConfig, Apply, ReusePayment, Issued, Denied,
           Unanswered, Send, Reply
      <3> QED
        BY <1>1, <1>3, <3>1 DEF Call, Done
    <2>2. CASE q # r
      <3>1. CASE ReadConfig(q) \/ ReusePayment(q) \/ Call(q) \/ Unanswered(q) \/ Reply(q)
        BY <1>3, <2>2, <3>1 DEF ReadConfig, ReusePayment, Call, EnsureToken, Proceeds,
           Unanswered, Reply, Done, MovesTo
      <3>2. CASE Apply(q) \/ Issued(q) \/ Denied(q) \/ Send(q)
        BY <1>3, <2>2, <3>2 DEF Apply, Issued, Denied, Send, Proceeds, Done
      <3> QED
        BY <1>6, <3>1, <3>2 DEF Continue
    <2> QED
      BY <2>1, <2>2
  <1> QED
    BY <1>4, <1>5, <1>6 DEF ClientNext

\* No payment gets past the test while a limit lasts that the client was told of in
\* full: no shorter limit, and no answer without one, cuts the cooldown short.
THEOREM PaymentsWaitOutLimits == ClientSpec => LimitTurnsPaymentsAway
  <1>1. ASSUME LivePixInv, [ClientNext]_clientVars
        PROVE  \A r \in Requests :
                 informed /\ request[r].kind = "payment" /\ request[r].pc = "call"
                   => request'[r] \in {request[r], NoRequest}
    BY <1>1, LivePixTurnsAway
  <1> QED
    BY <1>1, LivePixHolds, PTL DEF ClientSpec, LimitTurnsPaymentsAway
================================================================================
