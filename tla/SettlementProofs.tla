-------------------------- MODULE SettlementProofs --------------------------
(***************************************************************************)
(* Proofs about Settlement, for any number of charges, workers, syncs and  *)
(* crons, of attempts and of failures.                                     *)
(***************************************************************************)
EXTENDS Settlement, TLAPS

Busy == {"find", "charge", "payment", "invoice", "grant", "suspend", "notify", "done"}
AtRow == {"charge", "payment", "invoice", "grant", "suspend", "notify"}

\* The payment row of r exists, is about to be inserted, or is lost for good.
Accounted(r) ==
  \/ payments[r] > 0
  \/ r \in cut
  \/ \E c \in Procs : call[c].pc = "payment" /\ call[c].row = r

\* What a handler relies on between two of its steps.
CallOK(k) ==
  /\ k.pc \in Busy <=> k.kind # "none"
  /\ k.kind # "none" => k.pay \in Charges
  /\ k.pc \in AtRow => k.row \in Charges
  /\ k.kind = "paid" => Confirmed(k.pay)
  /\ k.pc \in {"payment", "grant"} => k.kind = "paid"
  /\ k.pc = "suspend" => k.kind = "chargeback"
  /\ k.pc = "notify" /\ k.kind = "paid" => licence # "none"
  /\ k.pc = "charge" /\ k.kind = "paid" /\ k.seen = "paid" => Accounted(k.row)

CallsOK == \A c \in Procs : CallOK(call[c])

\* A worker's job is in the queue until the worker is done, and its own.
HeldJobs ==
  /\ \A w \in Workers : call[w].kind # "none" => jobs[<<call[w].pay, call[w].kind>>] > 0
  /\ \A v, w \in Workers :
       call[v].kind # "none" /\ call[v].pay = call[w].pay /\ call[v].kind = call[w].kind
         => v = w

QueuedConfirmed == \A p \in Charges : jobs[<<p, "paid">>] > 0 => Confirmed(p)

\* The gateway has no payment for a checkout that was never started.
AbsentUnknown == \A r \in Charges : charge[r].status = "absent" => remote[r] = "none"

PaidAccounted == \A r \in Charges : charge[r].status = "paid" => Accounted(r)

IInv ==
  /\ TypeOK
  /\ CallsOK
  /\ HeldJobs
  /\ QueuedConfirmed
  /\ AbsentUnknown
  /\ PaidAccounted
  /\ PaidIsConfirmed
  /\ ToldAfterGrant

-----------------------------------------------------------------------------

\* Everything holds of the empty tables Init describes.
LEMMA InitIInv == Init => IInv
  <1> SUFFICES ASSUME Init PROVE IInv
    OBVIOUS
  <1> USE SettlementAssumption DEF Init
  <1>1. Idle \in Call
    BY DEF Idle, Call, NoId, Statuses
  <1>2. TypeOK
    <2>1. [status |-> "absent", ext |-> NoId, means |-> "pix", retry |-> FALSE] \in Charge
      BY DEF Charge, Statuses, NoId, Means
    <2>2. 0 \in 0 .. Attempts
      OBVIOUS
    <2> QED
      BY <1>1, <2>1, <2>2 DEF TypeOK
  <1>3. CallsOK /\ HeldJobs
    BY DEF CallsOK, CallOK, HeldJobs, Procs, Idle, Busy, AtRow
  <1>4. QueuedConfirmed /\ AbsentUnknown
    <2>1. \A p \in Charges : <<p, "paid">> \in Charges \X Kinds
      BY DEF Kinds
    <2>2. \A p \in Charges : jobs[<<p, "paid">>] = 0
      BY <2>1
    <2> QED
      BY <2>2 DEF QueuedConfirmed, AbsentUnknown
  <1>5. PaidAccounted /\ PaidIsConfirmed /\ ToldAfterGrant
    BY DEF PaidAccounted, PaidIsConfirmed, Confirmed, ToldAfterGrant
  <1> QED
    BY <1>2, <1>3, <1>4, <1>5 DEF IInv

\* A call that has ended is well formed and in no handler.
LEMMA ReturnedOK ==
  ASSUME TypeOK, NEW c \in Procs
  PROVE  /\ Returned(c) \in Call
         /\ Returned(c).kind = "none"
         /\ Returned(c).pc \in {"idle", "pick"}
  <1> DEFINE p == IF c \in Workers THEN "idle" ELSE "pick"
  <1>1. Returned(c) = [Idle EXCEPT !.pc = p, !.todo = call[c].todo]
    BY DEF Returned
  <1>2. p \in {"idle", "pick"} /\ call[c].todo \in SUBSET Charges
    BY DEF TypeOK, Call
  <1>3. Idle \in Call /\ Idle.kind = "none"
    BY DEF Idle, Call, NoId, Statuses
  <1> HIDE DEF p
  <1> QED
    BY <1>1, <1>2, <1>3 DEF Call

\* k is the call of c, gone on to pc.
On(c, k, pc) ==
  /\ k \in Call
  /\ k.pc = pc
  /\ k.kind = call[c].kind /\ k.pay = call[c].pay
  /\ k.row = call[c].row /\ k.seen = call[c].seen

\* k is what is left of a call that is in no handler.
Over(k) == k \in Call /\ k.kind = "none" /\ k.pc \in {"idle", "ask", "pick"}

LEMMA GoesOn ==
  ASSUME TypeOK, NEW c \in Procs, NEW pc \in Busy, Goes(c, pc)
  PROVE  \E k : On(c, k, pc) /\ call' = [call EXCEPT ![c] = k]
  <1> DEFINE k == [call[c] EXCEPT !.pc = pc]
  <1>1. call[c] \in Call
    BY DEF TypeOK
  <1>2. On(c, k, pc)
    BY <1>1 DEF On, Call, Busy
  <1>3. call' = [call EXCEPT ![c] = k]
    BY DEF Goes
  <1> QED
    BY <1>2, <1>3

LEMMA EndsOver ==
  ASSUME TypeOK, NEW c \in Procs, Ends(c)
  PROVE  \E k : (On(c, k, "done") \/ Over(k)) /\ call' = [call EXCEPT ![c] = k]
  BY GoesOn, ReturnedOK DEF Ends, Over, Busy

\* What no step takes back: a confirmation, a licence, a payment accounted for.
Kept ==
  /\ \A p \in Charges : Confirmed(p) => Confirmed(p)'
  /\ licence # "none" => licence' # "none"
  /\ \A r \in Charges : Accounted(r) => Accounted(r)'

\* So a step keeps the calls of the processes that do not take it in order.
LEMMA OthersOK ==
  ASSUME CallsOK, Kept, NEW c \in Procs, CallOK(call[c])',
         \A d \in Procs \ {c} : call'[d] = call[d]
  PROVE  CallsOK'
  <1> SUFFICES ASSUME NEW d \in Procs, d # c PROVE CallOK(call[d])'
    BY DEF CallsOK
  <1>1. CallOK(call[d]) /\ call'[d] = call[d]
    BY DEF CallsOK
  <1> QED
    BY <1>1 DEF CallOK, Kept, AtRow, Busy

\* Workers keep their events to themselves as long as nobody takes a new one.
LEMMA HeldStays ==
  ASSUME HeldJobs,
         \A w \in Workers :
           call'[w].kind # "none" =>
             /\ call'[w].kind = call[w].kind /\ call'[w].pay = call[w].pay
             /\ jobs'[<<call[w].pay, call[w].kind>>] > 0
  PROVE  HeldJobs'
  BY DEF HeldJobs

\* The rows a step leaves alone, and those it does not make paid.
RowsKept ==
  \A r \in Charges :
    /\ charge'[r].means = charge[r].means
    /\ charge'[r].status = "paid" => charge[r].status = "paid" /\ charge'[r].ext = charge[r].ext

\* A payment that is confirmed stays so, and a row that is linked to it.
LEMMA ConfirmedStays ==
  ASSUME PaidIsConfirmed, Kept, RowsKept, licence' # "none" => licence # "none"
  PROVE  PaidIsConfirmed'
  <1>1. licence' # "none" => \E p \in Charges : Confirmed(p)'
    BY DEF PaidIsConfirmed, Kept
  <1>2. ASSUME NEW r \in Charges, charge'[r].status = "paid"
        PROVE  charge'[r].ext \in Charges /\ Confirmed(charge[r].ext)'
    <2>1. /\ charge[r].ext \in Charges /\ Confirmed(charge[r].ext)
          /\ charge'[r].ext = charge[r].ext
      BY <1>2 DEF PaidIsConfirmed, RowsKept
    <2> QED
      BY <2>1 DEF Kept, Confirmed
  <1> QED
    BY <1>1, <1>2 DEF PaidIsConfirmed

LEMMA FindOK ==
  ASSUME IInv, NEW c \in Workers \cup Syncs, Find(c)
  PROVE  IInv'
  <1> USE DEF IInv, livepix
  <1>1. c \in Procs /\ call[c] \in Call /\ CallOK(call[c]) /\ call[c].pc = "find"
    BY DEF Procs, TypeOK, CallsOK, Find
  <1>2. PICK k \in Call :
          /\ call' = [call EXCEPT ![c] = k]
          /\ \/ On(c, k, "done")
             \/ Over(k)
             \/ /\ k.pc = "charge" /\ k.kind = call[c].kind /\ k.pay = call[c].pay
                /\ k.row \in Charges /\ k.seen = charge[k.row].status
    <2>1. CASE Ends(c)
      BY <1>1, <2>1, EndsOver DEF On, Over
    <2>2. CASE \E r \in Newest(Candidates(call[c].kind, call[c].pay)) :
                 call' = [call EXCEPT ![c].pc = "charge", ![c].row = r,
                                      ![c].seen = charge[r].status]
      <3>1. PICK r \in Charges :
              call' = [call EXCEPT ![c].pc = "charge", ![c].row = r,
                                   ![c].seen = charge[r].status]
        BY <2>2 DEF Newest, Candidates, Existing
      <3> DEFINE k == [call[c] EXCEPT !.pc = "charge", !.row = r, !.seen = charge[r].status]
      <3>2. charge[r].status \in Statuses
        BY DEF TypeOK, Charge
      <3>3. /\ k \in Call /\ k.pc = "charge" /\ k.row = r /\ k.seen = charge[r].status
            /\ k.kind = call[c].kind /\ k.pay = call[c].pay
        BY <1>1, <3>2 DEF Call
      <3>4. call' = [call EXCEPT ![c] = k]
        BY <3>1
      <3> QED
        BY <3>3, <3>4
    <2> QED
      BY <2>1, <2>2 DEF Find
  <1>3. TypeOK'
    BY <1>1, <1>2 DEF Find, TypeOK
  <1>4. Kept
    BY <1>1, <1>2 DEF Find, Kept, Confirmed, Accounted, TypeOK
  <1>5. CallOK(call[c])'
    BY <1>1, <1>2, <1>4
       DEF CallOK, Busy, AtRow, PaidAccounted, TypeOK, Kept, Find, On, Over
  <1>6. CallsOK'
    BY <1>1, <1>2, <1>4, <1>5, OthersOK DEF TypeOK
  <1>7. HeldJobs'
    BY <1>1, <1>2, HeldStays DEF HeldJobs, Find, TypeOK, Procs, CallOK, Busy, On, Over
  <1>8. QueuedConfirmed' /\ AbsentUnknown' /\ PaidAccounted'
    BY <1>4 DEF Find, Kept, QueuedConfirmed, AbsentUnknown, PaidAccounted
  <1>9. PaidIsConfirmed' /\ ToldAfterGrant'
    BY DEF Find, PaidIsConfirmed, Confirmed, ToldAfterGrant
  <1> QED
    BY <1>3, <1>6, <1>7, <1>8, <1>9

LEMMA UpdateChargeOK ==
  ASSUME IInv, NEW c \in Workers \cup Syncs, UpdateCharge(c)
  PROVE  IInv'
  <1> USE DEF IInv, livepix
  <1>1. c \in Procs /\ call[c] \in Call /\ CallOK(call[c]) /\ call[c].pc = "charge"
    BY DEF Procs, TypeOK, CallsOK, UpdateCharge
  <1> DEFINE row == call[c].row
             marked == Marked(call[c].kind, call[c].pay, charge[row])
  <1>2. row \in Charges /\ call[c].pay \in Charges /\ call[c].kind \in Kinds
    BY <1>1 DEF CallOK, AtRow, Busy, Call, Kinds
  <1>3. /\ marked \in Charge /\ marked.status # "absent"
        /\ marked.status = "paid" => call[c].kind = "paid"
        /\ marked.means = charge[row].means
        /\ call[c].kind = "paid" => marked.ext = call[c].pay
    BY <1>2 DEF TypeOK, Charge, Marked, Kinds, Statuses
  <1>4. charge' = [charge EXCEPT ![row] = marked]
    BY DEF UpdateCharge
  <1> HIDE DEF marked, row
  <1>5. /\ AfterCharge(call[c]) \in Busy
        /\ AfterCharge(call[c]) = "payment" => call[c].kind = "paid" /\ call[c].seen # "paid"
        /\ AfterCharge(call[c]) = "notify" => call[c].kind # "paid"
        /\ AfterCharge(call[c]) \in {"payment", "invoice", "notify"}
        /\ call[c].kind = "paid" /\ call[c].seen # "paid" => AfterCharge(call[c]) = "payment"
    BY DEF AfterCharge, Busy
  <1>6. PICK k : On(c, k, AfterCharge(call[c])) /\ call' = [call EXCEPT ![c] = k]
    BY <1>1, <1>5, GoesOn DEF UpdateCharge
  <1>7. TypeOK'
    BY <1>1, <1>2, <1>3, <1>4, <1>6 DEF UpdateCharge, TypeOK, On
  <1>8. Kept
    <2>1. \A p \in Charges : charge'[p].means = charge[p].means
      BY <1>2, <1>3, <1>4 DEF TypeOK
    <2> QED
      BY <1>1, <1>6, <2>1 DEF UpdateCharge, Kept, Confirmed, Accounted, TypeOK, On
  <1>9. CallOK(call[c])'
    BY <1>1, <1>2, <1>5, <1>6, <1>8
       DEF CallOK, Busy, AtRow, TypeOK, Kept, On, row
  <1>10. CallsOK'
    BY <1>1, <1>6, <1>8, <1>9, OthersOK DEF TypeOK
  <1>11. HeldJobs'
    BY <1>1, <1>6, HeldStays DEF HeldJobs, UpdateCharge, TypeOK, Procs, On
  <1>12. QueuedConfirmed' /\ AbsentUnknown'
    BY <1>3, <1>4, <1>8 DEF UpdateCharge, Kept, QueuedConfirmed, AbsentUnknown, TypeOK
  <1>13. PaidAccounted'
    <2>1. CASE call[c].kind = "paid" /\ call[c].seen # "paid"
      <3>1. call'[c].pc = "payment" /\ call'[c].row = row
        BY <1>1, <1>5, <1>6, <2>1 DEF On, TypeOK, row
      <3>2. \A r \in Charges : r = row => Accounted(r)'
        BY <1>1, <3>1 DEF Accounted
      <3> QED
        BY <1>4, <1>8, <3>2 DEF PaidAccounted, Kept, TypeOK
    <2>2. CASE call[c].kind = "paid" /\ call[c].seen = "paid"
      <3>1. \A r \in Charges : r = row => Accounted(r)
        BY <1>1, <2>2 DEF CallOK, row
      <3> QED
        BY <1>4, <1>8, <3>1 DEF PaidAccounted, Kept, TypeOK
    <2>3. CASE call[c].kind # "paid"
      BY <1>3, <1>4, <1>8, <2>3 DEF PaidAccounted, Kept, TypeOK
    <2> QED
      BY <2>1, <2>2, <2>3
  <1>14. PaidIsConfirmed' /\ ToldAfterGrant'
    <2>1. ASSUME NEW r \in Charges, charge'[r].status = "paid"
          PROVE  charge'[r].ext \in Charges /\ Confirmed(charge[r].ext)'
      <3>1. charge'[r].ext \in Charges /\ Confirmed(charge'[r].ext)
        <4>1. CASE r = row
          BY <1>1, <1>2, <1>3, <1>4, <2>1, <4>1 DEF CallOK, TypeOK
        <4>2. CASE r # row
          BY <1>4, <2>1, <4>2 DEF PaidIsConfirmed, TypeOK
        <4> QED
          BY <4>1, <4>2
      <3> QED
        BY <1>8, <3>1 DEF Kept, Confirmed
    <2> QED
      BY <1>8, <2>1 DEF UpdateCharge, PaidIsConfirmed, Kept, ToldAfterGrant
  <1> QED
    BY <1>7, <1>10, <1>11, <1>12, <1>13, <1>14

LEMMA CreatePaymentOK ==
  ASSUME IInv, NEW c \in Workers \cup Syncs, CreatePayment(c)
  PROVE  IInv'
  <1> USE DEF IInv, livepix
  <1>1. c \in Procs /\ call[c] \in Call /\ CallOK(call[c]) /\ call[c].pc = "payment"
    BY DEF Procs, TypeOK, CallsOK, CreatePayment
  <1>2. call[c].row \in Charges
    BY <1>1 DEF CallOK, AtRow
  <1>3. PICK k : On(c, k, "invoice") /\ call' = [call EXCEPT ![c] = k]
    BY <1>1, GoesOn DEF CreatePayment, Busy
  <1>4. TypeOK'
    BY <1>1, <1>2, <1>3 DEF CreatePayment, TypeOK, On
  <1>5. Kept
    BY <1>1, <1>2, <1>3 DEF CreatePayment, Kept, Confirmed, Accounted, TypeOK, On
  <1>6. CallOK(call[c])'
    BY <1>1, <1>2, <1>3, <1>5 DEF CallOK, Busy, AtRow, TypeOK, Kept, On
  <1>7. CallsOK'
    BY <1>1, <1>3, <1>5, <1>6, OthersOK DEF TypeOK
  <1>8. HeldJobs'
    BY <1>1, <1>3, HeldStays DEF HeldJobs, CreatePayment, TypeOK, Procs, On
  <1>9. QueuedConfirmed' /\ AbsentUnknown' /\ PaidAccounted'
    BY <1>5 DEF CreatePayment, Kept, QueuedConfirmed, AbsentUnknown, PaidAccounted
  <1>10. PaidIsConfirmed' /\ ToldAfterGrant'
    BY DEF CreatePayment, PaidIsConfirmed, Confirmed, ToldAfterGrant
  <1> QED
    BY <1>4, <1>7, <1>8, <1>9, <1>10

LEMMA UpdateInvoiceOK ==
  ASSUME IInv, NEW c \in Workers \cup Syncs, UpdateInvoice(c)
  PROVE  IInv'
  <1> USE DEF IInv, livepix
  <1>1. c \in Procs /\ call[c] \in Call /\ CallOK(call[c]) /\ call[c].pc = "invoice"
    BY DEF Procs, TypeOK, CallsOK, UpdateInvoice
  <1>2. call[c].row \in Charges /\ call[c].kind \in {"paid", "chargeback"}
    BY <1>1 DEF CallOK, AtRow, UpdateInvoice
  <1>3. PICK k : /\ call' = [call EXCEPT ![c] = k]
                 /\ \/ On(c, k, "grant") /\ k.kind = "paid"
                    \/ On(c, k, "suspend") /\ k.kind = "chargeback"
                    \/ On(c, k, "done")
                    \/ Over(k)
    BY <1>1, GoesOn, EndsOver DEF UpdateInvoice, Busy, On
  <1>4. TypeOK'
    BY <1>1, <1>2, <1>3 DEF UpdateInvoice, TypeOK, On, Over
  <1>5. Kept
    BY <1>1, <1>3 DEF UpdateInvoice, Kept, Confirmed, Accounted, TypeOK, On, Over
  <1>6. CallOK(call[c])'
    BY <1>1, <1>2, <1>3, <1>5 DEF CallOK, Busy, AtRow, TypeOK, Kept, On, Over
  <1>7. CallsOK'
    BY <1>1, <1>3, <1>5, <1>6, OthersOK DEF TypeOK
  <1>8. HeldJobs'
    BY <1>1, <1>3, HeldStays DEF HeldJobs, UpdateInvoice, TypeOK, Procs, On, Over
  <1>9. QueuedConfirmed' /\ AbsentUnknown' /\ PaidAccounted'
    BY <1>5 DEF UpdateInvoice, Kept, QueuedConfirmed, AbsentUnknown, PaidAccounted
  <1>10. PaidIsConfirmed' /\ ToldAfterGrant'
    BY DEF UpdateInvoice, PaidIsConfirmed, Confirmed, ToldAfterGrant
  <1> QED
    BY <1>4, <1>7, <1>8, <1>9, <1>10

LEMMA GrantOK ==
  ASSUME IInv, NEW c \in Workers \cup Syncs, Grant(c)
  PROVE  IInv'
  <1> USE DEF IInv, livepix
  <1>1. c \in Procs /\ call[c] \in Call /\ CallOK(call[c]) /\ call[c].pc = "grant"
    BY DEF Procs, TypeOK, CallsOK, Grant
  <1>2. /\ call[c].row \in Charges /\ call[c].kind = "paid"
        /\ call[c].pay \in Charges /\ Confirmed(call[c].pay)
    BY <1>1 DEF CallOK, AtRow
  <1>3. PICK k : On(c, k, "notify") /\ call' = [call EXCEPT ![c] = k]
    BY <1>1, GoesOn DEF Grant, Busy
  <1>4. TypeOK'
    BY <1>1, <1>3 DEF Grant, TypeOK, On
  <1>5. Kept
    BY <1>1, <1>3 DEF Grant, Kept, Confirmed, Accounted, TypeOK, On
  <1>6. CallOK(call[c])'
    BY <1>1, <1>2, <1>3, <1>5 DEF CallOK, Busy, AtRow, TypeOK, Kept, On, Grant
  <1>7. CallsOK'
    BY <1>1, <1>3, <1>5, <1>6, OthersOK DEF TypeOK
  <1>8. HeldJobs'
    BY <1>1, <1>3, HeldStays DEF HeldJobs, Grant, TypeOK, Procs, On
  <1>9. QueuedConfirmed' /\ AbsentUnknown' /\ PaidAccounted'
    BY <1>5 DEF Grant, Kept, QueuedConfirmed, AbsentUnknown, PaidAccounted
  <1>10. PaidIsConfirmed' /\ ToldAfterGrant'
    BY <1>2 DEF Grant, Confirmed, PaidIsConfirmed, ToldAfterGrant
  <1> QED
    BY <1>4, <1>7, <1>8, <1>9, <1>10

LEMMA SuspendOK ==
  ASSUME IInv, NEW c \in Workers \cup Syncs, Suspend(c)
  PROVE  IInv'
  <1> USE DEF IInv, livepix
  <1>1. c \in Procs /\ call[c] \in Call /\ CallOK(call[c]) /\ call[c].pc = "suspend"
    BY DEF Procs, TypeOK, CallsOK, Suspend
  <1>2. call[c].row \in Charges
    BY <1>1 DEF CallOK, AtRow
  <1>3. PICK k : On(c, k, "notify") /\ call' = [call EXCEPT ![c] = k]
    BY <1>1, GoesOn DEF Suspend, Busy
  <1>4. TypeOK'
    BY <1>1, <1>3 DEF Suspend, TypeOK, On
  <1>5. Kept /\ (licence' # "none" <=> licence # "none")
    BY <1>1, <1>3 DEF Suspend, Kept, Confirmed, Accounted, TypeOK, On
  <1>6. call[c].kind # "paid"
    BY <1>1 DEF CallOK
  <1>7. CallOK(call[c])'
    BY <1>1, <1>2, <1>3, <1>5, <1>6 DEF CallOK, Busy, AtRow, TypeOK, Kept, On
  <1>8. CallsOK'
    BY <1>1, <1>3, <1>5, <1>7, OthersOK DEF TypeOK
  <1>9. HeldJobs'
    BY <1>1, <1>3, HeldStays DEF HeldJobs, Suspend, TypeOK, Procs, On
  <1>10. QueuedConfirmed' /\ AbsentUnknown' /\ PaidAccounted'
    BY <1>5 DEF Suspend, Kept, QueuedConfirmed, AbsentUnknown, PaidAccounted
  <1>11. PaidIsConfirmed' /\ ToldAfterGrant'
    BY <1>5 DEF Suspend, PaidIsConfirmed, Confirmed, ToldAfterGrant
  <1> QED
    BY <1>4, <1>8, <1>9, <1>10, <1>11

LEMMA NotifyOK ==
  ASSUME IInv, NEW c \in Workers \cup Syncs, Notify(c)
  PROVE  IInv'
  <1> USE DEF IInv, livepix
  <1>1. c \in Procs /\ call[c] \in Call /\ CallOK(call[c]) /\ call[c].pc = "notify"
    BY DEF Procs, TypeOK, CallsOK, Notify
  <1>2. call[c].pay \in Charges /\ call[c].kind \in Kinds
    BY <1>1 DEF CallOK, Busy, Call
  <1>3. PICK k : (On(c, k, "done") \/ Over(k)) /\ call' = [call EXCEPT ![c] = k]
    BY <1>1, EndsOver DEF Notify
  <1>4. TypeOK'
    BY <1>1, <1>2, <1>3 DEF Notify, TypeOK, On, Over
  <1>5. Kept
    BY <1>1, <1>3 DEF Notify, Kept, Confirmed, Accounted, TypeOK, On, Over
  <1>6. CallOK(call[c])'
    BY <1>1, <1>2, <1>3, <1>5 DEF CallOK, Busy, AtRow, TypeOK, Kept, On, Over
  <1>7. CallsOK'
    BY <1>1, <1>3, <1>5, <1>6, OthersOK DEF TypeOK
  <1>8. HeldJobs'
    BY <1>1, <1>3, HeldStays DEF HeldJobs, Notify, TypeOK, Procs, On, Over
  <1>9. QueuedConfirmed' /\ AbsentUnknown' /\ PaidAccounted'
    BY <1>5 DEF Notify, Kept, QueuedConfirmed, AbsentUnknown, PaidAccounted
  <1>10. PaidIsConfirmed'
    BY DEF Notify, PaidIsConfirmed, Confirmed
  <1>11. ToldAfterGrant'
    BY <1>1 DEF CallOK, Notify, ToldAfterGrant
  <1> QED
    BY <1>4, <1>7, <1>8, <1>9, <1>10, <1>11

-----------------------------------------------------------------------------

\* The event a worker takes is an approval only if the gateway approved, and
\* nobody else's.
LEMMA TakeOK ==
  ASSUME IInv, NEW w \in Workers, NEW p \in Charges, NEW kind \in Kinds, Take(w, p, kind)
  PROVE  IInv'
  <1> USE DEF IInv, livepix
  <1>1. w \in Procs /\ call[w] = Idle
    BY DEF Procs, Take
  <1> DEFINE k == [Idle EXCEPT !.pc = "find", !.kind = kind, !.pay = p]
  <1>2. k \in Call /\ k.pc = "find" /\ k.kind = kind /\ k.pay = p
    BY DEF Idle, Call, Kinds, NoId, Statuses
  <1>3. call' = [call EXCEPT ![w] = k]
    BY DEF Take
  <1>4. Idle.pc = "idle" /\ Idle.kind = "none"
    BY DEF Idle
  <1> HIDE DEF k
  <1>5. TypeOK'
    BY <1>1, <1>2, <1>3 DEF Take, TypeOK
  <1>6. Kept
    BY <1>1, <1>2, <1>3, <1>4 DEF Take, Kept, Confirmed, Accounted, TypeOK
  <1>7. CallOK(call[w])'
    BY <1>1, <1>2, <1>3, <1>6
       DEF CallOK, Busy, AtRow, TypeOK, Kept, Take, QueuedConfirmed, Kinds
  <1>8. CallsOK'
    BY <1>1, <1>3, <1>6, <1>7, OthersOK DEF TypeOK
  <1>9. HeldJobs'
    <2>1. \A v \in Workers : v # w => call'[v] = call[v]
      BY <1>3 DEF TypeOK, Procs
    <2>2. call'[w] = k
      BY <1>1, <1>3 DEF TypeOK
    <2>3. \A v \in Workers : ~ (call[v].pay = p /\ call[v].kind = kind)
      BY DEF Take
    <2>4. jobs' = jobs /\ jobs[<<p, kind>>] > 0
      BY DEF Take
    <2> QED
      BY <1>2, <2>1, <2>2, <2>3, <2>4 DEF HeldJobs
  <1>10. QueuedConfirmed' /\ AbsentUnknown' /\ PaidAccounted'
    BY <1>6 DEF Take, Kept, QueuedConfirmed, AbsentUnknown, PaidAccounted
  <1>11. PaidIsConfirmed' /\ ToldAfterGrant'
    BY DEF Take, PaidIsConfirmed, Confirmed, ToldAfterGrant
  <1> QED
    BY <1>5, <1>8, <1>9, <1>10, <1>11

\* Removing a job, or counting an attempt, leaves the others' jobs alone.
LEMMA JobsStay ==
  ASSUME IInv, NEW w \in Workers, NEW n \in 0 .. Attempts, call[w].kind # "none",
         jobs' = [jobs EXCEPT ![<<call[w].pay, call[w].kind>>] = n],
         NEW k, Over(k), call' = [call EXCEPT ![w] = k],
         Kept
  PROVE  HeldJobs'
  <1> USE DEF IInv, livepix
  <1>1. \A v \in Workers : v # w => call'[v] = call[v]
    BY DEF TypeOK, Procs
  <1>2. call'[w].kind = "none"
    BY DEF TypeOK, Procs, Over
  <1>3. \A v \in Workers :
          /\ call[v].kind # "none"
          => call[v].pay \in Charges /\ call[v].kind \in Kinds
    BY DEF CallsOK, CallOK, Procs, TypeOK, Call
  <1>4. ASSUME NEW v \in Workers, v # w, call[v].kind # "none"
        PROVE  jobs'[<<call[v].pay, call[v].kind>>] > 0
    <2>1. <<call[v].pay, call[v].kind>> # <<call[w].pay, call[w].kind>>
      BY <1>4 DEF HeldJobs
    <2>2. jobs[<<call[v].pay, call[v].kind>>] > 0
      BY <1>4 DEF HeldJobs
    <2>3. <<call[v].pay, call[v].kind>> \in Charges \X Kinds
      BY <1>3, <1>4
    <2> QED
      BY <2>1, <2>2, <2>3 DEF TypeOK
  <1> QED
    BY <1>1, <1>2, <1>4, HeldStays

LEMMA DoneOK ==
  ASSUME IInv, NEW c \in Workers, Done(c)
  PROVE  IInv'
  <1> USE DEF IInv, livepix
  <1>1. /\ c \in Procs /\ call[c] \in Call /\ CallOK(call[c])
        /\ call[c].pc = "done" /\ call[c].kind # "none"
    BY DEF Procs, TypeOK, CallsOK, Done, CallOK, Busy
  <1>2. PICK k : Over(k) /\ call' = [call EXCEPT ![c] = k]
    BY <1>1, ReturnedOK DEF Done, Over
  <1>3. jobs' = [jobs EXCEPT ![<<call[c].pay, call[c].kind>>] = 0] /\ 0 \in 0 .. Attempts
    BY SettlementAssumption DEF Done
  <1>4. TypeOK'
    BY <1>1, <1>2, <1>3 DEF Done, TypeOK, Over
  <1>5. Kept
    BY <1>1, <1>2 DEF Done, Kept, Confirmed, Accounted, TypeOK, Over
  <1>6. CallOK(call[c])'
    BY <1>1, <1>2, <1>5 DEF CallOK, Busy, AtRow, TypeOK, Kept, Over
  <1>7. CallsOK'
    BY <1>1, <1>2, <1>5, <1>6, OthersOK DEF TypeOK
  <1>8. HeldJobs'
    BY <1>1, <1>2, <1>3, <1>5, JobsStay
  <1>9. QueuedConfirmed'
    BY <1>3, <1>5 DEF TypeOK, Kept, QueuedConfirmed
  <1>10. AbsentUnknown' /\ PaidAccounted'
    BY <1>5 DEF Done, Kept, AbsentUnknown, PaidAccounted
  <1>11. PaidIsConfirmed' /\ ToldAfterGrant'
    BY DEF Done, PaidIsConfirmed, Confirmed, ToldAfterGrant
  <1> QED
    BY <1>4, <1>7, <1>8, <1>9, <1>10, <1>11

\* An await that rejects loses at most the payment row that was to be inserted,
\* and then the charge is among those that were cut.
LEMMA FailOK ==
  ASSUME IInv, NEW c \in Procs, Fail(c)
  PROVE  IInv'
  <1> USE DEF IInv, livepix
  <1>1. call[c] \in Call /\ CallOK(call[c]) /\ call[c].kind \in Kinds /\ call[c].pay \in Charges
    BY DEF TypeOK, CallsOK, CallOK, Fail, Call
  <1>2. PICK k : Over(k) /\ call' = [call EXCEPT ![c] = k]
    BY ReturnedOK DEF Fail, Over
  <1>3. cut \subseteq cut' /\ cut' \subseteq Charges
        /\ (call[c].pc = "payment" => call[c].row \in cut')
    BY <1>1 DEF Fail, TypeOK, CallOK, AtRow
  <1> DEFINE job == <<call[c].pay, call[c].kind>>
             n   == jobs[job] - 1
  <1>4. job \in Charges \X Kinds /\ jobs[job] \in 0 .. Attempts
    BY <1>1 DEF TypeOK
  <1>5. c \in Workers => n \in 0 .. Attempts /\ jobs' = [jobs EXCEPT ![job] = n]
    <2> SUFFICES ASSUME c \in Workers PROVE n \in 0 .. Attempts /\ jobs' = [jobs EXCEPT ![job] = n]
      OBVIOUS
    <2>1. jobs[job] > 0
      BY DEF HeldJobs, Fail
    <2>2. n \in 0 .. Attempts
      BY <1>4, <2>1, SettlementAssumption
    <2>3. jobs' = [jobs EXCEPT ![job] = n]
      BY <1>4 DEF Fail, AttemptsLeft, TypeOK
    <2> QED
      BY <2>2, <2>3
  <1>6. c \notin Workers => jobs' = jobs
    BY DEF Fail
  <1> HIDE DEF n
  <1>7. TypeOK'
    BY <1>1, <1>2, <1>3, <1>4, <1>5, <1>6 DEF Fail, TypeOK, Over
  <1>8. Kept
    BY <1>1, <1>2, <1>3 DEF Fail, Kept, Confirmed, Accounted, TypeOK, Over
  <1>9. CallOK(call[c])'
    BY <1>1, <1>2, <1>8 DEF CallOK, Busy, AtRow, TypeOK, Kept, Over
  <1>10. CallsOK'
    BY <1>1, <1>2, <1>8, <1>9, OthersOK DEF TypeOK
  <1>11. HeldJobs'
    <2>1. CASE c \in Workers
      BY <1>1, <1>2, <1>5, <1>8, <2>1, JobsStay DEF Kinds
    <2>2. CASE c \notin Workers
      BY <1>2, <1>6, <2>2, HeldStays DEF HeldJobs, TypeOK, Procs
    <2> QED
      BY <2>1, <2>2
  <1>12. QueuedConfirmed'
    <2>1. \A p \in Charges : jobs'[<<p, "paid">>] > 0 => jobs[<<p, "paid">>] > 0
      BY <1>4, <1>5, <1>6, SettlementAssumption DEF TypeOK, n, HeldJobs, Fail
    <2> QED
      BY <1>8, <2>1 DEF Kept, QueuedConfirmed
  <1>13. AbsentUnknown' /\ PaidAccounted'
    BY <1>8 DEF Fail, Kept, AbsentUnknown, PaidAccounted
  <1>14. PaidIsConfirmed' /\ ToldAfterGrant'
    BY DEF Fail, PaidIsConfirmed, Confirmed, ToldAfterGrant
  <1> QED
    BY <1>7, <1>10, <1>11, <1>12, <1>13, <1>14

-----------------------------------------------------------------------------
(* The jobs that go through lists of charges, and the world outside.       *)

\* Nothing of a process is at stake as long as it is in no handler.
LEMMA ListsOK ==
  ASSUME IInv, NEW c \in Procs, call[c].kind = "none", call[c].pc \notin Busy,
         NEW k, Over(k), call' = [call EXCEPT ![c] = k], RowsKept,
         UNCHANGED <<origin, remote, jobs, payments, invoice, licence, told, cut>>
  PROVE  /\ call' \in [Procs -> Call]
         /\ Kept /\ CallsOK' /\ HeldJobs'
         /\ QueuedConfirmed' /\ PaidIsConfirmed' /\ ToldAfterGrant'
  <1> USE DEF IInv, livepix
  <1>1. call' \in [Procs -> Call]
    BY DEF TypeOK, Over
  <1>2. Kept
    BY DEF Kept, Confirmed, RowsKept, Accounted, TypeOK, Over, Busy
  <1>3. CallOK(call[c])'
    BY DEF CallOK, Busy, AtRow, TypeOK, Over
  <1>4. CallsOK'
    BY <1>2, <1>3, OthersOK DEF TypeOK
  <1>5. HeldJobs'
    BY HeldStays DEF HeldJobs, TypeOK, Procs, Over
  <1>6. QueuedConfirmed' /\ PaidIsConfirmed' /\ ToldAfterGrant'
    BY <1>2, ConfirmedStays DEF Kept, QueuedConfirmed, ToldAfterGrant
  <1> QED
    BY <1>1, <1>2, <1>4, <1>5, <1>6

LEMMA SyncListOK ==
  ASSUME IInv, NEW s \in Syncs, NEW P \in SUBSET Charges, SyncList(s, P)
  PROVE  IInv'
  <1> USE DEF IInv, livepix
  <1> DEFINE k == [Idle EXCEPT !.pc = IF GatewayOf[s] = "livepix" THEN "ask" ELSE "pick",
                               !.todo = P]
  <1>2. Over(k)
    BY DEF Over, Idle, Call, NoId, Statuses
  <1>3. s \in Procs /\ call[s].kind = "none" /\ call[s].pc \notin Busy
    BY DEF Procs, SyncList, Idle, Busy
  <1>4. call' = [call EXCEPT ![s] = k]
    BY DEF SyncList
  <1> HIDE DEF k
  <1>5. /\ call' \in [Procs -> Call]
        /\ Kept /\ CallsOK' /\ HeldJobs'
        /\ QueuedConfirmed' /\ PaidIsConfirmed' /\ ToldAfterGrant'
    BY <1>2, <1>3, <1>4, ListsOK DEF SyncList, RowsKept
  <1> QED
    BY <1>5 DEF SyncList, TypeOK, Kept, AbsentUnknown, PaidAccounted

\* LivePix's answer, or its failure, only changes the list.
LEMMA ReceivedOK ==
  ASSUME IInv, NEW s \in Syncs, Received(s) \/ NotReceived(s)
  PROVE  IInv'
  <1> USE DEF IInv, livepix
  <1>1. s \in Procs /\ call[s] \in Call /\ call[s].pc = "ask" /\ call[s].kind = "none"
    BY DEF Procs, Received, NotReceived, TypeOK, CallsOK, CallOK, Busy
  <1> DEFINE l == [call[s] EXCEPT !.pc = "pick",
                     !.todo = {p \in @ : remote[p] = "approved" /\ p \notin crowded}]
  <1>2. Over(l) /\ Over(Idle)
    BY <1>1 DEF Over, Call, Idle, NoId, Statuses
  <1>3. PICK k : Over(k) /\ call' = [call EXCEPT ![s] = k]
    <2>1. CASE Received(s)
      <3>1. call' = [call EXCEPT ![s] = l]
        BY <2>1 DEF Received
      <3> HIDE DEF l
      <3> QED
        BY <1>2, <3>1
    <2>2. CASE NotReceived(s)
      BY <1>2, <2>2 DEF NotReceived
    <2> QED
      BY <2>1, <2>2
  <1> HIDE DEF l
  <1>4. RowsKept
    BY DEF Received, NotReceived, RowsKept
  <1>5. /\ call' \in [Procs -> Call]
        /\ Kept /\ CallsOK' /\ HeldJobs'
        /\ QueuedConfirmed' /\ PaidIsConfirmed' /\ ToldAfterGrant'
    BY <1>1, <1>3, <1>4, ListsOK DEF Received, NotReceived, Busy
  <1>6. failures' \in Nat
    BY DEF Received, NotReceived, TypeOK
  <1> QED
    BY <1>5, <1>6 DEF Received, NotReceived, TypeOK, Kept, AbsentUnknown, PaidAccounted

\* The sync turns to markPaid only for what its gateway confirmed.
LEMMA SyncPickOK ==
  ASSUME IInv, NEW s \in Syncs, SyncPick(s)
  PROVE  IInv'
  <1> USE DEF IInv, livepix
  <1>1. s \in Procs /\ call[s] \in Call /\ call[s].pc = "pick" /\ call[s].kind = "none"
    BY DEF Procs, SyncPick, TypeOK, CallsOK, CallOK, Busy
  <1>2. PICK p \in call[s].todo :
          LET kind == SyncKind(charge[p].means, remote[p]) IN
          call' = [call EXCEPT ![s] =
                     IF kind = "none"
                     THEN [Idle EXCEPT !.pc = "pick", !.todo = call[s].todo \ {p}]
                     ELSE [Idle EXCEPT !.pc = "find", !.todo = call[s].todo \ {p},
                                       !.kind = kind, !.pay = p]]
    BY DEF SyncPick
  <1> DEFINE kind == SyncKind(charge[p].means, remote[p])
  <1>3. call' = [call EXCEPT ![s] =
                   IF kind = "none"
                   THEN [Idle EXCEPT !.pc = "pick", !.todo = call[s].todo \ {p}]
                   ELSE [Idle EXCEPT !.pc = "find", !.todo = call[s].todo \ {p},
                                     !.kind = kind, !.pay = p]]
    BY <1>2
  <1>4. p \in Charges /\ call[s].todo \ {p} \in SUBSET Charges
    BY <1>1, <1>2 DEF Call
  <1>5. kind \in {"none", "paid", "failed"} /\ (kind = "paid" => Confirmed(p))
    BY DEF SyncKind, Confirmed
  <1> HIDE DEF kind
  <1>6. CASE kind = "none"
    <2> DEFINE k == [Idle EXCEPT !.pc = "pick", !.todo = call[s].todo \ {p}]
    <2>1. Over(k)
      BY <1>4 DEF Over, Idle, Call, NoId, Statuses
    <2>2. call' = [call EXCEPT ![s] = k]
      BY <1>3, <1>6
    <2> HIDE DEF k
    <2>3. /\ call' \in [Procs -> Call]
          /\ Kept /\ CallsOK' /\ HeldJobs'
          /\ QueuedConfirmed' /\ PaidIsConfirmed' /\ ToldAfterGrant'
      BY <1>1, <2>1, <2>2, ListsOK DEF SyncPick, Busy, RowsKept
    <2> QED
      BY <2>3 DEF SyncPick, TypeOK, Kept, AbsentUnknown, PaidAccounted
  <1>7. CASE kind # "none"
    <2> DEFINE k == [Idle EXCEPT !.pc = "find", !.todo = call[s].todo \ {p},
                                 !.kind = kind, !.pay = p]
    <2>1. /\ k \in Call /\ k.pc = "find" /\ k.pay = p
          /\ k.kind = kind /\ k.kind # "none"
      BY <1>4, <1>5, <1>7 DEF Idle, Call, Kinds, NoId, Statuses
    <2>2. call' = [call EXCEPT ![s] = k]
      BY <1>3, <1>7
    <2> HIDE DEF k
    <2>3. TypeOK'
      BY <1>1, <2>1, <2>2 DEF SyncPick, TypeOK
    <2>4. Kept
      BY <1>1, <2>1, <2>2 DEF SyncPick, Kept, Confirmed, Accounted, TypeOK
    <2>5. CallOK(call[s])'
      BY <1>1, <1>4, <1>5, <2>1, <2>2, <2>4
         DEF CallOK, Busy, AtRow, TypeOK, Kept, SyncPick
    <2>6. CallsOK'
      BY <1>1, <2>2, <2>4, <2>5, OthersOK DEF TypeOK
    <2>7. HeldJobs'
      BY <1>1, <2>2, HeldStays, SettlementAssumption DEF HeldJobs, SyncPick, TypeOK, Procs
    <2>8. QueuedConfirmed' /\ AbsentUnknown' /\ PaidAccounted'
      BY <2>4 DEF SyncPick, Kept, QueuedConfirmed, AbsentUnknown, PaidAccounted
    <2>9. PaidIsConfirmed' /\ ToldAfterGrant'
      BY DEF SyncPick, PaidIsConfirmed, Confirmed, ToldAfterGrant
    <2> QED
      BY <2>3, <2>6, <2>7, <2>8, <2>9
  <1> QED
    BY <1>6, <1>7

LEMMA ListDoneOK ==
  ASSUME IInv, NEW c \in Procs, ListDone(c)
  PROVE  IInv'
  <1> USE DEF IInv, livepix
  <1>1. Over(Idle)
    BY DEF Over, Idle, Call, NoId, Statuses
  <1>2. call[c].kind = "none" /\ call[c].pc \notin Busy
    BY DEF ListDone, CallsOK, CallOK, Busy
  <1>3. /\ call' \in [Procs -> Call]
        /\ Kept /\ CallsOK' /\ HeldJobs'
        /\ QueuedConfirmed' /\ PaidIsConfirmed' /\ ToldAfterGrant'
    BY <1>1, <1>2, ListsOK DEF ListDone, RowsKept
  <1> QED
    BY <1>3 DEF ListDone, TypeOK, Kept, AbsentUnknown, PaidAccounted

LEMMA RetryListOK ==
  ASSUME IInv, NEW k \in Crons, NEW R \in SUBSET Charges, RetryList(k, R)
  PROVE  IInv'
  <1> USE DEF IInv, livepix
  <1> DEFINE l == [Idle EXCEPT !.pc = "pick", !.todo = R]
  <1>1. Over(l)
    BY DEF Over, Idle, Call, NoId, Statuses
  <1>2. k \in Procs /\ call[k].kind = "none" /\ call[k].pc \notin Busy
    BY DEF Procs, RetryList, Idle, Busy
  <1>3. call' = [call EXCEPT ![k] = l]
    BY DEF RetryList
  <1> HIDE DEF l
  <1>4. /\ call' \in [Procs -> Call]
        /\ Kept /\ CallsOK' /\ HeldJobs'
        /\ QueuedConfirmed' /\ PaidIsConfirmed' /\ ToldAfterGrant'
    BY <1>1, <1>2, <1>3, ListsOK DEF RetryList, RowsKept
  <1> QED
    BY <1>4 DEF RetryList, TypeOK, Kept, AbsentUnknown, PaidAccounted

\* The blind UPDATE of the retry job makes a charge pending, which asks nothing
\* of the payments table.
LEMMA RetryOneOK ==
  ASSUME IInv, NEW k \in Crons, RetryOne(k)
  PROVE  IInv'
  <1> USE DEF IInv, livepix
  <1>1. k \in Procs /\ call[k] \in Call /\ call[k].kind = "none" /\ call[k].pc = "pick"
    BY DEF Procs, RetryOne, TypeOK, CallsOK, CallOK, Busy
  <1>2. PICK r \in call[k].todo :
          /\ charge' = [charge EXCEPT ![r].status = "pending", ![r].retry = FALSE]
          /\ call' = [call EXCEPT ![k].todo = @ \ {r}]
    BY DEF RetryOne
  <1> DEFINE l == [call[k] EXCEPT !.todo = call[k].todo \ {r}]
             row == [charge[r] EXCEPT !.status = "pending", !.retry = FALSE]
  <1>3. Over(l)
    BY <1>1 DEF Over, Call
  <1>4. call' = [call EXCEPT ![k] = l]
    BY <1>2
  <1>5. r \in Charges /\ row \in Charge /\ row.status = "pending"
    <2>1. r \in Charges /\ charge[r] \in Charge
      BY <1>1, <1>2 DEF Call, TypeOK
    <2> QED
      BY <2>1 DEF Charge, Statuses
  <1>6. charge' = [charge EXCEPT ![r] = row]
    BY <1>2
  <1> HIDE DEF l, row
  <1>7. RowsKept
    BY <1>2, <1>5 DEF RowsKept, TypeOK, Charge
  <1>8. /\ call' \in [Procs -> Call]
        /\ Kept /\ CallsOK' /\ HeldJobs'
        /\ QueuedConfirmed' /\ PaidIsConfirmed' /\ ToldAfterGrant'
    BY <1>1, <1>3, <1>4, <1>7, ListsOK DEF RetryOne, Busy
  <1>9. TypeOK'
    BY <1>5, <1>6, <1>8 DEF RetryOne, TypeOK
  <1>10. AbsentUnknown' /\ PaidAccounted'
    BY <1>5, <1>6, <1>8 DEF RetryOne, TypeOK, Kept, AbsentUnknown, PaidAccounted
  <1> QED
    BY <1>8, <1>9, <1>10

\* A step of no process, which keeps what the processes rely on.
LEMMA OutsideOK ==
  ASSUME IInv, Kept, UNCHANGED <<licence, call>>,
         \A w \in Workers : call[w].kind # "none" =>
           jobs'[<<call[w].pay, call[w].kind>>] > 0
  PROVE  CallsOK' /\ HeldJobs'
  <1> USE DEF IInv, livepix
  <1>1. CallsOK'
    <2> SUFFICES ASSUME NEW d \in Procs PROVE CallOK(call[d])'
      BY DEF CallsOK
    <2>1. CallOK(call[d]) /\ call'[d] = call[d]
      BY DEF CallsOK
    <2> QED
      BY <2>1 DEF CallOK, Kept, AtRow, Busy
  <1>2. HeldJobs'
    BY HeldStays
  <1> QED
    BY <1>1, <1>2

LEMMA PixExpiryOK ==
  ASSUME IInv, NEW R \in SUBSET Charges, PixExpiry(R)
  PROVE  IInv'
  <1> USE DEF IInv, livepix
  <1>1. \A r \in Charges :
          /\ charge'[r] \in Charge
          /\ charge'[r].status = charge[r].status \/ charge'[r].status = "canceled"
          /\ charge'[r].means = charge[r].means /\ charge'[r].ext = charge[r].ext
    BY DEF PixExpiry, TypeOK, Charge, Statuses
  <1>2. TypeOK'
    BY <1>1 DEF PixExpiry, TypeOK
  <1>3. Kept
    BY <1>1 DEF PixExpiry, Kept, Confirmed, Accounted
  <1>4. CallsOK' /\ HeldJobs'
    BY <1>3, OutsideOK DEF PixExpiry, HeldJobs
  <1>5. AbsentUnknown' /\ PaidAccounted'
    BY <1>1, <1>3 DEF PixExpiry, Kept, AbsentUnknown, PaidAccounted
  <1>6. QueuedConfirmed' /\ PaidIsConfirmed' /\ ToldAfterGrant'
    BY <1>1, <1>3, ConfirmedStays DEF PixExpiry, QueuedConfirmed, Kept, RowsKept, ToldAfterGrant
  <1> QED
    BY <1>2, <1>4, <1>5, <1>6

LEMMA CheckoutOK ==
  ASSUME IInv, NEW r \in Charges, NEW means \in Means, Checkout(r, means)
  PROVE  IInv'
  <1> USE DEF IInv, livepix
  <1> DEFINE row == NewRow(r, means)
  <1>1. row \in Charge /\ row.status = "pending"
    BY SettlementAssumption DEF NewRow, Charge, Statuses, Means
  <1>2. charge' = [charge EXCEPT ![r] = row] /\ remote' = [remote EXCEPT ![r] = "pending"]
    BY DEF Checkout
  <1>3. remote[r] = "none"
    BY DEF Checkout, AbsentUnknown
  <1> HIDE DEF row
  <1>4. TypeOK'
    BY <1>1, <1>2 DEF Checkout, TypeOK
  <1>5. Kept
    BY <1>2, <1>3 DEF Checkout, Kept, Confirmed, Accounted, TypeOK
  <1>6. CallsOK' /\ HeldJobs'
    BY <1>5, OutsideOK DEF Checkout, HeldJobs
  <1>7. AbsentUnknown' /\ PaidAccounted' /\ QueuedConfirmed'
    BY <1>1, <1>2, <1>5 DEF Checkout, Kept, AbsentUnknown, PaidAccounted, QueuedConfirmed, TypeOK
  <1>8. PaidIsConfirmed' /\ ToldAfterGrant'
    <2>1. ASSUME NEW q \in Charges, charge'[q].status = "paid"
          PROVE  charge'[q].ext \in Charges /\ Confirmed(charge[q].ext)'
      <3>1. q # r
        BY <1>1, <1>2, <2>1 DEF TypeOK
      <3>2. /\ charge[q].ext \in Charges /\ Confirmed(charge[q].ext)
            /\ charge'[q] = charge[q]
        BY <1>2, <2>1, <3>1 DEF PaidIsConfirmed, TypeOK
      <3> QED
        BY <1>5, <3>2 DEF Kept, Confirmed
    <2> QED
      BY <1>5, <2>1 DEF Checkout, Kept, PaidIsConfirmed, ToldAfterGrant
  <1> QED
    BY <1>4, <1>6, <1>7, <1>8

LEMMA GatewayOK ==
  ASSUME IInv, NEW p \in Charges, Gateway(p)
  PROVE  IInv'
  <1> USE DEF IInv, livepix
  <1>1. PICK from, to, kinds :
          /\ Decides(p, from, to, kinds)
          /\ kinds \subseteq Kinds
          /\ \/ from = "pending" /\ to = "approved" /\ kinds = {"paid"}
             \/ from = "pending" /\ to = "declined" /\ "paid" \notin kinds
             \/ from = "approved" /\ to = "chargedback" /\ "paid" \notin kinds
             \/ /\ charge[p].means = "session"
                /\ \/ from = "pending" /\ to = "completed" /\ kinds = {"paid"}
                   \/ from = "completed" /\ to \in {"approved", "lapsed"} /\ kinds = {}
    <2>1. CASE Decides(p, "pending", "approved", {"paid"})
      BY <2>1 DEF Kinds
    <2>2. CASE Decides(p, "pending", "declined",
                       IF charge[p].means = "asaas" THEN {"failed", "expired"} ELSE {"failed"})
      BY <2>2 DEF Kinds
    <2>3. CASE Decides(p, "approved", "chargedback",
                       CASE charge[p].means = "asaas" -> {"chargeback"}
                         [] charge[p].means = "session" -> {}
                         [] OTHER -> {"failed"})
      BY <2>3 DEF Kinds
    <2>4. CASE /\ charge[p].means = "session"
               /\ \/ Decides(p, "pending", "completed", {"paid"})
                  \/ Decides(p, "completed", "approved", {})
                  \/ Decides(p, "completed", "lapsed", {})
      BY <2>4 DEF Kinds
    <2> QED
      BY <2>1, <2>2, <2>3, <2>4 DEF Gateway
  <1>2. remote' = [remote EXCEPT ![p] = to] /\ remote[p] = from /\ charge' = charge
    BY <1>1 DEF Decides
  <1>3. PICK kind \in Kinds :
          /\ jobs' = jobs \/ (kind \in kinds /\ jobs' = [jobs EXCEPT ![<<p, kind>>] = Attempts])
          /\ kind = "paid" /\ jobs' # jobs => to \in {"approved", "completed"}
    BY <1>1 DEF Decides, Kinds
  <1>4. /\ Attempts \in 0 .. Attempts /\ Attempts > 0
        /\ \A j \in Charges \X Kinds :
             jobs'[j] = jobs[j] \/ (j = <<p, kind>> /\ jobs'[j] = Attempts)
    <2>1. Attempts \in 0 .. Attempts /\ Attempts > 0
      BY SettlementAssumption
    <2> QED
      BY <1>3, <2>1 DEF TypeOK
  <1>5. TypeOK'
    <2>1. to \in {"none", "pending", "completed", "approved", "lapsed", "declined", "chargedback"}
      BY <1>1
    <2>2. jobs' \in [Charges \X Kinds -> 0 .. Attempts]
      BY <1>3, <1>4 DEF TypeOK
    <2> QED
      BY <1>1, <1>2, <2>1, <2>2 DEF Decides, TypeOK
  <1>6. Kept
    <2>1. \A q \in Charges : Confirmed(q) => Confirmed(q)'
      BY <1>1, <1>2 DEF Confirmed, TypeOK
    <2> QED
      BY <1>1, <2>1 DEF Decides, Kept, Accounted
  <1>7. CallsOK' /\ HeldJobs'
    <2>1. ASSUME NEW w \in Workers, call[w].kind # "none"
          PROVE  jobs'[<<call[w].pay, call[w].kind>>] > 0
      <3>1. <<call[w].pay, call[w].kind>> \in Charges \X Kinds
        BY <2>1 DEF CallsOK, CallOK, Procs, TypeOK, Call
      <3>2. jobs[<<call[w].pay, call[w].kind>>] > 0
        BY <2>1 DEF HeldJobs
      <3> QED
        BY <1>4, <3>1, <3>2
    <2> QED
      BY <1>1, <1>6, <2>1, OutsideOK DEF Decides
  <1>8. AbsentUnknown' /\ PaidAccounted'
    BY <1>1, <1>2, <1>6 DEF Decides, Kept, AbsentUnknown, PaidAccounted, TypeOK
  <1>9. QueuedConfirmed'
    <2> SUFFICES ASSUME NEW q \in Charges, jobs'[<<q, "paid">>] > 0 PROVE Confirmed(q)'
      BY DEF QueuedConfirmed
    <2>1. <<q, "paid">> \in Charges \X Kinds
      BY DEF Kinds
    <2>2. CASE <<q, "paid">> = <<p, kind>> /\ jobs' # jobs
      <3>1. to = "approved" \/ (to = "completed" /\ charge[p].means = "session")
        BY <1>1, <1>3, <2>2
      <3> QED
        BY <1>2, <2>2, <3>1 DEF Confirmed, TypeOK
    <2>3. CASE <<q, "paid">> # <<p, kind>> \/ jobs' = jobs
      BY <1>4, <1>6, <2>1, <2>3 DEF QueuedConfirmed, Kept
    <2> QED
      BY <2>2, <2>3
  <1>10. PaidIsConfirmed' /\ ToldAfterGrant'
    BY <1>1, <1>6, ConfirmedStays DEF Decides, RowsKept, ToldAfterGrant
  <1> QED
    BY <1>5, <1>7, <1>8, <1>9, <1>10

-----------------------------------------------------------------------------

\* What LivePix's job looks at concerns the other processes in nothing.
LEMMA LivePixOK ==
  ASSUME IInv, Limit \/ \E r \in Charges : Age(r) \/ Crowd(r)
  PROVE  IInv'
  <1> USE DEF IInv
  <1>1. /\ UNCHANGED <<origin, remote, jobs, charge, payments, invoice, licence, told, call,
                       cut, failures>>
        /\ limited' \in BOOLEAN /\ aged' \subseteq Charges /\ crowded' \subseteq Charges
    BY DEF Limit, Age, Crowd, TypeOK
  <1>2. Kept
    BY <1>1 DEF Kept, Confirmed, Accounted
  <1>3. CallsOK' /\ HeldJobs'
    BY <1>1, <1>2, OutsideOK DEF HeldJobs
  <1>4. PaidIsConfirmed'
    BY <1>1, <1>2, ConfirmedStays DEF RowsKept
  <1> QED
    BY <1>1, <1>2, <1>3, <1>4
       DEF TypeOK, Kept, QueuedConfirmed, AbsentUnknown, PaidAccounted, ToldAfterGrant

LEMMA NextIInv == IInv /\ [Next]_vars => IInv'
  <1> SUFFICES ASSUME IInv, [Next]_vars PROVE IInv'
    OBVIOUS
  <1>1. CASE \E r \in Charges, means \in Means : Checkout(r, means)
    BY <1>1, CheckoutOK
  <1>2. CASE \E p \in Charges : Gateway(p)
    BY <1>2, GatewayOK
  <1>3. CASE \E c \in Workers \cup Syncs : Step(c)
    BY <1>3, FindOK, UpdateChargeOK, CreatePaymentOK, UpdateInvoiceOK, GrantOK,
       SuspendOK, NotifyOK DEF Step
  <1>4. CASE \E w \in Workers : Done(w) \/ \E p \in Charges, kind \in Kinds : Take(w, p, kind)
    BY <1>4, DoneOK, TakeOK
  <1>5. CASE \E s \in Syncs : \/ \E P \in SUBSET Charges : SyncList(s, P)
                             \/ Received(s) \/ NotReceived(s) \/ SyncPick(s)
    BY <1>5, SyncListOK, ReceivedOK, SyncPickOK
  <1>6. CASE \E c \in Procs : ListDone(c)
    BY <1>6, ListDoneOK
  <1>7. CASE \E k \in Crons : RetryOne(k) \/ \E R \in SUBSET Charges : RetryList(k, R)
    BY <1>7, RetryOneOK, RetryListOK
  <1>8. CASE \E R \in SUBSET Charges : PixExpiry(R)
    BY <1>8, PixExpiryOK
  <1>9. CASE \E c \in Procs : Fail(c)
    BY <1>9, FailOK
  <1>10. CASE Limit \/ \E p \in Charges : Age(p) \/ Crowd(p)
    BY <1>10, LivePixOK
  <1>11. CASE UNCHANGED vars
    <2>1. Kept
      BY <1>11 DEF vars, Kept, Confirmed, Accounted
    <2>2. CallsOK' /\ HeldJobs'
      BY <1>11, <2>1, OutsideOK DEF vars, IInv, HeldJobs
    <2> QED
      BY <1>11, <2>1, <2>2
         DEF vars, IInv, TypeOK, Kept, QueuedConfirmed, AbsentUnknown, PaidAccounted,
             PaidIsConfirmed, ToldAfterGrant
  <1> QED
    BY <1>1, <1>2, <1>3, <1>4, <1>5, <1>6, <1>7, <1>8, <1>9, <1>10, <1>11 DEF Next, Work, Sync, Procs

THEOREM SpecIInv == Spec => []IInv
  BY InitIInv, NextIInv, PTL DEF Spec

\* The tables and the calls hold what their types say, in every reachable state.
THEOREM SpecTypeOK == Spec => []TypeOK
  BY SpecIInv, PTL DEF IInv

\* A charge shown as paid is linked to a payment that its gateway approved, or to a
\* session of Stripe's that was completed, and behind a licence there is one,
\* however many charges, webhooks, jobs, retries and failures there are.
THEOREM SpecPaidIsConfirmed == Spec => []PaidIsConfirmed
  BY SpecIInv, PTL DEF IInv

\* A paid charge without a payment row has a handler about to insert it, or lost
\* that handler at that very step.
THEOREM SpecPaymentRecorded == Spec => []PaymentRecorded
  <1>1. IInv => PaymentRecorded
    BY DEF IInv, TypeOK, PaidAccounted, Accounted, PaymentRecorded
  <1> QED
    BY <1>1, SpecIInv, PTL

\* A satellite is told of an approved payment only when there is a licence.
THEOREM SpecToldAfterGrant == Spec => []ToldAfterGrant
  BY SpecIInv, PTL DEF IInv
=============================================================================
