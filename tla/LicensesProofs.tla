--------------------------- MODULE LicensesProofs ---------------------------
(***************************************************************************)
(* Proofs about Licenses, for any number of rows, pairs, callers and       *)
(* sweepers and for every grace period and duration of a run.              *)
(***************************************************************************)
EXTENDS Licenses, TLAPS

\* What a call relies on between two of its steps, whatever the others do.
CallOK(k) ==
  /\ CountedFrom(k.par.expires, k.par.grace)
  /\ k.pc = "insert" => lic[k.id].status = "absent" /\ k.par.expires # Keep
  /\ k.pc \in {"read", "write"} => lic[k.id].status # "absent"
  /\ \A i \in k.todo : lic[i].status # "absent"
  /\ k.op = "expireTrial" => lic[k.id].origin = "trial"
  /\ k.job = "hourlyTrials" => \A i \in k.todo : lic[i].origin = "trial"
  /\ k.pc = "write" /\ k.op = "suspend" =>
       k.seen.grace = NoDate \/ k.seen.grace <= now

CallsOK == \A c \in Procs : CallOK(call[c])

\* Two INSERTs in flight are for two rows: each gets a uuid of its own.
InsertsApart ==
  \A c, d \in Procs :
    call[c].pc = "insert" /\ call[d].pc = "insert" /\ call[c].id = call[d].id
      => c = d

\* A row that was never inserted has the value it will be given on insertion
\* still to come: nothing writes to it before.
AbsentIsBlank == \A i \in Ids : lic[i].status = "absent" => lic[i] = NoRow

IInv ==
  /\ TypeOK
  /\ OneLiveLicence
  /\ ColumnsAgree
  /\ OnlyTrialsExpire
  /\ AbsentIsBlank
  /\ InsertsApart
  /\ CallsOK

-----------------------------------------------------------------------------
(* The operators the actions are built from.                               *)

\* An idle call is well formed, whatever row it happens to name.
LEMMA IdleOK ==
  /\ Idle \in Call
  /\ Idle.pc = "idle" /\ Idle.op = "none" /\ Idle.job = "none" /\ Idle.todo = {}
  /\ CallOK(Idle)
  BY LicensesAssumption
     DEF Idle, Call, NoParam, NoRow, Params, Row, Ops, Jobs, Origins, Statuses,
         LiveStatuses, Dates, NoDate, Keep, CallOK, CountedFrom

\* Going back to the caller or to the list of a sweep keeps a call well formed.
LEMMA ReturnedOK ==
  ASSUME NEW k \in Call, TypeOK, CallOK(k)
  PROVE  /\ Returned(k) \in Call
         /\ CallOK(Returned(k))
         /\ Returned(k).pc # "insert"
  <1> DEFINE p == IF k.job = "none" THEN "idle" ELSE "pick"
  <1>1. Returned(k) = [Idle EXCEPT !.pc = p, !.job = k.job, !.todo = k.todo]
    BY DEF Returned
  <1>2. p \in {"idle", "pick"}
    OBVIOUS
  <1> HIDE DEF p
  <1>3. Returned(k) \in Call
    BY <1>1, <1>2, IdleOK DEF Call
  <1>4. /\ Returned(k).pc = p
        /\ Returned(k).op = "none"
        /\ Returned(k).par = Idle.par
        /\ Returned(k).job = k.job
        /\ Returned(k).todo = k.todo
    BY <1>1, IdleOK DEF Call
  <1> QED
    BY <1>2, <1>3, <1>4, IdleOK DEF CallOK

\* findById leaves a call well formed, and suspend goes on only when the grace
\* period it read is over.
LEMMA LoadedOK ==
  ASSUME NEW k \in Call, TypeOK, CallOK(k), lic[k.id].status # "absent"
  PROVE  /\ Loaded(k) \in Call
         /\ CallOK(Loaded(k))
         /\ Loaded(k).pc # "insert"
  <1>1. CASE Skips(k.op, lic[k.id])
    BY <1>1, ReturnedOK DEF Loaded
  <1>2. CASE ~ Skips(k.op, lic[k.id])
    <2> DEFINE s == IF k.op = "suspend" \/ (k.op = "renew" /\ k.par.expires = Keep)
                    THEN lic[k.id] ELSE NoRow
    <2>1. lic[k.id] \in Row /\ NoRow \in Row
      BY DEF TypeOK, Call, NoRow, Row, Origins, Statuses, LiveStatuses, Dates, NoDate
    <2>2. Loaded(k) = [k EXCEPT !.pc = "write", !.seen = s]
      BY <1>2 DEF Loaded
    <2>3. s \in Row
      BY <2>1
    <2>4. Loaded(k) \in Call
      BY <2>2, <2>3 DEF Call
    <2>5. k.op = "suspend" => s.grace = NoDate \/ s.grace <= now
      BY <1>2, <2>1 DEF Skips, Row, Dates, NoDate, TypeOK
    <2>6. CallOK(Loaded(k))
      BY <2>2, <2>5 DEF CallOK, Call
    <2> QED
      BY <2>2, <2>4, <2>6 DEF Call
  <1> QED
    BY <1>1, <1>2

\* An update of a row that exists keeps its origin, gives it a status it can
\* have, and keeps its columns in agreement.
LEMMA UpdatedOK ==
  ASSUME NEW k \in Call, NEW row \in Row,
         CountedFrom(k.par.expires, k.par.grace)
  PROVE  LET r == Updated(k, row) IN
         /\ r \in Row
         /\ r.origin = row.origin
         /\ row.status # "absent" => r.status # "absent"
         /\ r.status = "expired" => row.status = "expired" \/ k.op = "expireTrial"
         /\ \/ r.grace = row.grace /\ r.expires = row.expires
            \/ CountedFrom(r.expires, r.grace)
         /\ \/ r.status = row.status /\ r.suspendedAt = row.suspendedAt
            \/ r.status = "active" /\ ~ r.suspendedAt
            \/ r.status = "suspended" /\ r.suspendedAt
            \/ r.status \in {"expired", "revoked"}
  <1> USE DEF Row, Statuses, LiveStatuses, Dates, NoDate
  <1>1. CASE k.op = "renew"
    <2> DEFINE e == IF k.par.expires = Keep THEN k.seen.expires ELSE k.par.expires
    <2>1. Updated(k, row) = [row EXCEPT !.status = "active", !.suspendedAt = FALSE,
                                        !.expires = e, !.grace = k.par.grace]
      BY <1>1 DEF Updated, Expiry
    <2>2. e \in Dates /\ k.par.grace \in Dates
      BY DEF Call, Params
    <2>3. CountedFrom(e, k.par.grace)
      BY DEF CountedFrom, Keep
    <2> HIDE DEF e
    <2> QED
      BY <2>1, <2>2, <2>3
  <1>2. CASE k.op = "suspend"
    <2>1. Updated(k, row) = [row EXCEPT !.status = "suspended", !.suspendedAt = TRUE]
      BY <1>2 DEF Updated
    <2> QED
      BY <2>1
  <1>3. CASE k.op = "expireTrial"
    <2>1. Updated(k, row) = [row EXCEPT !.status = "expired", !.suspendedAt = TRUE]
      BY <1>3 DEF Updated
    <2> QED
      BY <2>1, <1>3
  <1>4. CASE k.op = "reactivate"
    <2>1. Updated(k, row) = [row EXCEPT !.status = "active", !.suspendedAt = FALSE]
      BY <1>4 DEF Updated
    <2> QED
      BY <2>1
  <1>5. CASE k.op = "revoke"
    <2>1. Updated(k, row) = [row EXCEPT !.status = "revoked"]
      BY <1>5 DEF Updated
    <2> QED
      BY <2>1
  <1>6. CASE k.op \in {"none", "emit"}
    <2>1. Updated(k, row) = row
      BY <1>6 DEF Updated
    <2> QED
      BY <2>1
  <1> QED
    BY <1>1, <1>2, <1>3, <1>4, <1>5, <1>6 DEF Call, Ops

\* What the callers of emit ask for is well formed: a grace period is counted
\* from the expiry.
LEMMA OffersOK ==
  ASSUME TypeOK, NEW o \in Offers
  PROVE  /\ o \in Params
         /\ o.expires # Keep
         /\ CountedFrom(o.expires, o.grace)
  <1> DEFINE dated == {now + t : t \in Terms}
  <1>1. dated \subseteq Nat /\ dated \subseteq Dates /\ NoDate \in Dates
    BY LicensesAssumption DEF TypeOK, Dates
  <1>2. /\ {"subscription", "order", "manual", "trial"} \subseteq Origins
        /\ DefaultGrace \in Nat /\ DefaultGrace \in GraceDays /\ 0 \in GraceDays
        /\ ManualGrace \subseteq GraceDays /\ GraceDays \subseteq Int
    BY LicensesAssumption DEF Origins, GraceDays
  <1>3. ASSUME NEW origin \in Origins, NEW e \in Dates, NEW g \in GraceDays,
               e = NoDate \/ e + g \in Nat
        PROVE  LET a == Asked(origin, e, g) IN
               a \in Params /\ a.expires # Keep /\ CountedFrom(a.expires, a.grace)
    <2>1. CASE e = NoDate
      BY <2>1 DEF Asked, Params, Dates, NoDate, Keep, CountedFrom
    <2>2. CASE e \in Nat
      <3>1. e + g \in Nat /\ (e + g) - e = g
        BY <1>2, <1>3, <2>2 DEF NoDate
      <3>2. Asked(origin, e, g) = [origin |-> origin, expires |-> e, grace |-> e + g]
        BY <2>2 DEF Asked, NoDate, Keep
      <3> QED
        BY <2>2, <3>1, <3>2 DEF Params, Dates, Keep, CountedFrom
    <2> QED
      BY <2>1, <2>2 DEF Dates
  <1>4. CASE o \in ManualOffers
    <2> DEFINE chosen == {now + t : t \in ManualTerms} \cap Nat
    <2>1. \/ o = Asked("manual", NoDate, 0)
          \/ \E e \in chosen : \E g \in {d \in {0} \cup ManualGrace : e + d \in Nat} :
                o = Asked("manual", e, g)
      BY <1>4 DEF ManualOffers
    <2>2. chosen \subseteq Dates
      BY DEF Dates
    <2> HIDE DEF chosen
    <2>3. CASE o = Asked("manual", NoDate, 0)
      BY <1>1, <1>2, <1>3, <2>3
    <2>4. CASE \E e \in chosen : \E g \in {d \in {0} \cup ManualGrace : e + d \in Nat} :
                 o = Asked("manual", e, g)
      BY <1>2, <1>3, <2>2, <2>4
    <2> QED
      BY <2>1, <2>3, <2>4
  <1>5. CASE o \notin ManualOffers
    <2>1. \/ \E e \in dated : o = Asked("subscription", e, DefaultGrace)
          \/ \E e \in dated \cup {NoDate} : o = Asked("order", e, DefaultGrace)
          \/ \E e \in dated, g \in {0, DefaultGrace} : o = Asked("trial", e, g)
      BY <1>5 DEF Offers, dated
    <2> HIDE DEF dated
    <2>2. \A e \in dated, g \in {0, DefaultGrace} : e \in Dates /\ e + g \in Nat
      BY <1>1, <1>2
    <2> QED
      BY <1>1, <1>2, <1>3, <2>1, <2>2
  <1> QED
    BY <1>4, <1>5

-----------------------------------------------------------------------------
(* The inductive invariant.                                                *)

LEMMA InitIInv == Init => IInv
  <1> SUFFICES ASSUME Init PROVE IInv
    OBVIOUS
  <1>1. NoRow \in Row
    BY DEF NoRow, Row, Origins, Statuses, LiveStatuses, Dates, NoDate
  <1>2. TypeOK
    BY <1>1, IdleOK, LicensesAssumption DEF Init, TypeOK
  <1>3. OneLiveLicence /\ ColumnsAgree /\ OnlyTrialsExpire /\ AbsentIsBlank
    BY DEF Init, NoRow, OneLiveLicence, ColumnsAgree, OnlyTrialsExpire,
           AbsentIsBlank, LiveStatuses, CountedFrom
  <1>4. InsertsApart /\ CallsOK
    BY IdleOK DEF Init, InsertsApart, CallsOK
  <1> QED
    BY <1>2, <1>3, <1>4 DEF IInv

\* A step that replaces one call and touches no row.
LEMMA CallStep ==
  ASSUME IInv, NEW c \in Procs, NEW k \in Call, CallOK(k),
         k.pc = "insert" =>
           \A d \in Procs \ {c} : call[d].pc = "insert" => call[d].id # k.id,
         call' = [call EXCEPT ![c] = k],
         UNCHANGED <<lic, now>>, failures' \in Nat
  PROVE  IInv'
  <1>1. TypeOK'
    BY DEF IInv, TypeOK
  <1>2. (OneLiveLicence /\ ColumnsAgree /\ OnlyTrialsExpire /\ AbsentIsBlank)'
    BY DEF IInv, OneLiveLicence, ColumnsAgree, OnlyTrialsExpire, AbsentIsBlank
  <1>3. InsertsApart'
    BY DEF IInv, TypeOK, InsertsApart
  <1>4. CallsOK'
    <2> SUFFICES ASSUME NEW d \in Procs PROVE CallOK(call[d])'
      BY DEF CallsOK
    <2>1. CASE d = c
      BY <2>1 DEF IInv, TypeOK, CallOK
    <2>2. CASE d # c
      <3>1. call'[d] = call[d] /\ CallOK(call[d])
        BY <2>2 DEF IInv, TypeOK, CallsOK
      <3> QED
        BY <3>1 DEF CallOK
    <2> QED
      BY <2>1, <2>2
  <1> QED
    BY <1>1, <1>2, <1>3, <1>4 DEF IInv

\* A step that gives row i of a well-formed call the value r, and leaves the
\* call where it only has to notify.
LEMMA RowStep ==
  ASSUME IInv, NEW c \in Procs, NEW r \in Row, NEW i \in Ids,
         call[c].id = i,
         r.status # "absent",
         r.status \in LiveStatuses => ~ IndexRefuses(i),
         CountedFrom(r.expires, r.grace),
         r.status = "active" => ~ r.suspendedAt,
         r.status = "suspended" => r.suspendedAt,
         r.status = "expired" => r.origin = "trial",
         lic[i].status # "absent" => r.origin = lic[i].origin,
         lic[i].status = "absent" => call[c].pc = "insert",
         lic' = [lic EXCEPT ![i] = r],
         call' = [call EXCEPT ![c] = Written(call[c])],
         UNCHANGED <<now, failures>>
  PROVE  IInv'
  <1>1. TypeOK /\ OneLiveLicence /\ ColumnsAgree /\ OnlyTrialsExpire
        /\ AbsentIsBlank /\ InsertsApart /\ CallsOK
    BY DEF IInv
  <1>2. call[c] \in Call /\ CallOK(call[c])
    BY <1>1 DEF TypeOK, CallsOK
  <1>3. NoRow \in Row /\ NoParam \in Params
    BY DEF NoRow, NoParam, Row, Params, Origins, Statuses, LiveStatuses, Dates,
           NoDate, Keep
  <1>4. Written(call[c]) \in Call
    BY <1>2, <1>3 DEF Written, Call
  <1>5. /\ Written(call[c]).pc = "notify"
        /\ Written(call[c]).op = call[c].op
        /\ Written(call[c]).id = call[c].id
        /\ Written(call[c]).par = NoParam
        /\ Written(call[c]).job = call[c].job
        /\ Written(call[c]).todo = call[c].todo
    BY <1>2 DEF Written, Call
  <1>6. TypeOK'
    BY <1>1, <1>4 DEF TypeOK
  <1>7. lic' = [lic EXCEPT ![i] = r] /\ lic \in [Ids -> Row]
    BY <1>1 DEF TypeOK
  <1>8. OneLiveLicence'
    BY <1>1, <1>7 DEF OneLiveLicence, IndexRefuses, Live
  <1>9. ColumnsAgree'
    BY <1>1, <1>7 DEF ColumnsAgree
  <1>10. OnlyTrialsExpire'
    BY <1>1, <1>7 DEF OnlyTrialsExpire
  <1>11. AbsentIsBlank'
    BY <1>1, <1>7 DEF AbsentIsBlank
  <1>12. InsertsApart'
    BY <1>1, <1>5 DEF InsertsApart, TypeOK
  <1>13. CallsOK'
    <2> SUFFICES ASSUME NEW d \in Procs PROVE CallOK(call[d])'
      BY DEF CallsOK
    <2>1. \A j \in Ids : lic[j].status # "absent" =>
            lic'[j].status # "absent" /\ lic'[j].origin = lic[j].origin
      BY <1>7
    <2>2. \A j \in Ids : lic[j].origin = "trial" => lic[j].status # "absent"
      BY <1>1 DEF AbsentIsBlank, NoRow
    <2>3. CASE d = c
      <3>1. call'[d] = Written(call[c])
        BY <2>3, <1>1 DEF TypeOK
      <3> QED
        BY <3>1, <1>2, <1>5, <2>1, <2>2 DEF CallOK, NoParam, Call, CountedFrom
    <2>4. CASE d # c
      <3>1. call'[d] = call[d] /\ CallOK(call[d]) /\ call[d] \in Call
        BY <2>4, <1>1 DEF TypeOK, CallsOK
      <3>2. call[d].pc = "insert" => call[d].id # i
        BY <3>1, <2>4, <1>1 DEF InsertsApart, CallOK
      <3>3. call[d].pc = "insert" => lic'[call[d].id] = lic[call[d].id]
        BY <3>1, <3>2, <1>7 DEF Call
      <3> QED
        BY <3>1, <3>3, <2>1, <2>2 DEF CallOK, Call
    <2> QED
      BY <2>3, <2>4
  <1> QED
    BY <1>6, <1>8, <1>9, <1>10, <1>11, <1>12, <1>13 DEF IInv

\* The INSERT of emit.
LEMMA EmitInsertStep ==
  ASSUME IInv, NEW c \in Procs, EmitInsert(c)
  PROVE  IInv'
  <1> DEFINE k == call[c]
             r == [status |-> "active", origin |-> k.par.origin,
                   expires |-> k.par.expires, grace |-> k.par.grace,
                   suspendedAt |-> FALSE]
  <1>1. k \in Call /\ CallOK(k) /\ failures \in Nat /\ k.pc = "insert"
    BY DEF IInv, TypeOK, CallsOK, EmitInsert
  <1>2. CASE IndexRefuses(k.id)
    <2>1. call' = [call EXCEPT ![c] = Idle] /\ UNCHANGED <<lic, now, failures>>
      BY <1>2 DEF EmitInsert
    <2> QED
      BY <1>1, <2>1, IdleOK, CallStep
  <1>3. CASE ~ IndexRefuses(k.id)
    <2>1. /\ lic' = [lic EXCEPT ![k.id] = r]
          /\ call' = [call EXCEPT ![c] = Written(k)]
          /\ UNCHANGED <<now, failures>>
      BY <1>3 DEF EmitInsert
    <2>2. r \in Row
      BY <1>1 DEF CallOK, Call, Params, Row, Statuses, LiveStatuses
    <2>3. k.id \in Ids /\ lic[k.id].status = "absent"
      BY <1>1 DEF CallOK, Call
    <2>4. CountedFrom(r.expires, r.grace)
      BY <1>1, <2>2 DEF CallOK, NoDate, Row, Dates
    <2>5. r.status = "active" /\ ~ r.suspendedAt
      OBVIOUS
    <2> HIDE DEF r
    <2> QED
      BY <1>1, <1>3, <2>1, <2>2, <2>3, <2>4, <2>5, RowStep
  <1> QED
    BY <1>2, <1>3

\* The UPDATE of the other operations.
LEMMA WriteStep ==
  ASSUME IInv, NEW c \in Procs, Write(c)
  PROVE  IInv'
  <1> DEFINE k == call[c]
             old == lic[k.id]
             r == Updated(k, old)
  <1>1. k \in Call /\ CallOK(k) /\ failures \in Nat /\ k.pc = "write"
    BY DEF IInv, TypeOK, CallsOK, Write
  <1>2. k.id \in Ids /\ old \in Row /\ old.status # "absent"
    BY <1>1 DEF IInv, TypeOK, CallOK, Call
  <1>3. /\ r \in Row
        /\ r.origin = old.origin
        /\ r.status # "absent"
        /\ r.status = "expired" => old.status = "expired" \/ k.op = "expireTrial"
        /\ \/ r.grace = old.grace /\ r.expires = old.expires
           \/ CountedFrom(r.expires, r.grace)
        /\ \/ r.status = old.status /\ r.suspendedAt = old.suspendedAt
           \/ r.status = "active" /\ ~ r.suspendedAt
           \/ r.status = "suspended" /\ r.suspendedAt
           \/ r.status \in {"expired", "revoked"}
    <2>1. CountedFrom(k.par.expires, k.par.grace)
      BY <1>1 DEF CallOK
    <2> QED
      BY <1>1, <1>2, <2>1, UpdatedOK
  <1>4. /\ \/ r.status \in LiveStatuses /\ IndexRefuses(k.id)
              /\ call' = [call EXCEPT ![c] = Idle] /\ UNCHANGED lic
           \/ /\ r.status \in LiveStatuses => ~ IndexRefuses(k.id)
              /\ lic' = [lic EXCEPT ![k.id] = r]
              /\ call' = [call EXCEPT ![c] = Written(k)]
        /\ UNCHANGED <<now, failures>>
    BY DEF Write
  <1>5. /\ CountedFrom(old.expires, old.grace)
        /\ old.status = "active" => ~ old.suspendedAt
        /\ old.status = "suspended" => old.suspendedAt
        /\ old.status = "expired" => old.origin = "trial"
        /\ k.op = "expireTrial" => old.origin = "trial"
    BY <1>1, <1>2 DEF IInv, ColumnsAgree, OnlyTrialsExpire, CallOK
  <1> HIDE DEF r, old
  <1>6. CASE UNCHANGED lic /\ call' = [call EXCEPT ![c] = Idle]
    BY <1>1, <1>4, <1>6, IdleOK, CallStep
  <1>7. CASE /\ r.status \in LiveStatuses => ~ IndexRefuses(k.id)
             /\ lic' = [lic EXCEPT ![k.id] = r]
             /\ call' = [call EXCEPT ![c] = Written(k)]
    <2>1. CountedFrom(r.expires, r.grace)
      BY <1>3, <1>5
    <2>2. /\ r.status = "active" => ~ r.suspendedAt
          /\ r.status = "suspended" => r.suspendedAt
      BY <1>3, <1>5
    <2>3. r.status = "expired" => r.origin = "trial"
      BY <1>3, <1>5
    <2>4. lic[k.id].status # "absent" /\ r.origin = lic[k.id].origin
      BY <1>2, <1>3 DEF old
    <2> QED
      BY <1>2, <1>3, <1>4, <1>7, <2>1, <2>2, <2>3, <2>4, RowStep
  <1> QED
    BY <1>4, <1>6, <1>7

\* What the lemmas below start from.
LEMMA Known ==
  ASSUME IInv
  PROVE  /\ failures \in Nat /\ now \in Nat
         /\ \A c \in Procs : call[c] \in Call /\ CallOK(call[c])
  BY DEF IInv, TypeOK, CallsOK

\* The SELECT of emit, for whatever is asked with an expiry.
LEMMA EmitFindStep ==
  ASSUME IInv, NEW c \in Calls, NEW p, NEW par \in Params,
         par.expires # Keep,
         CountedFrom(par.expires, par.grace),
         EmitFind(c, p, par)
  PROVE  IInv'
  <1>1. c \in Procs /\ failures' \in Nat /\ UNCHANGED <<lic, now>>
    BY Known DEF EmitFind, Procs
  <1>2. ASSUME NEW i \in Live(p),
               call' = [call EXCEPT ![c] = [Idle EXCEPT
                          !.pc = "read", !.op = "renew", !.id = i,
                          !.par = [par EXCEPT !.origin = "none"]]]
        PROVE  IInv'
    <2> DEFINE q == [par EXCEPT !.origin = "none"]
               k == [Idle EXCEPT !.pc = "read", !.op = "renew", !.id = i, !.par = q]
    <2>1. q \in Params /\ q.grace = par.grace /\ q.expires = par.expires
      BY DEF Params, Origins
    <2>2. i \in Ids /\ lic[i].status # "absent"
      BY DEF Live, LiveStatuses
    <2> HIDE DEF q
    <2>3. k \in Call /\ k.pc = "read"
      BY <2>1, <2>2, IdleOK DEF Call, Ops
    <2>4. CallOK(k)
      BY <2>1, <2>2, IdleOK DEF CallOK, Call
    <2> QED
      BY <1>1, <1>2, <2>3, <2>4, CallStep DEF q
  <1>3. ASSUME NEW i \in Spare(p),
               call' = [call EXCEPT ![c] = [Idle EXCEPT
                          !.pc = "insert", !.op = "emit", !.id = i, !.par = par]]
        PROVE  IInv'
    <2> DEFINE k == [Idle EXCEPT !.pc = "insert", !.op = "emit", !.id = i, !.par = par]
    <2>1. /\ i \in Ids /\ lic[i].status = "absent"
          /\ \A d \in Procs : call[d].pc = "insert" => call[d].id # i
      BY DEF Spare
    <2>2. k \in Call /\ k.pc = "insert" /\ k.id = i
      BY <2>1, IdleOK DEF Call, Ops
    <2>3. CallOK(k)
      BY <2>1, IdleOK DEF CallOK, Call
    <2> QED
      BY <1>1, <1>3, <2>1, <2>2, <2>3, CallStep
  <1> QED
    BY <1>2, <1>3 DEF EmitFind

\* findById of an operation that starts with the id of a licence.
LEMMA BeginStep ==
  ASSUME IInv, NEW c \in Calls, NEW i \in Ids,
         NEW op \in {"renew", "suspend", "reactivate", "revoke"}, Begin(c, op, i)
  PROVE  IInv'
  <1> DEFINE k == [Idle EXCEPT !.op = op, !.id = i]
  <1>1. /\ c \in Procs /\ lic[i].status # "absent"
        /\ call' = [call EXCEPT ![c] = Loaded(k)]
        /\ UNCHANGED <<lic, now, failures>>
    BY DEF Begin, Procs
  <1>2. k \in Call /\ k.id = i
    BY IdleOK DEF Call, Ops
  <1>3. CallOK(k)
    BY IdleOK DEF CallOK, Call
  <1> HIDE DEF k
  <1>4. TypeOK /\ failures' \in Nat
    BY <1>1, Known DEF IInv
  <1> QED
    BY <1>1, <1>2, <1>3, <1>4, LoadedOK, CallStep

\* findById of the licence that emit has found.
LEMMA RenewReadStep ==
  ASSUME IInv, NEW c \in Procs, RenewRead(c)
  PROVE  IInv'
  <1>1. /\ call[c].pc = "read"
        /\ call' = [call EXCEPT ![c] = Loaded(call[c])]
        /\ UNCHANGED <<lic, now, failures>>
    BY DEF RenewRead
  <1>2. call[c] \in Call /\ CallOK(call[c]) /\ TypeOK /\ failures' \in Nat
    BY <1>1, Known DEF IInv
  <1>3. lic[call[c].id].status # "absent"
    BY <1>1, <1>2 DEF CallOK
  <1> QED
    BY <1>1, <1>2, <1>3, LoadedOK, CallStep

\* The end of a call, and a call that is cut short.
LEMMA NotifyStep ==
  ASSUME IInv, NEW c \in Procs, Notify(c)
  PROVE  IInv'
  <1>1. call[c] \in Call /\ CallOK(call[c]) /\ TypeOK /\ failures' \in Nat
    BY Known DEF IInv, Notify
  <1> QED
    BY <1>1, ReturnedOK, CallStep DEF Notify

LEMMA FailStep ==
  ASSUME IInv, NEW c \in Procs, Fail(c)
  PROVE  IInv'
  <1>1. call' = [call EXCEPT ![c] = Idle] /\ UNCHANGED <<lic, now>> /\ failures' \in Nat
    BY Known DEF Fail
  <1> QED
    BY <1>1, IdleOK, CallStep

\* A day passes.
LEMMA TickStep ==
  ASSUME IInv, Tick
  PROVE  IInv'
  <1>1. now' = now + 1 /\ UNCHANGED <<lic, call, failures>>
    BY DEF Tick
  <1>2. TypeOK'
    BY <1>1 DEF TypeOK, IInv
  <1>3. (OneLiveLicence /\ ColumnsAgree /\ OnlyTrialsExpire /\ AbsentIsBlank
         /\ InsertsApart)'
    BY <1>1 DEF IInv, OneLiveLicence, ColumnsAgree, OnlyTrialsExpire, AbsentIsBlank,
                InsertsApart
  <1>4. CallsOK'
    <2> SUFFICES ASSUME NEW c \in Procs PROVE CallOK(call[c])'
      BY DEF CallsOK
    <2>1. call[c] \in Call /\ CallOK(call[c]) /\ now \in Nat
      BY Known
    <2> QED
      BY <1>1, <2>1 DEF CallOK, Call, Row, Dates, NoDate
  <1> QED
    BY <1>2, <1>3, <1>4 DEF IInv

\* Nothing changes.
LEMMA StutterStep ==
  ASSUME IInv, UNCHANGED vars
  PROVE  IInv'
  <1>1. UNCHANGED <<lic, call, now, failures>>
    BY DEF vars
  <1>2. CallsOK'
    BY <1>1 DEF CallsOK, CallOK, IInv
  <1> QED
    BY <1>1, <1>2 DEF IInv, TypeOK, OneLiveLicence, ColumnsAgree, OnlyTrialsExpire,
                      AbsentIsBlank, InsertsApart

\* Every step preserves the invariant.
LEMMA NextIInv == IInv /\ [Next]_vars => IInv'
  <1> SUFFICES ASSUME IInv, [Next]_vars PROVE IInv'
    OBVIOUS
  <1>1. TypeOK /\ failures \in Nat /\ now \in Nat
    BY DEF IInv, TypeOK
  <1>2. \A c \in Procs : call[c] \in Call /\ CallOK(call[c])
    BY DEF IInv, TypeOK, CallsOK
  <1>3. ASSUME NEW c \in Calls, NEW p \in Pairs, NEW par \in Offers, EmitFind(c, p, par)
        PROVE  IInv'
    <2>1. /\ par \in Params
          /\ par.expires # Keep
          /\ CountedFrom(par.expires, par.grace)
      BY <1>1, OffersOK
    <2> QED
      BY <1>3, <2>1, EmitFindStep
  <1>4. ASSUME NEW s \in Sweepers, NEW job \in {"hourlyLicenses", "daily"}, Sweep(s, job)
        PROVE  IInv'
    <2> DEFINE k == [Idle EXCEPT !.pc = "pick", !.job = job, !.todo = ExpiredAfterGrace]
    <2>1. /\ s \in Procs
          /\ call' = [call EXCEPT ![s] = k]
          /\ UNCHANGED <<lic, now, failures>>
      BY <1>4 DEF Sweep, Procs
    <2>2. /\ ExpiredAfterGrace \subseteq Ids
          /\ \A i \in ExpiredAfterGrace : lic[i].status # "absent"
      BY DEF ExpiredAfterGrace
    <2>3. k \in Call /\ k.pc = "pick"
      BY <2>2, IdleOK DEF Call, Jobs
    <2>4. CallOK(k)
      BY <2>2, IdleOK DEF CallOK, Call
    <2> QED
      BY <1>1, <2>1, <2>3, <2>4, CallStep
  <1>5. ASSUME NEW s \in Sweepers, SweepPick(s)
        PROVE  IInv'
    <2> DEFINE op == IF call[s].job = "hourlyTrials" THEN "expireTrial" ELSE "suspend"
    <2>1. PICK i \in call[s].todo :
            call' = [call EXCEPT ![s] =
                       Loaded([call[s] EXCEPT !.op = op, !.id = i,
                                              !.todo = call[s].todo \ {i}])]
      BY <1>5 DEF SweepPick
    <2> DEFINE k == [call[s] EXCEPT !.op = op, !.id = i, !.todo = call[s].todo \ {i}]
    <2>2. s \in Procs /\ call[s].pc = "pick" /\ UNCHANGED <<lic, now, failures>>
      BY <1>5 DEF SweepPick, Procs
    <2>3. call[s] \in Call /\ CallOK(call[s])
      BY <1>2, <2>2
    <2>4. i \in Ids /\ lic[i].status # "absent"
      BY <2>1, <2>3 DEF Call, CallOK
    <2>5. op \in Ops /\ (op = "expireTrial" => call[s].job = "hourlyTrials")
      BY DEF Ops
    <2> HIDE DEF op
    <2>6. k \in Call /\ k.id = i
      BY <2>3, <2>4, <2>5 DEF Call
    <2>7. CallOK(k)
      BY <2>1, <2>2, <2>3, <2>4, <2>5 DEF CallOK, Call
    <2>8. call' = [call EXCEPT ![s] = Loaded(k)]
      BY <2>1
    <2> HIDE DEF k
    <2> QED
      BY <1>1, <2>2, <2>4, <2>6, <2>7, <2>8, LoadedOK, CallStep
  <1>6. ASSUME NEW s \in Sweepers, SweepNext(s)
         PROVE  IInv'
    <2> DEFINE k == [Idle EXCEPT !.pc = "pick", !.job = "hourlyTrials", !.todo = ExpiredTrials]
    <2>1. s \in Procs /\ UNCHANGED <<lic, now, failures>>
      BY <1>6 DEF SweepNext, Procs
    <2>2. \/ call' = [call EXCEPT ![s] = k]
          \/ call' = [call EXCEPT ![s] = Idle]
      BY <1>6 DEF SweepNext
    <2>3. /\ ExpiredTrials \subseteq Ids
          /\ \A i \in ExpiredTrials : lic[i].status # "absent" /\ lic[i].origin = "trial"
      BY DEF ExpiredTrials
    <2>4. k \in Call /\ k.pc = "pick"
      BY <2>3, IdleOK DEF Call, Jobs
    <2>5. CallOK(k)
      BY <2>3, IdleOK DEF CallOK, Call
    <2> HIDE DEF k
    <2> QED
      BY <1>1, <2>1, <2>2, <2>4, <2>5, IdleOK, CallStep
  <1> QED
    BY <1>3, <1>4, <1>5, <1>6, BeginStep, EmitInsertStep, RenewReadStep, WriteStep,
       NotifyStep, FailStep, TickStep, StutterStep
       DEF Next, Step

-----------------------------------------------------------------------------
(* The theorems.                                                           *)

\* The invariant holds in every state of every behaviour.
THEOREM SpecIInv == Spec => []IInv
  BY InitIInv, NextIInv, PTL DEF Spec

\* The variables keep their types: rows only ever hold the statuses, origins
\* and dates of the schema.
THEOREM SpecTypeOK == Spec => []TypeOK
  <1>1. IInv => TypeOK
    BY DEF IInv
  <1> QED
    BY <1>1, SpecIInv, PTL

\* At most one live licence per customer and product, whatever races.
THEOREM SpecOneLiveLicence == Spec => []OneLiveLicence
  <1>1. IInv => OneLiveLicence
    BY DEF IInv
  <1> QED
    BY <1>1, SpecIInv, PTL

\* The columns of a licence agree in every state.
THEOREM SpecColumnsAgree == Spec => []ColumnsAgree
  <1>1. IInv => ColumnsAgree
    BY DEF IInv
  <1> QED
    BY <1>1, SpecIInv, PTL

\* No licence that was bought or granted by hand ever ends as expired.
THEOREM SpecOnlyTrialsExpire == Spec => []OnlyTrialsExpire
  <1>1. IInv => OnlyTrialsExpire
    BY DEF IInv
  <1> QED
    BY <1>1, SpecIInv, PTL

\* A suspension that nothing overtook never falls into a grace period.
THEOREM SpecGraceHonoured == Spec => GraceHonoured
  <1> DEFINE Honoured ==
        \A c \in Procs, i \in Ids :
          SuspendsBy(c, i) /\ call[c].seen = lic[i] => ~ InGrace(i)
  <1>1. IInv /\ [Next]_vars => [Honoured]_vars
    <2> SUFFICES ASSUME IInv, NEW c \in Procs, NEW i \in Ids,
                        SuspendsBy(c, i), call[c].seen = lic[i], InGrace(i)
                 PROVE  FALSE
      OBVIOUS
    <2>1. CallOK(call[c]) /\ lic[i] \in Row /\ now \in Nat
      BY DEF IInv, TypeOK, CallsOK
    <2>2. lic[i].grace = NoDate \/ lic[i].grace <= now
      BY <2>1 DEF SuspendsBy, CallOK
    <2> QED
      BY <2>1, <2>2 DEF InGrace, Row, Dates, NoDate
  <1> QED
    BY <1>1, SpecIInv, PTL DEF Spec, GraceHonoured
=============================================================================
