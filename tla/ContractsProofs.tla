---------------------------- MODULE ContractsProofs ----------------------------
(***************************************************************************)
(* Proofs about Contracts, for any number of subscriptions, licences and   *)
(* callers and for every term, trial and slack.                            *)
(*                                                                         *)
(* The licence service is used as it is, so the invariant of its licences  *)
(* holds here too, by the lemmas of LicensesProofs on its steps.           *)
(***************************************************************************)
EXTENDS Contracts, LicensesProofs, FiniteSetTheorems

\* What each operation is at.
OpOK(c) ==
  /\ op[c].pc = "idle" => op[c].kind = "none"
  /\ op[c].pc \in {"insert", "update", "emit", "licence"} => op[c].sub \in Subs
  /\ op[c].pc = "insert" => /\ op[c].kind \in {"create", "trial"}
                            /\ sub[op[c].sub].status = "absent"
  /\ op[c].pc = "update" => /\ op[c].kind \in {"activate", "overdue", "plan", "cancel", "cancelNow"}
                            /\ op[c].kind = "activate" => op[c].until \in Nat
                            /\ sub[op[c].sub].status # "absent"
  /\ op[c].pc = "emit" => op[c].kind \in {"trial", "activate"} /\ op[c].until \in Nat
  /\ op[c].pc \in {"licence", "found"} => op[c].kind \in {"plan", "cancelNow"}
  /\ op[c].pc = "found" => lic[op[c].id].status # "absent"
  /\ op[c].pc = "called" => op[c].kind \in Touches
  /\ op[c].kind \in {"issue", "admin", "revoke"} => op[c].pc = "called"

\* A caller is with the licence service only while its operation is called out, and
\* for what that operation calls it.
CalledOut(c) ==
  /\ op[c].pc = "called"
  /\ call[c].job = "none" /\ call[c].todo = {}
  /\ \/ /\ op[c].kind \in {"trial", "activate", "issue"}
        /\ \/ call[c].pc = "insert" /\ call[c].op = "emit" /\ call[c].par.expires # Keep
           \/ call[c].pc \in {"read", "write"} /\ call[c].op = "renew" /\ call[c].par.expires # Keep
           \/ call[c].pc = "notify"
     \/ /\ op[c].kind = "plan"
        /\ \/ call[c].pc = "write" /\ call[c].op = "renew" /\ call[c].par.expires = Keep
           \/ call[c].pc = "notify"
     \/ /\ op[c].kind \in {"cancelNow", "revoke"}
        /\ \/ call[c].pc = "write" /\ call[c].op = "revoke"
           \/ call[c].pc = "notify"
     \/ /\ op[c].kind = "admin"
        /\ \/ call[c].pc = "write" /\ call[c].op \in {"suspend", "reactivate"}
           \/ call[c].pc = "notify"

\* Where a run of an expiry job is.
SweepAt(w) ==
  \/ call[w] = Idle
  \/ /\ call[w].job # "none" /\ call[w].pc \in {"pick", "write", "notify"}
     /\ call[w].pc = "write" => call[w].op \in {"suspend", "expireTrial"}

Shape == /\ \A c \in Calls : OpOK(c)
         /\ \A c \in Calls : call[c] # Idle => CalledOut(c)
         /\ \A w \in Sweepers : SweepAt(w)
         /\ \A c, d \in Calls : /\ op[c].pc = "insert" /\ op[d].pc = "insert"
                                /\ op[c].sub = op[d].sub
                                => c = d

\* The administrator, who asks for a licence by its id.
Commands(c) == c \in Calls /\ op[c].kind \in {"admin", "revoke"}

\* Who else still has a licence in hand that has been revoked was seen with it.
SeenWithIt == \A c \in Procs : \A i \in Ids :
                InHand(c, i) /\ lic[i].status = "revoked" /\ ~ Commands(c) => c \in held

InForceSub(s) == sub[s].status \notin {"absent", "canceled"}

\* One row in force per pair, and none while another is about to be inserted.
Single ==
  /\ \A s, t \in Subs : /\ InForceSub(s) /\ InForceSub(t) /\ PairOfSub[s] = PairOfSub[t]
                        => s = t
  /\ \A c \in Calls : op[c].pc = "insert" =>
       /\ \A s \in Subs : InForceSub(s) => PairOfSub[s] # Pair(c)
       /\ \A d \in Calls : op[d].pc = "insert" => c = d

\* Nobody else is at a licence while a payment is, and no expiry job runs.
Alone == \A c \in Paying : /\ \A d \in Touching : c = d
                          /\ \A w \in Sweepers : call[w] = Idle

\* c is at an operation that may change the licence of pair p.
At(c, p) ==
  \/ op[c].pc \in {"insert", "update", "emit", "licence"} /\ Pair(c) = p
  \/ op[c].pc = "found" /\ PairOf[op[c].id] = p
  \/ op[c].pc = "called" /\ call[c].pc \in {"insert", "read", "write"} /\ PairOf[call[c].id] = p

Paid(p) == {s \in Subs : PaidFor(s) /\ PairOfSub[s] = p}

\* A trial, an immediate cancellation and the others who emit or revoke are at pairs
\* that nobody pays for.
UnpaidBy(c) ==
  \A p \in Pairs : At(c, p) =>
    /\ op[c].kind \in {"trial", "issue", "revoke"} => Paid(p) = {}
    /\ op[c].kind = "cancelNow" => IF op[c].pc = "update" THEN Paid(p) \subseteq {op[c].sub}
                                                          ELSE Paid(p) = {}

\* A change of plan holds the licence that is live, and the expiry that it has, where
\* somebody pays for it.
PlannedBy(c) ==
  op[c].kind = "plan" =>
    /\ op[c].pc = "found" /\ Paid(PairOf[op[c].id]) # {} => lic[op[c].id].status \in LiveStatuses
    /\ call[c].pc = "write" /\ Paid(PairOf[call[c].id]) # {} =>
         /\ lic[call[c].id].status \in LiveStatuses
         /\ call[c].seen.expires = lic[call[c].id].expires

\* A payment that has been written holds the term and the licence that is to get it.
PayingBy(c) ==
  op[c].kind = "activate" =>
    /\ op[c].pc = "emit" => \A s \in Paid(Pair(c)) : sub[s].until = op[c].until
    /\ call[c].pc \in {"insert", "read", "write"} =>
         \A s \in Paid(PairOf[call[c].id]) : call[c].par.expires = sub[s].until + Slack
    /\ call[c].pc \in {"read", "write"} => lic[call[c].id].status \in LiveStatuses
    /\ call[c].pc = "insert" => Live(PairOf[call[c].id]) = {}

\* What an expiry job takes for the end of a trial is of pairs that nobody pays for.
SweptBy(w) ==
  /\ call[w].job = "hourlyTrials" => \A i \in call[w].todo : Paid(PairOf[i]) = {}
  /\ call[w].pc = "write" /\ call[w].op = "expireTrial" => Paid(PairOf[call[w].id]) = {}

HasTerm(s) == \E i \in Live(PairOfSub[s]) : lic[i].expires = sub[s].until + Slack

\* A payment of pair p is written and is about to give it its term.
PaymentAt(c, p) == op[c].kind = "activate" /\ op[c].pc # "update" /\ At(c, p)

\* What is paid for has its term, or a payment is about to give it.
TermComes ==
  \A s \in Subs : PaidFor(s) =>
    HasTerm(s) \/ \E c \in Calls : PaymentAt(c, PairOfSub[s])

Termly == /\ \A c \in Calls : UnpaidBy(c) /\ PlannedBy(c) /\ PayingBy(c)
          /\ \A w \in Sweepers : SweptBy(w)
          /\ TermComes

\* What holds whatever overlapped or failed.
Frame == /\ IInv /\ ContractsTypeOK
         /\ Shape /\ SeenWithIt
         /\ ~ beside => Single
         /\ ~ crossed => Alone

CInv == Frame /\ (~ beside /\ ~ crossed /\ failures = 0 => Termly)

-----------------------------------------------------------------------------
(* What the steps do to the operations.                                    *)

Kinds == {"create", "trial", "activate", "overdue", "plan", "cancel", "cancelNow",
          "issue", "admin", "revoke"}

\* Only the operation of c is at another point.
Moved(c) == /\ op' \in [Calls -> Operation]
            /\ \A d \in Calls \ {c} : op'[d] = op[d]

LEMMA NoOpOK == NoOp \in Operation /\ NoOp.pc = "idle" /\ NoOp.kind = "none"
  BY LicensesAssumption DEF NoOp, Operation, Dates, NoDate

LEMMA MovedTo ==
  ASSUME ContractsTypeOK, NEW c \in Calls, NEW o \in Operation, op' = [op EXCEPT ![c] = o]
  PROVE  Moved(c) /\ op'[c] = o
  BY DEF ContractsTypeOK, Moved

LEMMA BeginsOp ==
  ASSUME ContractsTypeOK, NEW c \in Calls, NEW s \in Subs \cup {"none"}, NEW kind \in Kinds,
         NEW pc \in {"insert", "update", "called"}, NEW until \in Dates,
         Begins(c, kind, pc, s, until)
  PROVE  /\ Moved(c) /\ op[c].pc = "idle" /\ op[c].kind = "none"
         /\ op'[c].pc = pc /\ op'[c].kind = kind /\ op'[c].sub = s /\ op'[c].until = until
         /\ begun' \in Nat /\ crossed' \in BOOLEAN
         /\ ~ crossed' => /\ ~ crossed
                          /\ kind = "activate" =>
                               Touching = {} /\ \A w \in Sweepers : call[w] = Idle
                          /\ kind \in Touches => Paying = {}
  <1> DEFINE o == [NoOp EXCEPT !.pc = pc, !.kind = kind, !.sub = s, !.until = until]
  <1>1. /\ o \in Operation
        /\ o.pc = pc /\ o.kind = kind /\ o.sub = s /\ o.until = until
    BY NoOpOK DEF Operation, Kinds
  <1>2. op' = [op EXCEPT ![c] = o] /\ op[c] = NoOp /\ begun' = begun + 1
    BY DEF Begins, Counts
  <1>3. begun' \in Nat
    BY <1>2 DEF ContractsTypeOK
  <1>4. crossed' = \/ crossed
                   \/ kind = "activate" /\ Touching \cup Sweeping # {}
                   \/ kind \in Touches /\ Paying # {}
    BY DEF Begins
  <1>5. crossed' \in BOOLEAN
    BY <1>4 DEF ContractsTypeOK
  <1>6. Touching \cup Sweeping = {} => Touching = {} /\ \A w \in Sweepers : call[w] = Idle
    BY DEF Sweeping
  <1> HIDE DEF o
  <1>7. Moved(c) /\ op'[c] = o
    BY <1>1, <1>2, MovedTo
  <1> QED
    BY <1>1, <1>2, <1>3, <1>4, <1>5, <1>6, <1>7, NoOpOK

LEMMA GoesOp ==
  ASSUME ContractsTypeOK, NEW c \in Calls, NEW pc \in {"emit", "licence"}, Goes(c, pc)
  PROVE  /\ Moved(c)
         /\ op'[c].pc = pc /\ op'[c].kind = op[c].kind /\ op'[c].sub = op[c].sub
         /\ op'[c].until = op[c].until
  <1> DEFINE o == [op[c] EXCEPT !.pc = pc]
  <1>1. /\ o \in Operation
        /\ o.pc = pc /\ o.kind = op[c].kind /\ o.sub = op[c].sub /\ o.until = op[c].until
    BY DEF ContractsTypeOK, Operation
  <1>2. op' = [op EXCEPT ![c] = o]
    BY DEF Goes
  <1> HIDE DEF o
  <1> QED
    BY <1>1, <1>2, MovedTo

LEMMA EndsOp ==
  ASSUME ContractsTypeOK, NEW c \in Calls, Ends(c)
  PROVE  Moved(c) /\ op'[c].pc = "idle" /\ op'[c].kind = "none"
  BY NoOpOK, MovedTo DEF Ends

LEMMA CallsOnOp ==
  ASSUME ContractsTypeOK, NEW c \in Calls, CallsOn(c)
  PROVE  Moved(c) /\ op'[c].pc = "called" /\ op'[c].kind = op[c].kind
  <1> DEFINE o == [NoOp EXCEPT !.pc = "called", !.kind = op[c].kind]
  <1>1. o \in Operation /\ o.pc = "called" /\ o.kind = op[c].kind
    BY NoOpOK DEF ContractsTypeOK, Operation
  <1>2. op' = [op EXCEPT ![c] = o]
    BY DEF CallsOn
  <1> HIDE DEF o
  <1> QED
    BY <1>1, <1>2, MovedTo

-----------------------------------------------------------------------------
(* What the steps of the licence service do to the calls and licences.     *)

\* Only the call of c is at another point.
CallMoved(c) == /\ call' \in [Procs -> Call]
                /\ \A d \in Procs \ {c} : call'[d] = call[d]

LEMMA FindsCall ==
  ASSUME IInv, IInv', NEW c \in Calls, NEW p \in Pairs, NEW par \in Params, EmitFind(c, p, par)
  PROVE  /\ CallMoved(c) /\ call[c] = Idle /\ UNCHANGED <<lic, now, failures>>
         /\ call'[c].id \in Ids /\ PairOf[call'[c].id] = p
         /\ call'[c].job = "none" /\ call'[c].todo = {}
         /\ call'[c].par.expires = par.expires
         /\ \/ call'[c].pc = "read" /\ call'[c].op = "renew"
               /\ lic[call'[c].id].status \in LiveStatuses
            \/ call'[c].pc = "insert" /\ call'[c].op = "emit" /\ Live(p) = {}
  <1>1. call \in [Procs -> Call] /\ call' \in [Procs -> Call] /\ c \in Procs
    BY DEF IInv, TypeOK, Procs
  <1>2. /\ call[c] = Idle /\ UNCHANGED <<lic, now, failures>>
    BY DEF EmitFind
  <1>3. ASSUME NEW i \in Live(p),
               call' = [call EXCEPT ![c] = [Idle EXCEPT
                          !.pc = "read", !.op = "renew", !.id = i,
                          !.par = [par EXCEPT !.origin = "none"]]]
        PROVE  /\ \A d \in Procs \ {c} : call'[d] = call[d]
               /\ call'[c].id = i /\ call'[c].job = "none" /\ call'[c].todo = {}
               /\ call'[c].par.expires = par.expires
               /\ call'[c].pc = "read" /\ call'[c].op = "renew"
    <2> DEFINE q == [par EXCEPT !.origin = "none"]
               k == [Idle EXCEPT !.pc = "read", !.op = "renew", !.id = i, !.par = q]
    <2>1. q.expires = par.expires
      BY DEF Params
    <2> HIDE DEF q
    <2>2. /\ k.id = i /\ k.job = "none" /\ k.todo = {} /\ k.par = q
          /\ k.pc = "read" /\ k.op = "renew"
      BY IdleOK DEF Call
    <2>3. call' = [call EXCEPT ![c] = k]
      BY <1>3 DEF q
    <2> HIDE DEF k
    <2> QED
      BY <1>1, <2>1, <2>2, <2>3
  <1>4. ASSUME NEW i \in Spare(p),
               call' = [call EXCEPT ![c] = [Idle EXCEPT
                          !.pc = "insert", !.op = "emit", !.id = i, !.par = par]]
        PROVE  /\ \A d \in Procs \ {c} : call'[d] = call[d]
               /\ call'[c].id = i /\ call'[c].job = "none" /\ call'[c].todo = {}
               /\ call'[c].par.expires = par.expires
               /\ call'[c].pc = "insert" /\ call'[c].op = "emit"
    <2> DEFINE k == [Idle EXCEPT !.pc = "insert", !.op = "emit", !.id = i, !.par = par]
    <2>1. /\ k.id = i /\ k.job = "none" /\ k.todo = {} /\ k.par = par
          /\ k.pc = "insert" /\ k.op = "emit"
      BY IdleOK DEF Call
    <2> HIDE DEF k
    <2> QED
      BY <1>1, <1>4, <2>1 DEF k
  <1> QED
    BY <1>1, <1>2, <1>3, <1>4 DEF EmitFind, CallMoved, Live, Spare

LEMMA BeginsCall ==
  ASSUME IInv, IInv', NEW c \in Calls, NEW i \in Ids, NEW o \in {"renew", "revoke", "suspend", "reactivate"},
         Begin(c, o, i), ~ Skips(o, lic[i])
  PROVE  /\ CallMoved(c) /\ call[c] = Idle /\ UNCHANGED <<lic, now, failures>>
         /\ call'[c].id = i /\ call'[c].pc = "write" /\ call'[c].op = o
         /\ call'[c].job = "none" /\ call'[c].todo = {}
         /\ call'[c].par.expires = Keep
         /\ o = "renew" => call'[c].seen = lic[i]
  <1>1. call \in [Procs -> Call] /\ call' \in [Procs -> Call] /\ c \in Procs /\ lic[i] \in Row
    BY DEF IInv, TypeOK, Procs
  <1> DEFINE k == [Idle EXCEPT !.op = o, !.id = i]
             s == IF k.op = "suspend" \/ (k.op = "renew" /\ k.par.expires = Keep)
                  THEN lic[k.id] ELSE NoRow
             w == [k EXCEPT !.pc = "write", !.seen = s]
  <1>2. /\ k \in Call /\ k.op = o /\ k.id = i /\ k.par = NoParam
        /\ k.job = "none" /\ k.todo = {}
    BY IdleOK DEF Call, Ops, Idle
  <1>3. call[c] = Idle /\ call' = [call EXCEPT ![c] = Loaded(k)] /\ UNCHANGED <<lic, now, failures>>
    BY DEF Begin
  <1> HIDE DEF k
  <1>4. ~ Skips(k.op, lic[k.id])
    BY <1>2
  <1>5. Loaded(k) = w
    BY <1>4 DEF Loaded
  <1>6. o = "renew" => s = lic[i]
    BY <1>2 DEF NoParam
  <1> HIDE DEF s
  <1>7. /\ w.pc = "write" /\ w.id = i /\ w.op = o /\ w.job = "none" /\ w.todo = {}
        /\ w.par = NoParam /\ w.seen = s
    BY <1>2 DEF Call
  <1> HIDE DEF w
  <1> QED
    BY <1>1, <1>3, <1>5, <1>6, <1>7 DEF CallMoved, NoParam

\* An early return leaves the caller idle.
LEMMA NotSkipped ==
  ASSUME IInv, NEW c \in Calls, NEW i \in Ids, NEW o \in {"suspend", "reactivate"},
         Begin(c, o, i), call'[c] # Idle
  PROVE  ~ Skips(o, lic[i])
  <1>1. call \in [Procs -> Call] /\ c \in Procs
    BY DEF IInv, TypeOK, Procs
  <1> DEFINE k == [Idle EXCEPT !.op = o, !.id = i]
  <1>2. k.op = o /\ k.id = i /\ k.job = "none" /\ k.todo = {}
    BY IdleOK DEF Call
  <1>3. call' = [call EXCEPT ![c] = Loaded(k)]
    BY DEF Begin
  <1> HIDE DEF k
  <1>4. Skips(k.op, lic[k.id]) => Loaded(k) = Returned(k)
    BY DEF Loaded
  <1>5. Returned(k) = Idle
    BY <1>2, IdleOK DEF Returned, Idle
  <1> QED
    BY <1>1, <1>2, <1>3, <1>4, <1>5

LEMMA ReadsCall ==
  ASSUME IInv, IInv', NEW c \in Calls, RenewRead(c), call[c].op = "renew"
  PROVE  /\ CallMoved(c) /\ call[c].pc = "read" /\ UNCHANGED <<lic, now, failures>>
         /\ call'[c].pc = "write" /\ call'[c].op = "renew" /\ call'[c].id = call[c].id
         /\ call'[c].par = call[c].par
         /\ call'[c].job = call[c].job /\ call'[c].todo = call[c].todo
  <1>1. /\ call \in [Procs -> Call] /\ call' \in [Procs -> Call] /\ c \in Procs
        /\ call[c] \in Call
    BY DEF IInv, TypeOK, Procs
  <1> DEFINE k == call[c]
             s == IF k.op = "suspend" \/ (k.op = "renew" /\ k.par.expires = Keep)
                  THEN lic[k.id] ELSE NoRow
             w == [k EXCEPT !.pc = "write", !.seen = s]
  <1>2. k.pc = "read" /\ call' = [call EXCEPT ![c] = Loaded(k)] /\ UNCHANGED <<lic, now, failures>>
    BY DEF RenewRead
  <1>3. Loaded(k) = w
    BY DEF Loaded, Skips
  <1> HIDE DEF s
  <1>4. /\ w.pc = "write" /\ w.id = k.id /\ w.op = k.op /\ w.job = k.job /\ w.todo = k.todo
        /\ w.par = k.par
    BY <1>1 DEF Call
  <1> HIDE DEF w
  <1> QED
    BY <1>1, <1>2, <1>3, <1>4 DEF CallMoved

LEMMA InsertsCall ==
  ASSUME IInv, IInv', NEW c \in Calls, EmitInsert(c)
  PROVE  /\ CallMoved(c) /\ call[c].pc = "insert" /\ UNCHANGED <<now, failures>>
         /\ call[c].id \in Ids /\ lic[call[c].id].status = "absent"
         /\ \/ IndexRefuses(call[c].id) /\ call'[c] = Idle /\ UNCHANGED lic
            \/ /\ \A i \in Ids \ {call[c].id} : lic'[i] = lic[i]
               /\ lic'[call[c].id].status = "active"
               /\ lic'[call[c].id].expires = call[c].par.expires
               /\ call'[c].pc = "notify"
               /\ call'[c].job = call[c].job /\ call'[c].todo = call[c].todo
  <1>1. /\ call \in [Procs -> Call] /\ call' \in [Procs -> Call] /\ c \in Procs
        /\ call[c] \in Call /\ CallOK(call[c]) /\ lic \in [Ids -> Row] /\ call[c].id \in Ids
    BY Known DEF IInv, TypeOK, Procs, Call
  <1> DEFINE k == call[c]
             r == [status |-> "active", origin |-> k.par.origin,
                   expires |-> k.par.expires, grace |-> k.par.grace,
                   suspendedAt |-> FALSE]
  <1>2. /\ k.pc = "insert" /\ UNCHANGED <<now, failures>>
        /\ \/ IndexRefuses(k.id) /\ call' = [call EXCEPT ![c] = Idle] /\ UNCHANGED lic
           \/ /\ lic' = [lic EXCEPT ![k.id] = r]
              /\ call' = [call EXCEPT ![c] = Written(k)]
    BY DEF EmitInsert
  <1>3. Written(k).pc = "notify" /\ Written(k).job = k.job /\ Written(k).todo = k.todo
    BY <1>1 DEF Written, Call
  <1>4. r.status = "active" /\ r.expires = k.par.expires
    OBVIOUS
  <1> HIDE DEF r
  <1> QED
    BY <1>1, <1>2, <1>3, <1>4 DEF CallMoved, CallOK

\* What the UPDATE of each operation makes of a row.
LEMMA UpdatesTo ==
  ASSUME NEW k \in Call, NEW row \in Row
  PROVE  /\ k.op = "revoke" => Updated(k, row).status = "revoked"
         /\ k.op = "expireTrial" => Updated(k, row).status = "expired"
         /\ k.op \in {"suspend", "reactivate"} => /\ Updated(k, row).status \in LiveStatuses
                                                 /\ Updated(k, row).expires = row.expires
         /\ k.op = "renew" => /\ Updated(k, row).status = "active"
                              /\ Updated(k, row).expires = Expiry(k)
  <1>1. CASE k.op = "renew"
    <2> DEFINE e == Expiry(k)
    <2>1. Updated(k, row) = [row EXCEPT !.status = "active", !.suspendedAt = FALSE,
                                        !.expires = e, !.grace = k.par.grace]
      BY <1>1 DEF Updated
    <2> HIDE DEF e
    <2>2. Updated(k, row).status = "active" /\ Updated(k, row).expires = e
      BY <2>1 DEF Row
    <2> QED
      BY <1>1, <2>2 DEF e
  <1>2. CASE k.op = "revoke"
    <2>1. Updated(k, row) = [row EXCEPT !.status = "revoked"]
      BY <1>2 DEF Updated
    <2> QED
      BY <1>2, <2>1 DEF Row
  <1>3. CASE k.op = "suspend"
    <2>1. Updated(k, row) = [row EXCEPT !.status = "suspended", !.suspendedAt = TRUE]
      BY <1>3 DEF Updated
    <2> QED
      BY <1>3, <2>1 DEF Row, LiveStatuses
  <1>4. CASE k.op = "reactivate"
    <2>1. Updated(k, row) = [row EXCEPT !.status = "active", !.suspendedAt = FALSE]
      BY <1>4 DEF Updated
    <2> QED
      BY <1>4, <2>1 DEF Row, LiveStatuses
  <1>5. CASE k.op = "expireTrial"
    <2>1. Updated(k, row) = [row EXCEPT !.status = "expired", !.suspendedAt = TRUE]
      BY <1>5 DEF Updated
    <2> QED
      BY <1>5, <2>1 DEF Row
  <1> QED
    BY <1>1, <1>2, <1>3, <1>4, <1>5

LEMMA WritesCall ==
  ASSUME IInv, IInv', NEW c \in Procs, Write(c)
  PROVE  /\ CallMoved(c) /\ call[c].pc = "write" /\ UNCHANGED <<now, failures>>
         /\ call[c].id \in Ids /\ lic[call[c].id].status # "absent"
         /\ \/ /\ IndexRefuses(call[c].id) /\ call[c].op \notin {"revoke", "expireTrial"}
               /\ call'[c] = Idle /\ UNCHANGED lic
            \/ /\ \A i \in Ids \ {call[c].id} : lic'[i] = lic[i]
               /\ call[c].op = "revoke" => lic'[call[c].id].status = "revoked"
               /\ call[c].op = "expireTrial" => lic'[call[c].id].status = "expired"
               /\ call[c].op \in {"suspend", "reactivate"} =>
                    /\ ~ IndexRefuses(call[c].id)
                    /\ lic'[call[c].id].status \in LiveStatuses
                    /\ lic'[call[c].id].expires = lic[call[c].id].expires
               /\ call[c].op = "renew" => /\ lic'[call[c].id].status = "active"
                                          /\ lic'[call[c].id].expires = Expiry(call[c])
               /\ call'[c].pc = "notify" /\ call'[c].op = call[c].op
               /\ call'[c].job = call[c].job /\ call'[c].todo = call[c].todo
  <1> DEFINE k == call[c]
             r == Updated(k, lic[k.id])
  <1>1. /\ call \in [Procs -> Call] /\ call' \in [Procs -> Call]
        /\ k \in Call /\ CallOK(k) /\ lic \in [Ids -> Row] /\ k.id \in Ids /\ lic[k.id] \in Row
    BY Known DEF IInv, TypeOK, Call
  <1>2. /\ k.pc = "write" /\ UNCHANGED <<now, failures>>
        /\ \/ /\ r.status \in LiveStatuses /\ IndexRefuses(k.id)
              /\ call' = [call EXCEPT ![c] = Idle] /\ UNCHANGED lic
           \/ /\ r.status \in LiveStatuses => ~ IndexRefuses(k.id)
              /\ lic' = [lic EXCEPT ![k.id] = r]
              /\ call' = [call EXCEPT ![c] = Written(k)]
    BY DEF Write
  <1>3. /\ Written(k).pc = "notify" /\ Written(k).job = k.job /\ Written(k).todo = k.todo
        /\ Written(k).op = k.op
    BY <1>1 DEF Written, Call
  <1>4. /\ k.op = "revoke" => r.status = "revoked"
        /\ k.op = "expireTrial" => r.status = "expired"
        /\ k.op \in {"suspend", "reactivate"} => /\ r.status \in LiveStatuses
                                                /\ r.expires = lic[k.id].expires
        /\ k.op = "renew" => r.status = "active" /\ r.expires = Expiry(k)
    BY <1>1, UpdatesTo
  <1> HIDE DEF r
  <1>5. lic[k.id].status # "absent"
    BY <1>1, <1>2 DEF CallOK
  <1>6. CASE /\ r.status \in LiveStatuses /\ IndexRefuses(k.id)
             /\ call' = [call EXCEPT ![c] = Idle] /\ UNCHANGED lic
    BY <1>1, <1>2, <1>4, <1>5, <1>6 DEF CallMoved, LiveStatuses
  <1>7. CASE /\ r.status \in LiveStatuses => ~ IndexRefuses(k.id)
             /\ lic' = [lic EXCEPT ![k.id] = r]
             /\ call' = [call EXCEPT ![c] = Written(k)]
    <2>1. /\ CallMoved(c) /\ call'[c] = Written(k) /\ lic'[k.id] = r
          /\ \A i \in Ids \ {k.id} : lic'[i] = lic[i]
      BY <1>1, <1>7 DEF CallMoved
    <2> QED
      BY <1>1, <1>2, <1>3, <1>4, <1>5, <1>7, <2>1
  <1> QED
    BY <1>2, <1>6, <1>7

LEMMA NotifiesCall ==
  ASSUME IInv, IInv', NEW c \in Calls, Notify(c), call[c].job = "none", call[c].todo = {}
  PROVE  /\ CallMoved(c) /\ call[c].pc = "notify" /\ UNCHANGED <<lic, now, failures>>
         /\ call'[c] = Idle
  <1>1. call \in [Procs -> Call] /\ call' \in [Procs -> Call] /\ c \in Procs
    BY DEF IInv, TypeOK, Procs
  <1>2. Returned(call[c]) = Idle
    BY IdleOK DEF Returned, Idle
  <1> QED
    BY <1>1, <1>2 DEF Notify, CallMoved

LEMMA FailsCall ==
  ASSUME IInv, IInv', NEW c \in Procs, Fail(c)
  PROVE  /\ CallMoved(c) /\ UNCHANGED <<lic, now>> /\ failures' # 0
         /\ call'[c] = Idle
  BY DEF IInv, TypeOK, Procs, Fail, CallMoved

\* The steps of an expiry job: it starts with a list of active licences, goes through
\* it, and after the first list the hourly job makes the second.
LEMMA StartsSweep ==
  ASSUME IInv, IInv', NEW w \in Sweepers, NEW job \in {"hourlyLicenses", "daily"}, Sweep(w, job)
  PROVE  /\ CallMoved(w) /\ UNCHANGED <<lic, now, failures>>
         /\ call'[w].pc = "pick" /\ call'[w].job = job
         /\ \A i \in call'[w].todo : lic[i].status = "active"
  <1>1. call \in [Procs -> Call] /\ call' \in [Procs -> Call] /\ w \in Procs
    BY DEF IInv, TypeOK, Procs
  <1> DEFINE t == ExpiredAfterGrace
             k == [Idle EXCEPT !.pc = "pick", !.job = job, !.todo = t]
  <1>2. t \subseteq Ids /\ \A i \in t : lic[i].status = "active"
    BY DEF ExpiredAfterGrace
  <1>3. call' = [call EXCEPT ![w] = k] /\ UNCHANGED <<lic, now, failures>>
    BY DEF Sweep
  <1> HIDE DEF t
  <1>4. k.pc = "pick" /\ k.job = job /\ k.todo = t
    BY IdleOK DEF Call
  <1> HIDE DEF k
  <1> QED
    BY <1>1, <1>2, <1>3, <1>4 DEF CallMoved

LEMMA SweepPicks ==
  ASSUME IInv, IInv', NEW w \in Sweepers, SweepPick(w), call[w].job # "none"
  PROVE  /\ CallMoved(w) /\ call[w].pc = "pick" /\ UNCHANGED <<lic, now, failures>>
         /\ call'[w].job = call[w].job
         /\ \E i \in call[w].todo :
              /\ call'[w].todo = call[w].todo \ {i}
              /\ \/ call'[w].pc = "pick"
                 \/ /\ call'[w].pc = "write" /\ call'[w].id = i
                    /\ \/ call'[w].op = "suspend"
                       \/ call'[w].op = "expireTrial" /\ call[w].job = "hourlyTrials"
  <1>1. /\ call \in [Procs -> Call] /\ call' \in [Procs -> Call] /\ w \in Procs
        /\ call[w] \in Call /\ lic \in [Ids -> Row]
    BY DEF IInv, TypeOK, Procs
  <1> DEFINE o == IF call[w].job = "hourlyTrials" THEN "expireTrial" ELSE "suspend"
             k(i) == [call[w] EXCEPT !.op = o, !.id = i, !.todo = call[w].todo \ {i}]
  <1>2. PICK i \in call[w].todo : call' = [call EXCEPT ![w] = Loaded(k(i))]
    BY DEF SweepPick
  <1>3. call[w].pc = "pick" /\ UNCHANGED <<lic, now, failures>>
    BY DEF SweepPick
  <1>4. o \in {"suspend", "expireTrial"} /\ (o = "expireTrial" => call[w].job = "hourlyTrials")
    OBVIOUS
  <1> HIDE DEF o
  <1>5. i \in Ids
    BY <1>1 DEF Call
  <1>6. /\ k(i).op = o /\ k(i).id = i /\ k(i).todo = call[w].todo \ {i}
        /\ k(i).job = call[w].job /\ k(i) \in Call
    BY <1>1, <1>4, <1>5 DEF Call, Ops
  <1> DEFINE m == k(i)
  <1>7. /\ m.op = o /\ m.id = i /\ m.todo = call[w].todo \ {i} /\ m.job = call[w].job /\ m \in Call
        /\ call' = [call EXCEPT ![w] = Loaded(m)]
    BY <1>2, <1>6
  <1> HIDE DEF m
  <1>8. CASE Skips(m.op, lic[m.id])
    <2> DEFINE q == IF m.job = "none" THEN "idle" ELSE "pick"
    <2>1. Loaded(m) = [Idle EXCEPT !.pc = q, !.job = m.job, !.todo = m.todo]
      BY <1>8 DEF Loaded, Returned
    <2>2. q = "pick"
      BY <1>7
    <2> HIDE DEF q
    <2>3. Loaded(m).pc = "pick" /\ Loaded(m).job = m.job /\ Loaded(m).todo = m.todo
      BY <2>1, <2>2, IdleOK DEF Call
    <2> QED
      BY <1>1, <1>3, <1>7, <2>3 DEF CallMoved
  <1>9. CASE ~ Skips(m.op, lic[m.id])
    <2> DEFINE r == IF m.op = "suspend" \/ (m.op = "renew" /\ m.par.expires = Keep)
                    THEN lic[m.id] ELSE NoRow
    <2>1. Loaded(m) = [m EXCEPT !.pc = "write", !.seen = r]
      BY <1>9 DEF Loaded
    <2> HIDE DEF r
    <2>2. /\ Loaded(m).pc = "write" /\ Loaded(m).job = m.job /\ Loaded(m).todo = m.todo
          /\ Loaded(m).id = m.id /\ Loaded(m).op = m.op
      BY <1>7, <2>1 DEF Call
    <2>3. call'[w] = Loaded(m) /\ CallMoved(w)
      BY <1>1, <1>7 DEF CallMoved
    <2>4. /\ call'[w].todo = call[w].todo \ {i} /\ call'[w].job = call[w].job
          /\ call'[w].pc = "write" /\ call'[w].id = i /\ call'[w].op = o
      BY <1>7, <2>2, <2>3
    <2> QED
      BY <1>3, <1>4, <2>3, <2>4
  <1> QED
    BY <1>8, <1>9

LEMMA SweepsNext ==
  ASSUME IInv, IInv', NEW w \in Sweepers, SweepNext(w)
  PROVE  /\ CallMoved(w) /\ call[w].pc = "pick" /\ UNCHANGED <<lic, now, failures>>
         /\ \/ call'[w] = Idle
            \/ /\ call'[w].pc = "pick" /\ call'[w].job = "hourlyTrials"
               /\ call'[w].todo = ExpiredTrials
  <1>1. call \in [Procs -> Call] /\ call' \in [Procs -> Call] /\ w \in Procs
    BY DEF IInv, TypeOK, Procs
  <1> DEFINE t == ExpiredTrials
             k == [Idle EXCEPT !.pc = "pick", !.job = "hourlyTrials", !.todo = t]
  <1>2. /\ \/ call' = [call EXCEPT ![w] = k]
           \/ call' = [call EXCEPT ![w] = Idle]
        /\ call[w].pc = "pick" /\ UNCHANGED <<lic, now, failures>>
    BY DEF SweepNext
  <1> HIDE DEF t
  <1>3. k.pc = "pick" /\ k.job = "hourlyTrials" /\ k.todo = t
    BY IdleOK DEF Call
  <1> HIDE DEF k
  <1> QED
    BY <1>1, <1>2, <1>3 DEF CallMoved, t

\* After an operation the job goes on with its list.
LEMMA SweepNotifies ==
  ASSUME IInv, IInv', NEW w \in Sweepers, Notify(w), call[w].job # "none"
  PROVE  /\ CallMoved(w) /\ UNCHANGED <<lic, now, failures>>
         /\ call'[w].pc = "pick" /\ call'[w].job = call[w].job /\ call'[w].todo = call[w].todo
  <1>1. /\ call \in [Procs -> Call] /\ call' \in [Procs -> Call] /\ w \in Procs
        /\ call[w] \in Call
    BY DEF IInv, TypeOK, Procs
  <1> DEFINE k == call[w]
             q == IF k.job = "none" THEN "idle" ELSE "pick"
  <1>2. Returned(k) = [Idle EXCEPT !.pc = q, !.job = k.job, !.todo = k.todo] /\ q = "pick"
    BY DEF Returned
  <1> HIDE DEF q
  <1>3. Returned(k).pc = "pick" /\ Returned(k).job = k.job /\ Returned(k).todo = k.todo
    BY <1>2, IdleOK DEF Call
  <1>4. call' = [call EXCEPT ![w] = Returned(k)] /\ UNCHANGED <<lic, now, failures>>
    BY DEF Notify
  <1> QED
    BY <1>1, <1>3, <1>4 DEF CallMoved

-----------------------------------------------------------------------------
(* The parts of the invariant that a step can disturb only for the caller  *)
(* that takes it.                                                          *)

\* The calls of the others are where they were.
CallsKept(c) == \A d \in Procs \ {c} : call'[d] = call[d]

\* So are their operations.
Others(c) == /\ CallsKept(c)
             /\ \A d \in Calls \ {c} : op'[d] = op[d]

LEMMA SweepersApart == \A w \in Sweepers : w \in Procs /\ w \notin Calls
  BY LicensesAssumption DEF Procs

LEMMA SweepersKept ==
  ASSUME NEW c \in Calls, CallsKept(c)
  PROVE  \A w \in Sweepers : call'[w] = call[w]
  BY SweepersApart DEF CallsKept

LEMMA ShapeKept ==
  ASSUME ContractsTypeOK, Shape, NEW c \in Calls, Moved(c), CallsKept(c),
         \A i \in Ids : lic[i].status # "absent" => lic'[i].status # "absent",
         call'[c] # Idle => CalledOut(c)',
         OpOK(c)',
         \A d \in Calls \ {c} : op[d].pc \in {"insert", "update"} =>
           (sub'[op[d].sub].status = "absent" <=> sub[op[d].sub].status = "absent"),
         op'[c].pc = "insert" =>
           \A d \in Calls \ {c} : op[d].pc = "insert" => op[d].sub # op'[c].sub
  PROVE  Shape'
  <1>1. ASSUME NEW d \in Calls
        PROVE  OpOK(d)'
    <2>1. CASE d = c
      BY <2>1
    <2>2. CASE d # c
      <3>1. op'[d] = op[d] /\ OpOK(d) /\ op[d].id \in Ids
        BY <2>2 DEF Moved, Shape, ContractsTypeOK, Operation
      <3> QED
        BY <3>1, <2>2 DEF OpOK
    <2> QED
      BY <2>1, <2>2
  <1>2. ASSUME NEW d \in Calls, call'[d] # Idle
        PROVE  CalledOut(d)'
    <2>1. CASE d = c
      BY <1>2, <2>1
    <2>2. CASE d # c
      <3>1. call'[d] = call[d] /\ op'[d] = op[d]
        BY <2>2 DEF CallsKept, Moved, Procs
      <3>2. CalledOut(d)
        BY <1>2, <3>1 DEF Shape
      <3> QED
        BY <3>1, <3>2 DEF CalledOut
    <2> QED
      BY <2>1, <2>2
  <1>3. ASSUME NEW w \in Sweepers
        PROVE  SweepAt(w)'
    <2>1. call'[w] = call[w] /\ SweepAt(w)
      BY SweepersKept DEF Shape
    <2> QED
      BY <2>1 DEF SweepAt
  <1>4. ASSUME NEW d \in Calls, NEW e \in Calls, op'[d].pc = "insert", op'[e].pc = "insert",
               op'[d].sub = op'[e].sub
        PROVE  d = e
    BY <1>4 DEF Shape, Moved
  <1> QED
    BY <1>1, <1>2, <1>3, <1>4 DEF Shape

LEMMA SeenKept ==
  ASSUME SeenWithIt, NEW c \in Procs, Others(c),
         \A i \in Ids : lic[i].status # "revoked" /\ lic'[i].status = "revoked" =>
           \A d \in Procs \ {c} : InHand(d, i) => d \in held',
         \A d \in Procs \ {c} : d \in held => d \in held',
         \A i \in Ids : InHand(c, i)' /\ lic'[i].status = "revoked" /\ ~ Commands(c)' => c \in held'
  PROVE  SeenWithIt'
  <1> SUFFICES ASSUME NEW d \in Procs, NEW i \in Ids, InHand(d, i)', lic'[i].status = "revoked",
                      ~ Commands(d)', d # c
               PROVE  d \in held'
    BY DEF SeenWithIt
  <1>1. call'[d] = call[d] /\ (d \in Calls => op'[d] = op[d])
    BY DEF Others, CallsKept
  <1>2. InHand(d, i) /\ ~ Commands(d)
    BY <1>1 DEF InHand, Commands
  <1> QED
    BY <1>2 DEF SeenWithIt

\* Who is at no licence has none in hand.
LEMMA IdleHand ==
  ASSUME NEW c \in Procs, call[c].pc \notin {"read", "write"}, call[c].todo = {},
         c \in Calls => op[c].pc # "found"
  PROVE  \A i \in Ids : ~ InHand(c, i)
  BY DEF InHand

LEMMA SingleKept ==
  ASSUME Single, NEW c \in Calls, Moved(c), op'[c].pc # "insert",
         \A s \in Subs : InForceSub(s)' => InForceSub(s)
  PROVE  Single'
  <1>1. \A d \in Calls : op'[d].pc = "insert" => op'[d] = op[d] /\ d # c
    BY DEF Moved
  <1>2. ASSUME NEW d \in Calls, op'[d].pc = "insert"
        PROVE  /\ \A s \in Subs : InForceSub(s)' => PairOfSub[s] # Pair(d)'
               /\ \A e \in Calls : op'[e].pc = "insert" => d = e
    <2>1. op'[d] = op[d]
      BY <1>1, <1>2
    <2>2. Pair(d)' = Pair(d)
      BY <2>1 DEF Pair
    <2> QED
      BY <1>1, <1>2, <2>1, <2>2 DEF Single
  <1>3. ASSUME NEW s \in Subs, NEW t \in Subs, InForceSub(s)', InForceSub(t)',
               PairOfSub[s] = PairOfSub[t]
        PROVE  s = t
    BY <1>3 DEF Single
  <1> QED
    BY <1>2, <1>3 DEF Single

LEMMA AloneKept ==
  ASSUME Alone, NEW c \in Calls, Moved(c), CallsKept(c), op'[c].kind \in {op[c].kind, "none"}
  PROVE  Alone'
  <1>1. \A w \in Sweepers : call'[w] = call[w]
    BY SweepersKept
  <1>2. Paying' \subseteq Paying /\ Touching' \subseteq Touching
    BY DEF Paying, Touching, Touches, Moved
  <1> QED
    BY <1>1, <1>2 DEF Alone

-----------------------------------------------------------------------------
(* The steps, and what holds whatever overlapped.                          *)

\* The look-up with which an operation begins.
LEMMA BeginsFrame ==
  ASSUME Frame, NEW c \in Calls, NEW s \in Subs, NEW kind \in Kinds,
         NEW pc \in {"insert", "update"}, NEW until \in Dates, Begins(c, kind, pc, s, until),
         UNCHANGED <<vars, sub, held, loose>>, beside' \in BOOLEAN, ~ beside' => ~ beside,
         pc = "insert" =>
           /\ kind \in {"create", "trial"} /\ sub[s].status = "absent"
           /\ \A d \in Calls : op[d].pc = "insert" => op[d].sub # s
           /\ InForce(PairOfSub[s]) = {}
           /\ ~ beside' => \A d \in Calls : op[d].pc # "insert",
         pc = "update" =>
           /\ kind \in {"activate", "overdue", "plan", "cancel", "cancelNow"}
           /\ kind = "activate" => until \in Nat
           /\ sub[s].status # "absent"
  PROVE  Frame'
  <1>1. /\ Moved(c) /\ op[c].pc = "idle" /\ op[c].kind = "none"
        /\ op'[c].pc = pc /\ op'[c].kind = kind /\ op'[c].sub = s /\ op'[c].until = until
        /\ begun' \in Nat /\ crossed' \in BOOLEAN
        /\ ~ crossed' => /\ ~ crossed
                         /\ kind = "activate" =>
                              Touching = {} /\ \A w \in Sweepers : call[w] = Idle
                         /\ kind \in Touches => Paying = {}
    BY BeginsOp DEF Frame
  <1>2. lic' = lic /\ call' = call /\ sub' = sub /\ held' = held /\ loose' = loose
    BY DEF vars
  <1>3. CallsKept(c) /\ c \in Procs /\ Others(c)
    BY <1>1, <1>2 DEF CallsKept, Others, Moved, Procs
  <1>4. call[c] = Idle
    BY <1>1, <1>3 DEF Frame, Shape, CalledOut
  <1>5. IInv'
    BY StutterStep DEF Frame
  <1>6. ContractsTypeOK'
    BY <1>1, <1>2 DEF Frame, ContractsTypeOK, Moved
  <1>7. Shape'
    <2>1. OpOK(c)'
      BY <1>1, <1>2 DEF OpOK
    <2> QED
      BY <1>1, <1>2, <1>3, <1>4, <2>1, ShapeKept DEF Frame
  <1>8. SeenWithIt'
    <2>1. call'[c].pc = "idle" /\ call'[c].todo = {} /\ op'[c].pc # "found"
      BY <1>1, <1>2, <1>4, IdleOK
    <2>2. \A i \in Ids : ~ InHand(c, i)'
      BY <2>1 DEF InHand
    <2> QED
      BY <1>2, <1>3, <2>2, SeenKept DEF Frame
  <1>9. ASSUME ~ beside'
        PROVE  Single'
    <2>1. Single /\ \A t \in Subs : InForceSub(t)' <=> InForceSub(t)
      BY <1>2, <1>9 DEF Frame, InForceSub
    <2>2. CASE pc = "update"
      BY <1>1, <2>1, <2>2, SingleKept
    <2>3. CASE pc = "insert"
      <3>1. \A d \in Calls : op'[d].pc = "insert" => d = c
        BY <1>1, <1>9, <2>3 DEF Moved
      <3>2. Pair(c)' = PairOfSub[s]
        BY <1>1 DEF Pair
      <3>3. \A t \in Subs : InForceSub(t) => PairOfSub[t] # PairOfSub[s]
        BY <2>3 DEF InForceSub, InForce
      <3> QED
        BY <2>1, <3>1, <3>2, <3>3 DEF Single
    <2> QED
      BY <2>2, <2>3
  <1>10. ASSUME ~ crossed'
         PROVE  Alone'
    <2>1. Alone /\ \A w \in Sweepers : call'[w] = call[w]
      BY <1>1, <1>2, <1>10 DEF Frame
    <2>2. \A d \in Calls \ {c} : op'[d] = op[d]
      BY <1>1 DEF Moved
    <2>3. CASE kind = "activate"
      BY <1>1, <1>10, <2>1, <2>2, <2>3 DEF Alone, Paying, Touching, Touches
    <2>4. CASE kind # "activate" /\ kind \in Touches
      <3>1. Paying' = {}
        BY <1>1, <1>10, <2>2, <2>4 DEF Paying
      <3> QED
        BY <3>1 DEF Alone
    <2>5. CASE kind # "activate" /\ kind \notin Touches
      <3>1. Paying' \subseteq Paying /\ Touching' \subseteq Touching
        BY <1>1, <2>2, <2>5 DEF Paying, Touching
      <3> QED
        BY <2>1, <3>1 DEF Alone
    <2> QED
      BY <2>3, <2>4, <2>5
  <1> QED
    BY <1>5, <1>6, <1>7, <1>8, <1>9, <1>10 DEF Frame

LEMMA Inserts ==
  ASSUME Frame, NEW c \in Calls, Insert(c)
  PROVE  /\ op[c].pc = "insert" /\ op[c].sub \in Subs /\ sub[op[c].sub].status = "absent"
         /\ op[c].kind \in {"create", "trial"}
         /\ lic' = lic /\ call' = call /\ held' = held /\ loose' = loose /\ begun' = begun
         /\ beside' = beside /\ crossed' = crossed /\ failures' = failures /\ now' = now
         /\ sub' \in [Subs -> SubRow] /\ sub'[op[c].sub].status \in {"trialing", "pending"}
         /\ \A t \in Subs \ {op[c].sub} : sub'[t] = sub[t]
         /\ Moved(c)
         /\ \/ op'[c].pc = "idle" /\ op'[c].kind = "none"
            \/ /\ op[c].kind = "trial" /\ op'[c].kind = "trial" /\ op'[c].pc = "emit"
               /\ op'[c].sub = op[c].sub /\ op'[c].until \in Nat
  <1> DEFINE s == op[c].sub
             v == IF op[c].kind = "trial" THEN "trialing" ELSE "pending"
  <1>1. /\ op[c].pc = "insert" /\ c \in Procs /\ op[c] \in Operation
        /\ s \in Subs /\ op[c].kind \in {"create", "trial"} /\ sub[s].status = "absent"
    BY DEF Insert, Frame, Shape, OpOK, ContractsTypeOK, Procs
  <1>2. /\ lic' = lic /\ call' = call /\ held' = held /\ loose' = loose /\ begun' = begun
        /\ beside' = beside /\ crossed' = crossed /\ failures' = failures /\ now' = now
        /\ sub' = [sub EXCEPT ![s].status = v]
    BY DEF Insert, vars
  <1>3. v \in {"trialing", "pending"}
    OBVIOUS
  <1> HIDE DEF v
  <1>4. /\ sub' \in [Subs -> SubRow] /\ sub'[s].status = v
        /\ \A t \in Subs \ {s} : sub'[t] = sub[t]
    BY <1>1, <1>2, <1>3 DEF Frame, ContractsTypeOK, SubRow, SubStatuses
  <1>5. /\ Moved(c)
        /\ \/ op'[c].pc = "idle" /\ op'[c].kind = "none"
           \/ /\ op[c].kind = "trial" /\ op'[c].kind = "trial" /\ op'[c].pc = "emit"
              /\ op'[c].sub = s /\ op'[c].until \in Nat
    <2>1. CASE op[c].kind = "trial"
      <3> DEFINE u == now + Trial
                 o == [op[c] EXCEPT !.pc = "emit", !.until = u]
      <3>1. u \in Nat /\ u \in Dates
        BY ContractsAssumption, Known DEF Frame, Dates
      <3>2. op' = [op EXCEPT ![c] = o]
        BY <2>1, <1>1 DEF Insert, Frame, ContractsTypeOK
      <3> HIDE DEF u
      <3>3. /\ o \in Operation /\ o.pc = "emit" /\ o.kind = op[c].kind /\ o.sub = s
            /\ o.until = u
        BY <1>1, <3>1 DEF Operation
      <3> HIDE DEF o
      <3>4. Moved(c) /\ op'[c] = o
        BY <3>2, <3>3, MovedTo DEF Frame
      <3> QED
        BY <2>1, <3>1, <3>3, <3>4
    <2>2. CASE op[c].kind # "trial"
      BY <2>2, EndsOp DEF Insert, Frame
    <2> QED
      BY <2>1, <2>2
  <1> QED
    BY <1>1, <1>2, <1>3, <1>4, <1>5

\* The INSERT of a subscription.
LEMMA InsertFrame ==
  ASSUME Frame, NEW c \in Calls, Insert(c)
  PROVE  Frame'
  <1> DEFINE s == op[c].sub
  <1>1. /\ op[c].pc = "insert" /\ s \in Subs /\ sub[s].status = "absent"
        /\ lic' = lic /\ call' = call /\ held' = held /\ loose' = loose /\ begun' = begun
        /\ beside' = beside /\ crossed' = crossed
        /\ sub' \in [Subs -> SubRow] /\ sub'[s].status \in {"trialing", "pending"}
        /\ \A t \in Subs \ {s} : sub'[t] = sub[t]
        /\ Moved(c)
        /\ \/ op'[c].pc = "idle" /\ op'[c].kind = "none"
           \/ /\ op[c].kind = "trial" /\ op'[c].kind = "trial" /\ op'[c].pc = "emit"
              /\ op'[c].sub = s /\ op'[c].until \in Nat
    BY Inserts
  <1>2. CallsKept(c)
    BY <1>1 DEF CallsKept
  <1>3. call[c] = Idle
    BY <1>1 DEF Frame, Shape, CalledOut, Procs
  <1>4. IInv'
    BY StutterStep DEF Frame, Insert
  <1>5. ContractsTypeOK'
    BY <1>1 DEF Frame, ContractsTypeOK, Moved
  <1>6. Shape'
    <2>1. OpOK(c)'
      BY <1>1 DEF OpOK
    <2>2. \A d \in Calls \ {c} : op[d].pc \in {"insert", "update"} =>
            op[d].sub \in Subs /\ op[d].sub # s
      BY <1>1 DEF Frame, Shape, OpOK
    <2>3. \A d \in Calls \ {c} : op[d].pc \in {"insert", "update"} =>
            sub'[op[d].sub] = sub[op[d].sub]
      BY <1>1, <2>2
    <2> HIDE DEF s
    <2> QED
      BY <1>1, <1>2, <1>3, <2>1, <2>3, ShapeKept DEF Frame
  <1>7. SeenWithIt'
    <2>1. \A i \in Ids : ~ InHand(c, i)'
      BY <1>1, <1>3, IdleOK DEF InHand
    <2>2. Others(c) /\ c \in Procs
      BY <1>1, <1>1, <1>3 DEF Others, CallsKept, Moved, Procs
    <2> QED
      BY <1>1, <1>2, <2>1, <2>2, SeenKept DEF Frame
  <1>8. ASSUME ~ beside'
         PROVE  Single'
    <2>1. Single
      BY <1>1, <1>8 DEF Frame
    <2>2. \A t \in Subs : InForceSub(t)' <=> InForceSub(t) \/ t = s
      BY <1>1 DEF InForceSub
    <2>3. \A t \in Subs : InForceSub(t) => PairOfSub[t] # PairOfSub[s]
      BY <1>1, <2>1 DEF Single, Pair
    <2>4. \A d \in Calls : op'[d].pc # "insert"
      BY <1>1, <2>1 DEF Single, Moved
    <2> QED
      BY <2>1, <2>2, <2>3, <2>4 DEF Single
  <1>9. ASSUME ~ crossed'
         PROVE  Alone'
    BY <1>1, <1>2, <1>9, AloneKept DEF Frame
  <1> QED
    BY <1>4, <1>5, <1>6, <1>7, <1>8, <1>9 DEF Frame

LEMMA Updates ==
  ASSUME Frame, NEW c \in Calls, Update(c)
  PROVE  /\ op[c].pc = "update" /\ op[c].sub \in Subs /\ sub[op[c].sub].status # "absent"
         /\ lic' = lic /\ call' = call /\ held' = held /\ begun' = begun /\ crossed' = crossed
         /\ now' = now /\ failures' = failures
         /\ loose' = IF op[c].kind = "activate" THEN loose \ {Pair(c)} ELSE loose
         /\ sub' \in [Subs -> SubRow] /\ \A t \in Subs \ {op[c].sub} : sub'[t] = sub[t]
         /\ beside' \in BOOLEAN
         /\ ~ beside' => /\ ~ beside
                         /\ sub[op[c].sub].status = "canceled" => sub'[op[c].sub].status = "canceled"
         /\ Moved(c)
         /\ \/ /\ op[c].kind = "activate"
               /\ op[c].until \in Nat
               /\ sub'[op[c].sub].status = "active" /\ sub'[op[c].sub].until = op[c].until
               /\ op'[c].pc = "emit" /\ op'[c].kind = "activate" /\ op'[c].sub = op[c].sub
               /\ op'[c].until = op[c].until
            \/ /\ op[c].kind \in {"overdue", "cancel"}
               /\ sub'[op[c].sub].status \in {"overdue", "canceled"}
               /\ op'[c].pc = "idle" /\ op'[c].kind = "none"
            \/ /\ op[c].kind = "cancelNow"
               /\ sub'[op[c].sub].status = "canceled"
               /\ op'[c].pc = "licence" /\ op'[c].kind = "cancelNow" /\ op'[c].sub = op[c].sub
            \/ /\ op[c].kind = "plan"
               /\ sub' = sub
               /\ op'[c].pc = "licence" /\ op'[c].kind = "plan" /\ op'[c].sub = op[c].sub
  <1> DEFINE s == op[c].sub
  <1>1. /\ op[c].pc = "update" /\ c \in Procs /\ op[c] \in Operation
        /\ op[c].kind \in {"activate", "overdue", "plan", "cancel", "cancelNow"}
        /\ op[c].kind = "activate" => op[c].until \in Nat
        /\ s \in Subs /\ sub[s].status # "absent"
    BY DEF Update, Frame, Shape, OpOK, ContractsTypeOK, Procs
  <1>2. /\ lic' = lic /\ call' = call /\ held' = held /\ begun' = begun /\ crossed' = crossed
        /\ now' = now /\ failures' = failures
        /\ loose' = IF op[c].kind = "activate" THEN loose \ {Pair(c)} ELSE loose
    BY DEF Update, vars
  <1>3. sub \in [Subs -> SubRow] /\ ContractsTypeOK
    BY DEF Frame, ContractsTypeOK
  <1>4. beside' = (beside \/ (sub[s].status = "canceled" /\ sub'[s].status # "canceled"))
    BY DEF Update
  <1>5. beside' \in BOOLEAN
    BY <1>3, <1>4 DEF ContractsTypeOK
  <1>6. CASE op[c].kind = "activate"
    <2> DEFINE r == [status |-> "active", until |-> op[c].until]
    <2>1. sub' = [sub EXCEPT ![s] = r] /\ Goes(c, "emit")
      BY <1>6 DEF Update
    <2>2. r \in SubRow /\ r.status = "active" /\ r.until = op[c].until
      BY <1>1 DEF SubRow, SubStatuses, Operation
    <2> HIDE DEF r
    <2>3. /\ sub' \in [Subs -> SubRow] /\ sub'[s] = r
          /\ \A t \in Subs \ {s} : sub'[t] = sub[t]
      BY <1>1, <1>3, <2>1, <2>2
    <2>4. /\ Moved(c) /\ op'[c].pc = "emit" /\ op'[c].kind = "activate" /\ op'[c].sub = s
          /\ op'[c].until = op[c].until
      BY <1>3, <1>6, <2>1, GoesOp
    <2> QED
      BY <1>1, <1>2, <1>4, <1>5, <1>6, <2>2, <2>3, <2>4
  <1>7. CASE op[c].kind \in {"overdue", "cancel", "cancelNow"}
    <2> DEFINE v == IF op[c].kind = "overdue" THEN "overdue" ELSE "canceled"
               r == [sub[s] EXCEPT !.status = v]
    <2>1. sub' = [sub EXCEPT ![s] = r]
      BY <1>1, <1>3, <1>7 DEF Update
    <2>2. r \in SubRow /\ r.status = v
      BY <1>1, <1>3 DEF SubRow, SubStatuses
    <2> HIDE DEF r
    <2>3. /\ sub' \in [Subs -> SubRow] /\ sub'[s] = r
          /\ \A t \in Subs \ {s} : sub'[t] = sub[t]
      BY <1>1, <1>3, <2>1, <2>2
    <2>4. CASE op[c].kind = "cancelNow"
      <3>1. Goes(c, "licence")
        BY <2>4 DEF Update
      <3>2. Moved(c) /\ op'[c].pc = "licence" /\ op'[c].kind = "cancelNow" /\ op'[c].sub = s
        BY <1>3, <2>4, <3>1, GoesOp
      <3> QED
        BY <1>1, <1>2, <1>4, <1>5, <2>2, <2>3, <2>4, <3>2
    <2>5. CASE op[c].kind # "cancelNow"
      <3>1. Ends(c)
        BY <1>7, <2>5 DEF Update
      <3>2. Moved(c) /\ op'[c].pc = "idle" /\ op'[c].kind = "none"
        BY <1>3, <3>1, EndsOp
      <3> QED
        BY <1>1, <1>2, <1>4, <1>5, <1>7, <2>2, <2>3, <2>5, <3>2
    <2> QED
      BY <2>4, <2>5
  <1>8. CASE op[c].kind = "plan"
    <2>1. sub' = sub /\ Goes(c, "licence")
      BY <1>8 DEF Update
    <2>2. Moved(c) /\ op'[c].pc = "licence" /\ op'[c].kind = "plan" /\ op'[c].sub = s
      BY <1>3, <1>8, <2>1, GoesOp
    <2> QED
      BY <1>1, <1>2, <1>3, <1>4, <1>5, <1>8, <2>1, <2>2
  <1> QED
    BY <1>1, <1>6, <1>7, <1>8

\* The UPDATE of a subscription.
LEMMA UpdateFrame ==
  ASSUME Frame, NEW c \in Calls, Update(c)
  PROVE  Frame'
  <1> DEFINE s == op[c].sub
  <1>1. /\ op[c].pc = "update" /\ s \in Subs /\ sub[s].status # "absent"
        /\ lic' = lic /\ call' = call /\ held' = held /\ begun' = begun /\ crossed' = crossed
        /\ loose' \subseteq loose
        /\ sub' \in [Subs -> SubRow] /\ \A t \in Subs \ {s} : sub'[t] = sub[t]
        /\ beside' \in BOOLEAN
        /\ ~ beside' => /\ ~ beside
                        /\ sub[s].status = "canceled" => sub'[s].status = "canceled"
        /\ Moved(c)
    BY Updates
  <1>2. /\ sub'[s].status # "absent"
        /\ op'[c].kind \in {op[c].kind, "none"}
        /\ op'[c].pc \in {"emit", "licence", "idle"}
        /\ op'[c].pc = "idle" => op'[c].kind = "none"
        /\ op'[c].pc = "emit" => op'[c].kind = "activate" /\ op'[c].until \in Nat /\ op'[c].sub = s
        /\ op'[c].pc = "licence" => op'[c].kind \in {"plan", "cancelNow"} /\ op'[c].sub = s
    BY <1>1, Updates
  <1> HIDE DEF s
  <1>3. CallsKept(c) /\ c \in Procs /\ call[c] = Idle
    BY <1>1 DEF CallsKept, Procs, Frame, Shape, CalledOut
  <1>4. IInv'
    BY StutterStep DEF Frame, Update
  <1>5. ContractsTypeOK'
    BY <1>1 DEF Frame, ContractsTypeOK, Moved
  <1>6. Shape'
    <2>1. OpOK(c)'
      BY <1>1, <1>2 DEF OpOK
    <2>2. \A d \in Calls \ {c} : op[d].pc \in {"insert", "update"} => op[d].sub \in Subs
      BY DEF Frame, Shape, OpOK
    <2>3. \A t \in Subs : sub'[t].status = "absent" <=> sub[t].status = "absent"
      BY <1>1, <1>2
    <2> QED
      BY <1>1, <1>2, <1>3, <2>1, <2>2, <2>3, ShapeKept DEF Frame
  <1>7. SeenWithIt'
    <2>1. \A i \in Ids : ~ InHand(c, i)'
      BY <1>1, <1>2, <1>3, IdleOK DEF InHand
    <2>2. Others(c) /\ c \in Procs
      BY <1>1, <1>1, <1>2, <1>3 DEF Others, CallsKept, Moved, Procs
    <2> QED
      BY <1>1, <1>3, <2>1, <2>2, SeenKept DEF Frame
  <1>8. ASSUME ~ beside'
        PROVE  Single'
    <2>1. \A t \in Subs : InForceSub(t)' => InForceSub(t)
      BY <1>1, <1>8 DEF InForceSub
    <2> QED
      BY <1>1, <1>2, <1>8, <2>1, SingleKept DEF Frame
  <1>9. ASSUME ~ crossed'
        PROVE  Alone'
    BY <1>1, <1>2, <1>3, <1>9, AloneKept DEF Frame
  <1> QED
    BY <1>4, <1>5, <1>6, <1>7, <1>8, <1>9 DEF Frame

\* What a payment or a trial asks emit for has an expiry.
LEMMA PromisedOK ==
  ASSUME NEW c \in Calls, op[c].until \in Nat, op[c].kind \in {"trial", "activate"}
  PROVE  /\ Promised(c) \in Params /\ Promised(c).expires \in Nat
         /\ Promised(c).expires # Keep
         /\ CountedFrom(Promised(c).expires, Promised(c).grace)
         /\ op[c].kind = "activate" => Promised(c).expires = op[c].until + Slack
  <1>1. DefaultGrace \in Nat /\ Slack \in Nat /\ DefaultGrace \in GraceDays
    BY LicensesAssumption, ContractsAssumption DEF GraceDays
  <1> DEFINE e == IF op[c].kind = "trial" THEN op[c].until ELSE op[c].until + Slack
             o == IF op[c].kind = "trial" THEN "trial" ELSE "subscription"
  <1>2. e \in Nat /\ o \in Origins
    BY <1>1 DEF Origins
  <1>3. Promised(c) = Asked(o, e, DefaultGrace)
    BY DEF Promised
  <1>4. op[c].kind = "activate" => e = op[c].until + Slack
    OBVIOUS
  <1> HIDE DEF e, o
  <1>5. Promised(c) = [origin |-> o, expires |-> e, grace |-> e + DefaultGrace]
    BY <1>2, <1>3 DEF Asked, NoDate, Keep
  <1>6. e + DefaultGrace \in Nat /\ (e + DefaultGrace) - e = DefaultGrace /\ e # Keep
    BY <1>1, <1>2 DEF Keep
  <1> QED
    BY <1>1, <1>2, <1>4, <1>5, <1>6 DEF Params, Dates, CountedFrom

LEMMA Emits ==
  ASSUME Frame, NEW c \in Calls, Emit(c)
  PROVE  /\ IInv'
         /\ op[c].pc = "emit" /\ op[c].kind \in {"trial", "activate"} /\ Pair(c) \in Pairs
         /\ op[c].until \in Nat
         /\ begun' = begun /\ sub' = sub /\ held' = held /\ loose' = loose /\ beside' = beside /\ crossed' = crossed
         /\ Moved(c) /\ op'[c].pc = "called" /\ op'[c].kind = op[c].kind
         /\ CallMoved(c) /\ call[c] = Idle /\ UNCHANGED <<lic, now, failures>>
         /\ call'[c].id \in Ids /\ PairOf[call'[c].id] = Pair(c)
         /\ call'[c].job = "none" /\ call'[c].todo = {}
         /\ call'[c].par.expires # Keep
         /\ op[c].kind = "activate" => call'[c].par.expires = op[c].until + Slack
         /\ \/ call'[c].pc = "read" /\ call'[c].op = "renew"
               /\ lic[call'[c].id].status \in LiveStatuses
            \/ call'[c].pc = "insert" /\ call'[c].op = "emit" /\ Live(Pair(c)) = {}
  <1>1. /\ op[c].pc = "emit" /\ op[c].kind \in {"trial", "activate"} /\ op[c].sub \in Subs
        /\ op[c].until \in Nat
    BY DEF Emit, Frame, Shape, OpOK
  <1>2. Pair(c) \in Pairs
    BY <1>1, ContractsAssumption DEF Pair
  <1>3. /\ Promised(c) \in Params /\ Promised(c).expires \in Nat
        /\ Promised(c).expires # Keep
        /\ CountedFrom(Promised(c).expires, Promised(c).grace)
        /\ op[c].kind = "activate" => Promised(c).expires = op[c].until + Slack
    BY <1>1, PromisedOK
  <1>4. IInv /\ EmitFind(c, Pair(c), Promised(c))
    BY DEF Emit, Frame
  <1>5. IInv'
    BY <1>3, <1>4, EmitFindStep
  <1>6. /\ CallMoved(c) /\ call[c] = Idle /\ UNCHANGED <<lic, now, failures>>
        /\ call'[c].id \in Ids /\ PairOf[call'[c].id] = Pair(c)
        /\ call'[c].job = "none" /\ call'[c].todo = {}
        /\ call'[c].par.expires = Promised(c).expires
        /\ \/ call'[c].pc = "read" /\ call'[c].op = "renew"
              /\ lic[call'[c].id].status \in LiveStatuses
           \/ call'[c].pc = "insert" /\ call'[c].op = "emit" /\ Live(Pair(c)) = {}
    BY <1>2, <1>3, <1>4, <1>5, FindsCall
  <1>7. /\ begun' = begun /\ sub' = sub /\ held' = held /\ loose' = loose /\ beside' = beside /\ crossed' = crossed
        /\ CallsOn(c)
    BY DEF Emit
  <1>8. Moved(c) /\ op'[c].pc = "called" /\ op'[c].kind = op[c].kind
    BY <1>7, CallsOnOp DEF Frame
  <1> QED
    BY <1>1, <1>2, <1>3, <1>5, <1>6, <1>7, <1>8

\* The SELECT of emit.
LEMMA EmitFrame ==
  ASSUME Frame, NEW c \in Calls, Emit(c)
  PROVE  Frame'
  <1>1. /\ IInv'
        /\ op[c].pc = "emit" /\ op[c].kind \in {"trial", "activate"}
        /\ begun' = begun /\ sub' = sub /\ held' = held /\ loose' = loose /\ beside' = beside /\ crossed' = crossed
        /\ Moved(c) /\ op'[c].pc = "called" /\ op'[c].kind = op[c].kind
        /\ CallMoved(c) /\ lic' = lic
        /\ call'[c].job = "none" /\ call'[c].todo = {}
        /\ call'[c].par.expires # Keep
        /\ \/ call'[c].pc = "read" /\ call'[c].op = "renew"
              /\ lic[call'[c].id].status \in LiveStatuses
           \/ call'[c].pc = "insert" /\ call'[c].op = "emit"
    BY Emits
  <1>2. CallsKept(c)
    BY <1>1 DEF CallsKept, CallMoved
  <1>3. ContractsTypeOK'
    BY <1>1 DEF Frame, ContractsTypeOK, Moved
  <1>4. Shape'
    <2>1. OpOK(c)'
      BY <1>1 DEF OpOK, Touches
    <2>2. CalledOut(c)'
      BY <1>1 DEF CalledOut
    <2> QED
      BY <1>1, <1>2, <2>1, <2>2, ShapeKept DEF Frame
  <1>5. SeenWithIt'
    <2>1. \A i \in Ids : InHand(c, i)' => lic'[i].status # "revoked"
      BY <1>1 DEF InHand, LiveStatuses
    <2>2. Others(c) /\ c \in Procs
      BY <1>1, <1>2 DEF Others, Moved, Procs
    <2> QED
      BY <1>1, <1>2, <2>1, <2>2, SeenKept DEF Frame
  <1>6. ASSUME ~ beside'
        PROVE  Single'
    <2>1. \A t \in Subs : InForceSub(t)' => InForceSub(t)
      BY <1>1 DEF InForceSub
    <2> QED
      BY <1>1, <1>6, <2>1, SingleKept DEF Frame
  <1>7. ASSUME ~ crossed'
        PROVE  Alone'
    BY <1>1, <1>2, <1>7, AloneKept DEF Frame
  <1> QED
    BY <1>1, <1>3, <1>4, <1>5, <1>6, <1>7 DEF Frame

\* A step that touches neither the rows nor the licences, and with which c neither
\* begins an operation nor gets another licence in hand.
LEMMA QuietFrame ==
  ASSUME Frame, NEW c \in Calls, IInv', Moved(c), CallsKept(c),
         lic' = lic, sub' = sub, UNCHANGED <<loose, beside, crossed>>,
         begun' = begun, held' \subseteq Procs,
         op'[c].pc # "insert", op'[c].kind \in {op[c].kind, "none"},
         OpOK(c)', call'[c] # Idle => CalledOut(c)',
         \A d \in Procs \ {c} : d \in held => d \in held',
         \A i \in Ids : InHand(c, i)' /\ lic'[i].status = "revoked" /\ ~ Commands(c)' => c \in held'
  PROVE  Frame'
  <1>1. ContractsTypeOK'
    BY DEF Frame, ContractsTypeOK, Moved
  <1>2. Shape'
    BY ShapeKept DEF Frame
  <1>3. SeenWithIt'
    <2>1. Others(c) /\ c \in Procs
      BY DEF Others, Moved, Procs
    <2> QED
      BY <2>1, SeenKept DEF Frame
  <1>4. ASSUME ~ beside'
        PROVE  Single'
    <2>1. \A t \in Subs : InForceSub(t)' => InForceSub(t)
      BY DEF InForceSub
    <2> QED
      BY <1>4, <2>1, SingleKept DEF Frame
  <1>5. ASSUME ~ crossed'
        PROVE  Alone'
    BY <1>5, AloneKept DEF Frame
  <1> QED
    BY <1>1, <1>2, <1>3, <1>4, <1>5 DEF Frame

LEMMA FindsLicence ==
  ASSUME Frame, NEW c \in Calls, FindLicence(c)
  PROVE  /\ op[c].pc = "licence" /\ op[c].kind \in {"plan", "cancelNow"} /\ op[c].sub \in Subs
         /\ UNCHANGED <<begun, vars, sub, held, loose, beside, crossed>>
         /\ Moved(c)
         /\ \/ op'[c].pc = "idle" /\ op'[c].kind = "none"
            \/ /\ op'[c].pc = "found" /\ op'[c].kind = op[c].kind
               /\ op'[c].id \in Live(Pair(c))
  <1>1. /\ op[c].pc = "licence" /\ op[c].kind \in {"plan", "cancelNow"} /\ op[c].sub \in Subs
        /\ op[c] \in Operation
        /\ UNCHANGED <<begun, vars, sub, held, loose, beside, crossed>>
    BY DEF FindLicence, Frame, Shape, OpOK, ContractsTypeOK
  <1>2. CASE Ends(c)
    BY <1>1, <1>2, EndsOp DEF Frame
  <1>3. ASSUME NEW i \in Live(Pair(c)),
               op' = [op EXCEPT ![c] = [NoOp EXCEPT !.pc = "found", !.kind = op[c].kind, !.id = i]]
        PROVE  Moved(c) /\ op'[c].pc = "found" /\ op'[c].kind = op[c].kind /\ op'[c].id = i
    <2> DEFINE o == [NoOp EXCEPT !.pc = "found", !.kind = op[c].kind, !.id = i]
    <2>1. i \in Ids
      BY DEF Live
    <2>2. o \in Operation /\ o.pc = "found" /\ o.kind = op[c].kind /\ o.id = i
      BY <1>1, <2>1, NoOpOK DEF Operation
    <2> HIDE DEF o
    <2>3. Moved(c) /\ op'[c] = o
      BY <1>3, <2>2, MovedTo DEF Frame, o
    <2> QED
      BY <2>2, <2>3
  <1> QED
    BY <1>1, <1>2, <1>3 DEF FindLicence

\* The look-up of the pair's licence.
LEMMA FindLicenceFrame ==
  ASSUME Frame, NEW c \in Calls, FindLicence(c)
  PROVE  Frame'
  <1>1. /\ op[c].pc = "licence" /\ op[c].kind \in {"plan", "cancelNow"}
        /\ UNCHANGED <<begun, vars, sub, held, loose, beside, crossed>>
        /\ Moved(c)
        /\ \/ op'[c].pc = "idle" /\ op'[c].kind = "none"
           \/ /\ op'[c].pc = "found" /\ op'[c].kind = op[c].kind
              /\ op'[c].id \in Live(Pair(c))
    BY FindsLicence
  <1>2. lic' = lic /\ call' = call
    BY <1>1 DEF vars
  <1>3. CallsKept(c) /\ c \in Procs /\ call[c] = Idle
    BY <1>1, <1>2 DEF CallsKept, Procs, Frame, Shape, CalledOut
  <1>4. IInv' /\ held' \subseteq Procs
    BY <1>1, StutterStep DEF Frame, ContractsTypeOK
  <1>5. OpOK(c)'
    BY <1>1, <1>2 DEF OpOK, Live, LiveStatuses
  <1>6. \A i \in Ids : InHand(c, i)' => lic'[i].status # "revoked"
    BY <1>1, <1>2, <1>3, IdleOK DEF InHand, Live, LiveStatuses
  <1> QED
    BY <1>1, <1>2, <1>3, <1>4, <1>5, <1>6, QuietFrame

LEMMA CallsLicence ==
  ASSUME Frame, NEW c \in Calls, OnLicence(c)
  PROVE  /\ IInv'
         /\ op[c].pc = "found" /\ op[c].kind \in {"plan", "cancelNow"} /\ op[c].id \in Ids
         /\ UNCHANGED <<begun, sub, held, loose, beside, crossed>>
         /\ Moved(c) /\ op'[c].pc = "called" /\ op'[c].kind = op[c].kind
         /\ CallMoved(c) /\ call[c] = Idle /\ UNCHANGED <<lic, now, failures>>
         /\ call'[c].id = op[c].id /\ call'[c].pc = "write"
         /\ call'[c].job = "none" /\ call'[c].todo = {}
         /\ call'[c].par.expires = Keep
         /\ op[c].kind = "plan" => call'[c].op = "renew" /\ call'[c].seen = lic[op[c].id]
         /\ op[c].kind = "cancelNow" => call'[c].op = "revoke"
  <1> DEFINE o == IF op[c].kind = "plan" THEN "renew" ELSE "revoke"
  <1>1. /\ op[c].pc = "found" /\ op[c].kind \in {"plan", "cancelNow"} /\ op[c].id \in Ids
        /\ UNCHANGED <<begun, sub, held, loose, beside, crossed>>
        /\ Begin(c, o, op[c].id) /\ CallsOn(c)
    BY DEF OnLicence, Frame, Shape, OpOK, ContractsTypeOK, Operation
  <1>2. /\ o \in {"renew", "revoke"} /\ IInv
        /\ op[c].kind = "plan" => o = "renew"
        /\ op[c].kind = "cancelNow" => o = "revoke"
    BY DEF Frame
  <1> HIDE DEF o
  <1>3. IInv'
    BY <1>1, <1>2, BeginStep
  <1>4. /\ CallMoved(c) /\ call[c] = Idle /\ UNCHANGED <<lic, now, failures>>
        /\ call'[c].id = op[c].id /\ call'[c].pc = "write" /\ call'[c].op = o
        /\ call'[c].job = "none" /\ call'[c].todo = {}
        /\ call'[c].par.expires = Keep
        /\ o = "renew" => call'[c].seen = lic[op[c].id]
    BY <1>1, <1>2, <1>3, BeginsCall DEF Skips
  <1>5. Moved(c) /\ op'[c].pc = "called" /\ op'[c].kind = op[c].kind
    BY <1>1, CallsOnOp DEF Frame
  <1> QED
    BY <1>1, <1>2, <1>3, <1>4, <1>5

\* renew and revoke read the licence.
LEMMA OnLicenceFrame ==
  ASSUME Frame, NEW c \in Calls, OnLicence(c)
  PROVE  Frame'
  <1>1. /\ IInv'
        /\ op[c].pc = "found" /\ op[c].kind \in {"plan", "cancelNow"} /\ op[c].id \in Ids
        /\ UNCHANGED <<begun, sub, held, loose, beside, crossed>>
        /\ Moved(c) /\ op'[c].pc = "called" /\ op'[c].kind = op[c].kind
        /\ CallMoved(c) /\ lic' = lic
        /\ call'[c].id = op[c].id /\ call'[c].pc = "write"
        /\ call'[c].job = "none" /\ call'[c].todo = {}
        /\ call'[c].par.expires = Keep
        /\ op[c].kind = "plan" => call'[c].op = "renew"
        /\ op[c].kind = "cancelNow" => call'[c].op = "revoke"
    BY CallsLicence
  <1>2. CallsKept(c) /\ held' \subseteq Procs
    BY <1>1 DEF CallsKept, CallMoved, Frame, ContractsTypeOK
  <1>3. OpOK(c)'
    BY <1>1 DEF OpOK, Touches
  <1>4. CalledOut(c)'
    BY <1>1 DEF CalledOut
  <1>5. \A i \in Ids : InHand(c, i)' /\ lic'[i].status = "revoked" /\ ~ Commands(c)' => c \in held'
    <2>1. \A i \in Ids : InHand(c, i)' => InHand(c, i)
      BY <1>1 DEF InHand
    <2> QED
      BY <1>1, <2>1 DEF Frame, SeenWithIt, Commands, CallMoved, Procs
  <1> QED
    BY <1>1, <1>2, <1>3, <1>4, <1>5, QuietFrame

\* The operation is over, or breaks off.
LEMMA EndsFrame ==
  ASSUME Frame, NEW c \in Calls, Ends(c), call[c] = Idle, IInv',
         held' = held \ {c}, UNCHANGED <<begun, lic, call, sub, loose, beside, crossed>>
  PROVE  Frame'
  <1>1. Moved(c) /\ op'[c].pc = "idle" /\ op'[c].kind = "none"
    BY EndsOp DEF Frame
  <1>2. CallsKept(c) /\ held' \subseteq Procs /\ c \in Procs
    BY DEF CallsKept, Frame, ContractsTypeOK, Procs
  <1>3. OpOK(c)'
    BY <1>1 DEF OpOK
  <1>4. \A i \in Ids : ~ InHand(c, i)'
    BY <1>1, <1>2, IdleOK DEF InHand
  <1> QED
    BY <1>1, <1>2, <1>3, <1>4, QuietFrame

LEMMA BreakOffFrame ==
  ASSUME Frame, NEW c \in Calls, BreakOff(c)
  PROVE  Frame' /\ failures' # 0
  <1>1. call[c] = Idle /\ c \in Procs /\ failures \in Nat
    BY Known DEF BreakOff, Frame, Shape, CalledOut, Procs
  <1>2. UNCHANGED <<lic, call, now>> /\ failures' = failures + 1
    BY DEF BreakOff
  <1>3. IInv'
    <2>1. CallsOK'
      BY <1>2 DEF Frame, IInv, CallsOK, CallOK
    <2> QED
      BY <1>1, <1>2, <2>1 DEF Frame, IInv, TypeOK, OneLiveLicence, ColumnsAgree,
                              OnlyTrialsExpire, AbsentIsBlank, InsertsApart
  <1> QED
    BY <1>1, <1>2, <1>3, EndsFrame DEF BreakOff

\* A day passes, or nothing changes.
LEMMA TickFrame ==
  ASSUME Frame, Tick \/ UNCHANGED vars, UNCHANGED contractVars
  PROVE  Frame'
  <1>1. IInv'
    BY TickStep, StutterStep DEF Frame
  <1>2. /\ lic' = lic /\ call' = call /\ sub' = sub /\ op' = op /\ held' = held
        /\ loose' = loose /\ begun' = begun /\ beside' = beside /\ crossed' = crossed
    BY DEF Tick, vars, contractVars
  <1>3. ContractsTypeOK' /\ Shape'
    BY <1>2 DEF Frame, ContractsTypeOK, Shape, OpOK, CalledOut, SweepAt
  <1>4. SeenWithIt'
    BY <1>2 DEF Frame, SeenWithIt, InHand, Commands
  <1>5. (Single => Single') /\ (Alone => Alone')
    BY <1>2 DEF Single, InForceSub, Pair, Alone, Touching, Paying
  <1> QED
    BY <1>1, <1>2, <1>3, <1>4, <1>5 DEF Frame

\* Whoever is at a step of the licence service is called out.
LEMMA WhoIsCalled ==
  ASSUME Frame, NEW c \in Calls, call[c].pc # "idle"
  PROVE  CalledOut(c) /\ c \in Procs
  BY IdleOK DEF Frame, Shape, Procs

\* Who has a revoked licence in hand after a step of the licence service, was seen
\* with it then or before.
LEMMA HoldsSeen ==
  ASSUME Frame, NEW c \in Procs, Others(c), Holds(c),
         call'[c] = Idle => UNCHANGED lic /\ \A i \in Ids : ~ InHand(c, i)',
         call'[c] # Idle =>
           \A i \in Ids : InHand(c, i)' /\ lic'[i].status = "revoked" /\ ~ Commands(c)' => c \in held
  PROVE  SeenWithIt' /\ held' \subseteq Procs
  <1>1. held \subseteq Procs /\ SeenWithIt
    BY DEF Frame, ContractsTypeOK
  <1>2. CASE call'[c] = Idle
    <2>1. held' = held \ {c} /\ UNCHANGED lic /\ \A i \in Ids : ~ InHand(c, i)'
      BY <1>2 DEF Holds
    <2> QED
      BY <1>1, <2>1, SeenKept
  <1>3. CASE call'[c] # Idle
    <2> DEFINE New == {d \in Procs \ {c} : \E i \in Ids :
                         /\ lic[i].status # "revoked" /\ lic'[i].status = "revoked"
                         /\ InHand(d, i)}
    <2>1. held' = held \cup New
      BY <1>3 DEF Holds
    <2>2. \A i \in Ids : lic[i].status # "revoked" /\ lic'[i].status = "revoked" =>
            \A d \in Procs \ {c} : InHand(d, i) => d \in New
      OBVIOUS
    <2>3. New \subseteq Procs
      OBVIOUS
    <2> HIDE DEF New
    <2>4. \A i \in Ids : InHand(c, i)' /\ lic'[i].status = "revoked" /\ ~ Commands(c)' => c \in held'
      BY <1>3, <2>1
    <2> QED
      BY <1>1, <2>1, <2>2, <2>3, <2>4, SeenKept
  <1> QED
    BY <1>2, <1>3

\* The steps of the licence service, one by one, as an operation sees them.
LEMMA LicenceSteps ==
  ASSUME Frame, NEW c \in Calls, LicenceStep(c)
  PROVE  /\ IInv' /\ CallMoved(c) /\ CalledOut(c) /\ Moved(c) /\ Holds(c) /\ c \in Procs
         /\ UNCHANGED <<begun, sub, loose, beside, crossed>>
         /\ call'[c] = Idle => op'[c].pc = "idle" /\ op'[c].kind = "none"
         /\ call'[c] # Idle => op'[c] = op[c]
         /\ \/ RenewRead(c) \/ Notify(c) \/ Fail(c) \/ EmitInsert(c) \/ Write(c)
  <1>1. /\ UNCHANGED <<begun, sub, loose, beside, crossed>> /\ c \in Procs /\ IInv
        /\ Holds(c) /\ ContractsTypeOK
        /\ call'[c] = Idle => Ends(c)
        /\ call'[c] # Idle => UNCHANGED op
    BY DEF LicenceStep, Procs, Frame
  <1>2. /\ Moved(c)
        /\ call'[c] = Idle => op'[c].pc = "idle" /\ op'[c].kind = "none"
        /\ call'[c] # Idle => op'[c] = op[c]
    <2>1. CASE call'[c] = Idle
      BY <1>1, <2>1, EndsOp
    <2>2. CASE call'[c] # Idle
      BY <1>1, <2>2 DEF Moved, ContractsTypeOK
    <2> QED
      BY <2>1, <2>2
  <1>3. CASE EmitInsert(c)
    <2>1. IInv'
      BY <1>1, <1>3, EmitInsertStep
    <2>2. call[c].pc = "insert"
      BY <1>3 DEF EmitInsert
    <2> QED
      BY <1>1, <1>2, <1>3, <2>1, <2>2, InsertsCall, WhoIsCalled
  <1>4. CASE RenewRead(c)
    <2>1. IInv'
      BY <1>1, <1>4, RenewReadStep
    <2>2. call[c].pc = "read" /\ CalledOut(c)
      BY <1>4, WhoIsCalled DEF RenewRead
    <2>3. call[c].op = "renew"
      BY <2>2 DEF CalledOut
    <2> QED
      BY <1>1, <1>2, <1>4, <2>1, <2>2, <2>3, ReadsCall
  <1>5. CASE Notify(c)
    <2>1. IInv'
      BY <1>1, <1>5, NotifyStep
    <2>2. call[c].pc = "notify" /\ CalledOut(c)
      BY <1>5, WhoIsCalled DEF Notify
    <2>3. call[c].job = "none" /\ call[c].todo = {}
      BY <2>2 DEF CalledOut
    <2> QED
      BY <1>1, <1>2, <1>5, <2>1, <2>2, <2>3, NotifiesCall
  <1>6. CASE Fail(c)
    <2>1. IInv'
      BY <1>1, <1>6, FailStep
    <2>2. call[c].pc # "idle"
      BY <1>6 DEF Fail
    <2> QED
      BY <1>1, <1>2, <1>6, <2>1, <2>2, FailsCall, WhoIsCalled
  <1>7. CASE Write(c)
    <2>1. IInv'
      BY <1>1, <1>7, WriteStep
    <2>2. call[c].pc = "write" /\ CalledOut(c)
      BY <1>7, WhoIsCalled DEF Write
    <2> QED
      BY <1>1, <1>2, <1>7, <2>1, <2>2, WritesCall
  <1> QED
    BY <1>3, <1>4, <1>5, <1>6, <1>7 DEF LicenceStep, Step

\* What a step of the licence service leaves of the call, and of the licences.
LEMMA LicenceStepCall ==
  ASSUME Frame, NEW c \in Calls, LicenceStep(c)
  PROVE  /\ call'[c] = Idle => UNCHANGED lic
         /\ call'[c] # Idle => CalledOut(c)'
         /\ \A i \in Ids : lic[i].status # "absent" => lic'[i].status # "absent"
         /\ \A i \in Ids : InHand(c, i)' => InHand(c, i) /\ UNCHANGED lic
  <1>1. /\ IInv' /\ CallMoved(c) /\ CalledOut(c) /\ IInv /\ c \in Procs /\ c \notin Sweepers
        /\ call'[c] = Idle => op'[c].pc = "idle"
        /\ call'[c] # Idle => op'[c] = op[c]
    BY LicenceSteps, LicensesAssumption DEF Frame
  <1>2. op[c].pc = "called" /\ op'[c].pc \in {"idle", "called"}
    BY <1>1 DEF CalledOut
  <1>3. CASE RenewRead(c)
    <2>1. call[c].pc = "read"
      BY <1>3 DEF RenewRead
    <2>2. call[c].op = "renew" /\ op[c].kind \in {"trial", "activate", "issue"}
          /\ call[c].par.expires # Keep
      BY <1>1, <2>1 DEF CalledOut
    <2>3. /\ UNCHANGED lic /\ call'[c].id = call[c].id
          /\ call'[c].pc = "write" /\ call'[c].op = "renew" /\ call'[c].par = call[c].par
          /\ call'[c].job = call[c].job /\ call'[c].todo = call[c].todo
      BY <1>1, <1>3, <2>2, ReadsCall
    <2>4. CalledOut(c)' /\ call'[c] # Idle
      BY <1>1, <2>2, <2>3, IdleOK DEF CalledOut
    <2> QED
      BY <1>1, <1>2, <2>1, <2>3, <2>4 DEF InHand
  <1>4. CASE Notify(c) \/ Fail(c)
    <2>1. call[c].job = "none" /\ call[c].todo = {}
      BY <1>1 DEF CalledOut
    <2>2. call'[c] = Idle /\ UNCHANGED lic
      BY <1>1, <1>4, <2>1, NotifiesCall, FailsCall
    <2> QED
      BY <1>1, <1>2, <2>2, IdleOK DEF InHand
  <1>5. CASE EmitInsert(c)
    <2>1. /\ call[c].pc = "insert" /\ call[c].id \in Ids
          /\ \/ call'[c] = Idle /\ UNCHANGED lic
             \/ /\ \A i \in Ids \ {call[c].id} : lic'[i] = lic[i]
                /\ lic'[call[c].id].status = "active"
                /\ call'[c].pc = "notify"
                /\ call'[c].job = call[c].job /\ call'[c].todo = call[c].todo
      BY <1>1, <1>5, InsertsCall
    <2>2. call[c].todo = {} /\ call[c].job = "none"
          /\ op[c].kind \in {"trial", "activate", "issue"}
      BY <1>1, <2>1 DEF CalledOut
    <2>3. \A i \in Ids : ~ InHand(c, i)'
      BY <1>2, <2>1, <2>2, IdleOK DEF InHand
    <2>4. call'[c] # Idle => CalledOut(c)'
      BY <1>1, <2>1, <2>2 DEF CalledOut
    <2>5. call'[c].pc = "notify" => call'[c] # Idle
      BY IdleOK
    <2>6. \A i \in Ids : lic[i].status # "absent" => lic'[i].status # "absent"
      BY <2>1
    <2> QED
      BY <2>1, <2>3, <2>4, <2>5, <2>6
  <1>6. CASE Write(c)
    <2>1. /\ call[c].pc = "write" /\ call[c].id \in Ids
          /\ \/ call'[c] = Idle /\ UNCHANGED lic
             \/ /\ \A i \in Ids \ {call[c].id} : lic'[i] = lic[i]
                /\ call[c].op = "revoke" => lic'[call[c].id].status = "revoked"
                /\ call[c].op \in {"suspend", "reactivate"} =>
                     lic'[call[c].id].status \in LiveStatuses
                /\ call[c].op = "renew" => lic'[call[c].id].status = "active"
                /\ call'[c].pc = "notify"
                /\ call'[c].job = call[c].job /\ call'[c].todo = call[c].todo
      BY <1>1, <1>6, WritesCall
    <2>2. /\ call[c].todo = {} /\ call[c].job = "none" /\ op[c].kind \in Touches
          /\ call[c].op \in {"renew", "revoke", "suspend", "reactivate"}
      BY <1>1, <2>1 DEF CalledOut, Touches
    <2>3. \A i \in Ids : ~ InHand(c, i)'
      BY <1>2, <2>1, <2>2, IdleOK DEF InHand
    <2>4. call'[c] # Idle => CalledOut(c)'
      BY <1>1, <2>1, <2>2 DEF CalledOut, Touches
    <2>5. call'[c].pc = "notify" => call'[c] # Idle
      BY IdleOK
    <2>6. \A i \in Ids : lic[i].status # "absent" => lic'[i].status # "absent"
      BY <2>1, <2>2 DEF LiveStatuses
    <2> QED
      BY <2>1, <2>3, <2>4, <2>5, <2>6
  <1> QED
    BY <1>3, <1>4, <1>5, <1>6, LicenceSteps

\* A step of the licence service.
LEMMA LicenceStepFrame ==
  ASSUME Frame, NEW c \in Calls, LicenceStep(c)
  PROVE  Frame'
  <1>1. /\ IInv' /\ CallMoved(c) /\ CalledOut(c) /\ Moved(c) /\ Holds(c) /\ c \in Procs
        /\ UNCHANGED <<begun, sub, loose, beside, crossed>>
        /\ call'[c] = Idle => op'[c].pc = "idle" /\ op'[c].kind = "none"
        /\ call'[c] # Idle => op'[c] = op[c]
    BY LicenceSteps
  <1>2. CallsKept(c) /\ Others(c) /\ op[c].pc = "called" /\ OpOK(c)
    BY <1>1 DEF Moved, CallsKept, CallMoved, Others, CalledOut, Frame, Shape
  <1>3. /\ call'[c] = Idle => UNCHANGED lic
        /\ call'[c] # Idle => CalledOut(c)'
        /\ \A i \in Ids : lic[i].status # "absent" => lic'[i].status # "absent"
        /\ \A i \in Ids : InHand(c, i)' => InHand(c, i) /\ UNCHANGED lic
    BY LicenceStepCall
  <1>4. OpOK(c)' /\ op'[c].pc # "insert" /\ op'[c].kind \in {op[c].kind, "none"}
    BY <1>1, <1>2 DEF OpOK
  <1>5. Shape'
    BY <1>1, <1>2, <1>3, <1>4, ShapeKept DEF Frame
  <1>6. SeenWithIt' /\ held' \subseteq Procs
    <2>1. ASSUME call'[c] = Idle
          PROVE  \A i \in Ids : ~ InHand(c, i)'
      BY <1>1, <2>1, IdleOK DEF InHand
    <2>2. ASSUME call'[c] # Idle, NEW i \in Ids, InHand(c, i)', lic'[i].status = "revoked",
                 ~ Commands(c)'
          PROVE  c \in held
      <3>1. InHand(c, i) /\ lic[i].status = "revoked" /\ ~ Commands(c)
        BY <1>1, <1>3, <2>2 DEF Commands
      <3> QED
        BY <1>1, <3>1 DEF Frame, SeenWithIt
    <2> QED
      BY <1>1, <1>2, <1>3, <2>1, <2>2, HoldsSeen
  <1>7. ContractsTypeOK'
    BY <1>1, <1>6 DEF Frame, ContractsTypeOK, Moved
  <1>8. ASSUME ~ beside'
        PROVE  Single'
    <2>1. \A t \in Subs : InForceSub(t)' => InForceSub(t)
      BY <1>1 DEF InForceSub
    <2> QED
      BY <1>1, <1>4, <1>8, <2>1, SingleKept DEF Frame
  <1>9. ASSUME ~ crossed'
        PROVE  Alone'
    BY <1>1, <1>2, <1>4, <1>9, AloneKept DEF Frame
  <1> QED
    BY <1>1, <1>5, <1>6, <1>7, <1>8, <1>9 DEF Frame

-----------------------------------------------------------------------------
(* The others who write to the licence.                                    *)

\* What the operations of the others have in common: they begin with a call.
LEMMA OutsideFrame ==
  ASSUME Frame, NEW c \in Calls, NEW kind \in {"issue", "admin", "revoke"},
         Begins(c, kind, "called", "none", NoDate),
         IInv', CallMoved(c), lic' = lic, UNCHANGED <<sub, held, beside>>, loose' \subseteq Pairs,
         CalledOut(c)',
         \A i \in Ids : InHand(c, i)' /\ kind = "issue" => lic[i].status # "revoked"
  PROVE  Frame'
  <1>1. kind \in Kinds /\ NoDate \in Dates /\ c \in Procs
    BY DEF Kinds, Dates, Procs
  <1>2. /\ Moved(c) /\ op[c].pc = "idle" /\ op[c].kind = "none"
        /\ op'[c].pc = "called" /\ op'[c].kind = kind
        /\ begun' \in Nat /\ crossed' \in BOOLEAN
        /\ ~ crossed' => /\ ~ crossed
                         /\ kind \in Touches => Paying = {}
    BY <1>1, BeginsOp DEF Frame
  <1>3. CallsKept(c) /\ Others(c)
    BY <1>2 DEF CallsKept, CallMoved, Others, Moved
  <1>4. ContractsTypeOK'
    BY <1>2 DEF Frame, ContractsTypeOK, Moved
  <1>5. Shape'
    <2>1. OpOK(c)'
      BY <1>2 DEF OpOK, Touches
    <2> QED
      BY <1>2, <1>3, <2>1, ShapeKept DEF Frame
  <1>6. SeenWithIt'
    <2>1. \A i \in Ids : InHand(c, i)' /\ lic'[i].status = "revoked" /\ ~ Commands(c)' => c \in held'
      BY <1>2 DEF Commands
    <2> QED
      BY <1>1, <1>3, <2>1, SeenKept DEF Frame
  <1>7. ASSUME ~ beside'
        PROVE  Single'
    <2>1. \A t \in Subs : InForceSub(t)' => InForceSub(t)
      BY DEF InForceSub
    <2> QED
      BY <1>2, <1>7, <2>1, SingleKept DEF Frame
  <1>8. ASSUME ~ crossed'
        PROVE  Alone'
    <2>1. Paying = {}
      BY <1>2, <1>8 DEF Touches
    <2>2. Paying' = {}
      BY <1>2, <2>1 DEF Paying, Moved
    <2> QED
      BY <2>2 DEF Alone
  <1> QED
    BY <1>4, <1>5, <1>6, <1>7, <1>8 DEF Frame

\* A paid order, a manual emission or an access request's trial asks emit.
LEMMA Issues ==
  ASSUME Frame, NEW c \in Calls, NEW p \in Pairs, Issue(c, p)
  PROVE  /\ IInv' /\ CallMoved(c) /\ UNCHANGED <<lic, now, failures>> /\ CalledOut(c)'
         /\ Begins(c, "issue", "called", "none", NoDate)
         /\ loose' = loose \cup {p} /\ UNCHANGED <<sub, held, beside>>
         /\ Moved(c) /\ op[c].pc = "idle" /\ op'[c].pc = "called" /\ op'[c].kind = "issue"
         /\ PairOf[call'[c].id] = p
         /\ \A i \in Ids : InHand(c, i)' => lic[i].status # "revoked"
  <1>1. PICK par \in Offers : EmitFind(c, p, par)
    BY DEF Issue
  <1>2. /\ Begins(c, "issue", "called", "none", NoDate)
        /\ loose' = loose \cup {p} /\ UNCHANGED <<sub, held, beside>>
        /\ IInv /\ TypeOK /\ "issue" \in Kinds /\ NoDate \in Dates
    BY DEF Issue, Frame, IInv, Kinds, Dates
  <1>3. par \in Params /\ par.expires # Keep /\ CountedFrom(par.expires, par.grace)
    BY <1>2, OffersOK
  <1>4. IInv'
    BY <1>1, <1>2, <1>3, EmitFindStep
  <1>5. /\ CallMoved(c) /\ UNCHANGED <<lic, now, failures>> /\ PairOf[call'[c].id] = p
        /\ call'[c].job = "none" /\ call'[c].todo = {} /\ call'[c].par.expires # Keep
        /\ \/ call'[c].pc = "read" /\ call'[c].op = "renew"
              /\ lic[call'[c].id].status \in LiveStatuses
           \/ call'[c].pc = "insert" /\ call'[c].op = "emit"
    BY <1>1, <1>2, <1>3, <1>4, FindsCall
  <1>6. Moved(c) /\ op[c].pc = "idle" /\ op'[c].pc = "called" /\ op'[c].kind = "issue"
    BY <1>2, BeginsOp DEF Frame
  <1>7. CalledOut(c)'
    BY <1>5, <1>6 DEF CalledOut
  <1>8. \A i \in Ids : InHand(c, i)' => lic[i].status # "revoked"
    BY <1>5, <1>6 DEF InHand, LiveStatuses
  <1> QED
    BY <1>2, <1>4, <1>5, <1>6, <1>7, <1>8

LEMMA IssueFrame ==
  ASSUME Frame, NEW c \in Calls, NEW p \in Pairs, Issue(c, p)
  PROVE  Frame'
  <1>1. loose' \subseteq Pairs
    BY Issues DEF Frame, ContractsTypeOK
  <1> QED
    BY <1>1, Issues, OutsideFrame

\* The administrator asks for a licence by its id.
LEMMA Asks ==
  ASSUME Frame, NEW c \in Calls, NEW i \in Ids,
         NEW o \in {"suspend", "reactivate", "revoke"}, NEW kind \in {"admin", "revoke"},
         kind = "revoke" <=> o = "revoke",
         IF o = "revoke" THEN Revoke(c, i) ELSE Administer(c, o, i)
  PROVE  /\ IInv' /\ CallMoved(c) /\ UNCHANGED <<lic, now, failures>> /\ CalledOut(c)'
         /\ Begins(c, kind, "called", "none", NoDate) /\ UNCHANGED <<sub, held, beside>>
         /\ loose' = IF o = "revoke" THEN loose \cup {PairOf[i]} ELSE loose
         /\ Moved(c) /\ op[c].pc = "idle" /\ op'[c].pc = "called" /\ op'[c].kind = kind
         /\ call'[c].id = i
  <1>1. /\ Begin(c, o, i) /\ (o # "revoke" => call'[c] # Idle)
        /\ Begins(c, kind, "called", "none", NoDate) /\ UNCHANGED <<sub, held, beside>>
        /\ loose' = IF o = "revoke" THEN loose \cup {PairOf[i]} ELSE loose
        /\ IInv /\ kind \in Kinds /\ NoDate \in Dates
    BY DEF Revoke, Administer, Frame, Kinds, Dates
  <1>2. IInv'
    BY <1>1, BeginStep
  <1>3. ~ Skips(o, lic[i])
    <2>1. CASE o = "revoke"
      BY <2>1 DEF Skips
    <2>2. CASE o # "revoke"
      BY <1>1, <2>2, NotSkipped
    <2> QED
      BY <2>1, <2>2
  <1>4. /\ CallMoved(c) /\ UNCHANGED <<lic, now, failures>>
        /\ call'[c].id = i /\ call'[c].pc = "write" /\ call'[c].op = o
        /\ call'[c].job = "none" /\ call'[c].todo = {}
    BY <1>1, <1>2, <1>3, BeginsCall
  <1>5. Moved(c) /\ op[c].pc = "idle" /\ op'[c].pc = "called" /\ op'[c].kind = kind
    BY <1>1, BeginsOp DEF Frame
  <1>6. CalledOut(c)'
    BY <1>4, <1>5 DEF CalledOut
  <1> QED
    BY <1>1, <1>2, <1>4, <1>5, <1>6

LEMMA AskFrame ==
  ASSUME Frame, NEW c \in Calls, NEW i \in Ids,
         NEW o \in {"suspend", "reactivate", "revoke"},
         IF o = "revoke" THEN Revoke(c, i) ELSE Administer(c, o, i)
  PROVE  Frame'
  <1> DEFINE kind == IF o = "revoke" THEN "revoke" ELSE "admin"
  <1>1. kind \in {"admin", "revoke"} /\ (kind = "revoke" <=> o = "revoke")
    OBVIOUS
  <1> HIDE DEF kind
  <1>2. /\ IInv' /\ CallMoved(c) /\ lic' = lic /\ CalledOut(c)'
        /\ Begins(c, kind, "called", "none", NoDate) /\ UNCHANGED <<sub, held, beside>>
        /\ loose' = IF o = "revoke" THEN loose \cup {PairOf[i]} ELSE loose
    BY <1>1, Asks
  <1>3. loose' \subseteq Pairs
    BY <1>2, LicensesAssumption DEF Frame, ContractsTypeOK
  <1> QED
    BY <1>1, <1>2, <1>3, OutsideFrame

-----------------------------------------------------------------------------
(* The expiry jobs.                                                        *)

\* What a step of an expiry job leaves of the job, and of the licences.
LEMMA SweepSteps ==
  ASSUME Frame, NEW w \in Sweepers,
         \/ \E job \in {"hourlyLicenses", "daily"} : Sweep(w, job)
         \/ SweepPick(w) \/ SweepNext(w) \/ Step(w) \/ Fail(w)
  PROVE  /\ IInv' /\ CallMoved(w) /\ w \in Procs /\ now' = now
         /\ SweepAt(w)'
         /\ call'[w] = Idle => UNCHANGED lic
         /\ \A i \in Ids : lic[i].status # "absent" => lic'[i].status # "absent"
         /\ \A i \in Ids : InHand(w, i)' /\ lic'[i].status = "revoked" =>
              InHand(w, i) /\ lic[i].status = "revoked"
         /\ ~ EmitInsert(w) /\ ~ RenewRead(w)
  <1>1. w \in Procs /\ w \notin Calls /\ IInv /\ SweepAt(w)
    BY SweepersApart DEF Frame, Shape
  <1>2. ~ EmitInsert(w) /\ ~ RenewRead(w)
    BY <1>1, IdleOK DEF EmitInsert, RenewRead, SweepAt
  <1>3. ASSUME NEW job \in {"hourlyLicenses", "daily"}, Sweep(w, job)
        PROVE  /\ IInv' /\ CallMoved(w) /\ now' = now /\ SweepAt(w)' /\ UNCHANGED lic
               /\ \A i \in Ids : InHand(w, i)' => lic[i].status # "revoked"
    <2>1. IInv'
      BY <1>1, <1>3, NextIInv DEF Next
    <2>2. /\ CallMoved(w) /\ UNCHANGED <<lic, now, failures>>
          /\ call'[w].pc = "pick" /\ call'[w].job = job
          /\ \A i \in call'[w].todo : lic[i].status = "active"
      BY <1>1, <1>3, <2>1, StartsSweep
    <2> QED
      BY <1>1, <2>1, <2>2 DEF SweepAt, InHand
  <1>4. ASSUME SweepPick(w)
        PROVE  /\ IInv' /\ CallMoved(w) /\ now' = now /\ SweepAt(w)' /\ UNCHANGED lic
               /\ \A i \in Ids : InHand(w, i)' => InHand(w, i)
    <2>1. IInv'
      BY <1>1, <1>4, NextIInv DEF Next
    <2>2. call[w].job # "none"
      BY <1>1, <1>4, IdleOK DEF SweepAt, SweepPick
    <2>3. /\ CallMoved(w) /\ call[w].pc = "pick" /\ UNCHANGED <<lic, now, failures>>
          /\ call'[w].job = call[w].job
          /\ \E i \in call[w].todo :
               /\ call'[w].todo = call[w].todo \ {i}
               /\ \/ call'[w].pc = "pick"
                  \/ /\ call'[w].pc = "write" /\ call'[w].id = i
                     /\ call'[w].op \in {"suspend", "expireTrial"}
      BY <1>1, <1>4, <2>1, <2>2, SweepPicks
    <2>4. SweepAt(w)'
      BY <2>2, <2>3 DEF SweepAt
    <2>5. \A i \in Ids : InHand(w, i)' => InHand(w, i)
      BY <1>1, <2>3 DEF InHand
    <2> QED
      BY <2>1, <2>3, <2>4, <2>5
  <1>5. ASSUME SweepNext(w)
        PROVE  /\ IInv' /\ CallMoved(w) /\ now' = now /\ SweepAt(w)' /\ UNCHANGED lic
               /\ \A i \in Ids : InHand(w, i)' => lic[i].status # "revoked"
    <2>1. IInv'
      BY <1>1, <1>5, NextIInv DEF Next
    <2>2. /\ CallMoved(w) /\ UNCHANGED <<lic, now, failures>>
          /\ \/ call'[w] = Idle
             \/ /\ call'[w].pc = "pick" /\ call'[w].job = "hourlyTrials"
                /\ call'[w].todo = ExpiredTrials
      BY <1>1, <1>5, <2>1, SweepsNext
    <2> QED
      BY <1>1, <2>1, <2>2, IdleOK DEF SweepAt, InHand, ExpiredTrials
  <1>6. ASSUME Notify(w)
        PROVE  /\ IInv' /\ CallMoved(w) /\ now' = now /\ SweepAt(w)' /\ UNCHANGED lic
               /\ \A i \in Ids : InHand(w, i)' => InHand(w, i)
    <2>1. IInv'
      BY <1>1, <1>6, NotifyStep
    <2>2. call[w].job # "none"
      BY <1>1, <1>6, IdleOK DEF SweepAt, Notify
    <2>3. /\ CallMoved(w) /\ UNCHANGED <<lic, now, failures>>
          /\ call'[w].pc = "pick" /\ call'[w].job = call[w].job /\ call'[w].todo = call[w].todo
      BY <1>1, <1>6, <2>1, <2>2, SweepNotifies
    <2> QED
      BY <1>1, <2>1, <2>2, <2>3 DEF SweepAt, InHand
  <1>7. ASSUME Fail(w)
        PROVE  /\ IInv' /\ CallMoved(w) /\ now' = now /\ SweepAt(w)' /\ UNCHANGED lic
               /\ \A i \in Ids : ~ InHand(w, i)'
    <2>1. IInv'
      BY <1>1, <1>7, FailStep
    <2>2. CallMoved(w) /\ UNCHANGED <<lic, now>> /\ call'[w] = Idle
      BY <1>1, <1>7, <2>1, FailsCall
    <2> QED
      BY <1>1, <2>1, <2>2, IdleOK DEF SweepAt, InHand
  <1>8. ASSUME Write(w)
        PROVE  /\ IInv' /\ CallMoved(w) /\ now' = now /\ SweepAt(w)'
               /\ call'[w] = Idle => UNCHANGED lic
               /\ \A i \in Ids : lic[i].status # "absent" => lic'[i].status # "absent"
               /\ \A i \in Ids : InHand(w, i)' /\ lic'[i].status = "revoked" =>
                    InHand(w, i) /\ lic[i].status = "revoked"
    <2>1. IInv'
      BY <1>1, <1>8, WriteStep
    <2>2. /\ call[w].job # "none" /\ call[w].op \in {"suspend", "expireTrial"}
      BY <1>1, <1>8, IdleOK DEF SweepAt, Write
    <2>3. /\ CallMoved(w) /\ now' = now /\ call[w].id \in Ids
          /\ \/ call'[w] = Idle /\ UNCHANGED lic
             \/ /\ \A i \in Ids \ {call[w].id} : lic'[i] = lic[i]
                /\ lic'[call[w].id].status \in LiveStatuses \cup {"expired"}
                /\ call'[w].pc = "notify"
                /\ call'[w].job = call[w].job /\ call'[w].todo = call[w].todo
      BY <1>1, <1>8, <2>1, <2>2, WritesCall
    <2>4. SweepAt(w)'
      BY <2>2, <2>3 DEF SweepAt
    <2>5. call'[w].pc = "notify" => call'[w] # Idle
      BY IdleOK
    <2>6. \A i \in Ids : /\ lic[i].status # "absent" => lic'[i].status # "absent"
                         /\ lic'[i].status = "revoked" => lic[i].status = "revoked"
      BY <2>3 DEF LiveStatuses
    <2>7. \A i \in Ids : InHand(w, i)' => InHand(w, i)
      BY <1>1, <2>3, IdleOK DEF InHand
    <2> QED
      BY <2>1, <2>3, <2>4, <2>5, <2>6, <2>7
  <1> QED
    BY <1>1, <1>2, <1>3, <1>4, <1>5, <1>6, <1>7, <1>8 DEF Step

\* No operation and no row moves with an expiry job.
LEMMA SweepFrame ==
  ASSUME Frame, NEW w \in Sweepers,
         \/ \E job \in {"hourlyLicenses", "daily"} : Sweep(w, job)
         \/ SweepPick(w) \/ SweepNext(w) \/ Step(w) \/ Fail(w),
         UNCHANGED <<sub, op, loose, beside>>, begun' \in Nat, crossed' \in BOOLEAN,
         held' \subseteq Procs, SeenWithIt', ~ crossed' => Paying = {}
  PROVE  Frame'
  <1>1. /\ IInv' /\ CallMoved(w) /\ SweepAt(w)'
        /\ \A i \in Ids : lic[i].status # "absent" => lic'[i].status # "absent"
    BY SweepSteps
  <1>2. \A d \in Procs \ {w} : call'[d] = call[d]
    BY <1>1 DEF CallMoved
  <1>3. \A c \in Calls : call'[c] = call[c] /\ op'[c] = op[c]
    BY <1>2, SweepersApart DEF Procs
  <1>4. ContractsTypeOK'
    BY DEF Frame, ContractsTypeOK
  <1>5. Shape'
    <2>1. ASSUME NEW c \in Calls
          PROVE  OpOK(c)' /\ (call'[c] # Idle => CalledOut(c)')
      <3>1. /\ call'[c] = call[c] /\ op'[c] = op[c] /\ OpOK(c) /\ op[c].id \in Ids
            /\ call[c] # Idle => CalledOut(c)
        BY <1>3 DEF Frame, Shape, ContractsTypeOK, Operation
      <3>2. OpOK(c)'
        BY <1>1, <3>1 DEF OpOK
      <3>3. CalledOut(c) => CalledOut(c)'
        BY <3>1 DEF CalledOut
      <3> QED
        BY <3>1, <3>2, <3>3
    <2>2. ASSUME NEW v \in Sweepers
          PROVE  SweepAt(v)'
      <3>1. CASE v = w
        BY <1>1, <3>1
      <3>2. CASE v # w
        <4>1. call'[v] = call[v] /\ SweepAt(v)
          BY <1>2, <3>2, SweepersApart DEF Frame, Shape
        <4> QED
          BY <4>1 DEF SweepAt
      <3> QED
        BY <3>1, <3>2
    <2>3. \A c, d \in Calls : /\ op'[c].pc = "insert" /\ op'[d].pc = "insert"
                              /\ op'[c].sub = op'[d].sub
                              => c = d
      BY DEF Frame, Shape
    <2> QED
      BY <2>1, <2>2, <2>3 DEF Shape
  <1>6. ~ beside' => Single'
    BY DEF Frame, Single, InForceSub, Pair
  <1>7. ~ crossed' => Alone'
    BY DEF Alone, Paying
  <1> QED
    BY <1>1, <1>4, <1>5, <1>6, <1>7 DEF Frame

LEMMA StartSweepFrame ==
  ASSUME Frame, NEW w \in Sweepers, StartSweep(w)
  PROVE  Frame' /\ (~ crossed' => ~ crossed /\ Paying = {})
  <1>1. /\ \E job \in {"hourlyLicenses", "daily"} : Sweep(w, job)
        /\ crossed' = (crossed \/ Paying # {})
        /\ UNCHANGED <<sub, op, held, loose, beside>> /\ begun' = begun + 1
    BY DEF StartSweep, Counts
  <1>2. begun' \in Nat /\ crossed' \in BOOLEAN /\ held' \subseteq Procs
    BY <1>1 DEF Frame, ContractsTypeOK
  <1>3. /\ CallMoved(w) /\ w \in Procs /\ w \notin Calls
        /\ \A i \in Ids : InHand(w, i)' /\ lic'[i].status = "revoked" =>
             InHand(w, i) /\ lic[i].status = "revoked"
    BY <1>1, SweepSteps, SweepersApart
  <1>4. lic' = lic
    BY <1>1 DEF Sweep
  <1>5. SeenWithIt'
    <2>1. Others(w)
      BY <1>1, <1>3 DEF Others, CallsKept, CallMoved
    <2>2. \A i \in Ids : InHand(w, i)' /\ lic'[i].status = "revoked" => w \in held'
      BY <1>1, <1>3 DEF Frame, SeenWithIt, Commands
    <2> QED
      BY <1>1, <1>3, <1>4, <2>1, <2>2, SeenKept DEF Frame
  <1>6. ~ crossed' => ~ crossed /\ Paying = {}
    BY <1>1
  <1> QED
    BY <1>1, <1>2, <1>5, <1>6, SweepFrame

LEMMA SweepOnFrame ==
  ASSUME Frame, NEW w \in Sweepers, SweepOn(w)
  PROVE  Frame' /\ (~ crossed => Paying = {})
  <1>1. /\ SweepPick(w) \/ SweepNext(w) \/ Step(w) \/ Fail(w)
        /\ Holds(w) /\ UNCHANGED <<sub, op, begun, loose, beside, crossed>>
    BY DEF SweepOn
  <1>2. begun' \in Nat /\ crossed' \in BOOLEAN
    BY <1>1 DEF Frame, ContractsTypeOK
  <1>3. /\ CallMoved(w) /\ w \in Procs /\ w \notin Calls
        /\ call'[w] = Idle => UNCHANGED lic
        /\ \A i \in Ids : InHand(w, i)' /\ lic'[i].status = "revoked" =>
             InHand(w, i) /\ lic[i].status = "revoked"
    BY <1>1, SweepSteps, SweepersApart
  <1>4. SeenWithIt' /\ held' \subseteq Procs
    <2>1. Others(w)
      BY <1>1, <1>3 DEF Others, CallsKept, CallMoved
    <2>2. \A i \in Ids : InHand(w, i)' /\ lic'[i].status = "revoked" => w \in held
      BY <1>3 DEF Frame, SeenWithIt, Commands
    <2>3. call'[w] = Idle => \A i \in Ids : ~ InHand(w, i)'
      BY <1>3, IdleOK DEF InHand
    <2> QED
      BY <1>1, <1>3, <2>1, <2>2, <2>3, HoldsSeen
  <1>5. call[w] # Idle
    BY <1>1, IdleOK DEF SweepPick, SweepNext, Step, EmitInsert, RenewRead, Write, Notify, Fail
  <1>6. ~ crossed => Paying = {}
    BY <1>5 DEF Frame, Alone
  <1> QED
    BY <1>1, <1>2, <1>4, <1>6, SweepFrame

-----------------------------------------------------------------------------
(* All steps together.                                                     *)

\* The look-ups, as what they have in common.
LEMMA LooksUp ==
  ASSUME Frame, NEW c \in Calls, NEW s \in Subs,
         \/ \E kind \in {"create", "trial"} : Create(c, kind, s)
         \/ Activate(c, s) \/ MarkOverdue(c, s) \/ ChangePlan(c, s)
         \/ \E kind \in {"cancel", "cancelNow"} : Cancel(c, kind, s)
  PROVE  \E kind \in Kinds, pc \in {"insert", "update"}, until \in Dates :
           /\ Begins(c, kind, pc, s, until)
           /\ UNCHANGED <<vars, sub, held, loose>> /\ beside' \in BOOLEAN /\ (~ beside' => ~ beside)
           /\ pc = "insert" =>
                /\ kind \in {"create", "trial"} /\ sub[s].status = "absent"
                /\ \A d \in Calls : op[d].pc = "insert" => op[d].sub # s
                /\ InForce(PairOfSub[s]) = {}
                /\ ~ beside' => \A d \in Calls : op[d].pc # "insert"
           /\ pc = "update" =>
                /\ kind \in {"activate", "overdue", "plan", "cancel", "cancelNow"}
                /\ kind = "activate" => until \in Nat
                /\ sub[s].status # "absent"
                /\ kind \in {"cancel", "cancelNow"} => sub[s].status # "canceled"
  <1>1. NoDate \in Dates /\ beside \in BOOLEAN
    BY DEF Dates, Frame, ContractsTypeOK
  <1>2. ASSUME NEW kind \in {"create", "trial"}, Create(c, kind, s)
        PROVE  /\ Begins(c, kind, "insert", s, NoDate)
               /\ UNCHANGED <<vars, sub, held, loose>> /\ beside' \in BOOLEAN /\ (~ beside' => ~ beside)
               /\ sub[s].status = "absent"
               /\ \A d \in Calls : op[d].pc = "insert" => op[d].sub # s
               /\ InForce(PairOfSub[s]) = {}
               /\ ~ beside' => \A d \in Calls : op[d].pc # "insert"
    BY <1>1, <1>2 DEF Create
  <1>3. ASSUME Activate(c, s)
        PROVE  /\ Begins(c, "activate", "update", s, now + Term) /\ now + Term \in Nat
               /\ now + Term \in Dates /\ sub[s].status # "absent"
               /\ UNCHANGED <<vars, sub, held, loose, beside>>
    BY <1>3, Known, ContractsAssumption DEF Activate, Frame, Dates
  <1>4. ASSUME MarkOverdue(c, s)
        PROVE  /\ Begins(c, "overdue", "update", s, NoDate) /\ sub[s].status # "absent"
               /\ UNCHANGED <<vars, sub, held, loose, beside>>
    BY <1>4 DEF MarkOverdue
  <1>5. ASSUME ChangePlan(c, s)
        PROVE  /\ Begins(c, "plan", "update", s, NoDate) /\ sub[s].status # "absent"
               /\ UNCHANGED <<vars, sub, held, loose, beside>>
    BY <1>5 DEF ChangePlan
  <1>6. ASSUME NEW kind \in {"cancel", "cancelNow"}, Cancel(c, kind, s)
        PROVE  /\ Begins(c, kind, "update", s, NoDate)
               /\ sub[s].status \notin {"absent", "canceled"}
               /\ UNCHANGED <<vars, sub, held, loose, beside>>
    BY <1>6 DEF Cancel
  <1>7. CASE \E kind \in {"create", "trial"} : Create(c, kind, s)
    <2>1. PICK kind \in {"create", "trial"} : Create(c, kind, s)
      BY <1>7
    <2>2. kind \in Kinds
      BY DEF Kinds
    <2> QED
      BY <1>1, <1>2, <2>1, <2>2
  <1>8. CASE Activate(c, s)
    <2>1. "activate" \in Kinds
      BY DEF Kinds
    <2> QED
      BY <1>1, <1>3, <1>8, <2>1
  <1>9. CASE MarkOverdue(c, s)
    <2>1. "overdue" \in Kinds
      BY DEF Kinds
    <2> QED
      BY <1>1, <1>4, <1>9, <2>1
  <1>10. CASE ChangePlan(c, s)
    <2>1. "plan" \in Kinds
      BY DEF Kinds
    <2> QED
      BY <1>1, <1>5, <1>10, <2>1
  <1>11. CASE \E kind \in {"cancel", "cancelNow"} : Cancel(c, kind, s)
    <2>1. PICK kind \in {"cancel", "cancelNow"} : Cancel(c, kind, s)
      BY <1>11
    <2>2. kind \in Kinds
      BY DEF Kinds
    <2> QED
      BY <1>1, <1>6, <2>1, <2>2
  <1> QED
    BY <1>7, <1>8, <1>9, <1>10, <1>11

-----------------------------------------------------------------------------
(* The term that is paid for, as long as no rows are side by side, nothing *)
(* crossed a payment and nothing failed.                                   *)

Orderly == Frame /\ Single /\ Alone /\ Termly

\* Nobody comes to be paid for.
StillPaid == \A t \in Subs : PaidFor(t)' => PaidFor(t) /\ sub'[t].until = sub[t].until

LEMMA SamePaid ==
  ASSUME Frame, sub' = sub, loose \subseteq loose', now' = now \/ Tick
  PROVE  StillPaid
  <1>1. \A t \in Subs : sub[t].until \in Int
    BY DEF Frame, ContractsTypeOK, SubRow, Dates, NoDate
  <1>2. now \in Nat /\ Slack \in Nat /\ now' \in Nat /\ now' >= now
    BY Known, ContractsAssumption DEF Frame, Tick
  <1>3. ASSUME NEW t \in Subs, PaidFor(t)'
        PROVE  PaidFor(t)
    <2>1. /\ sub[t].status = "active" /\ PairOfSub[t] \notin loose
          /\ sub[t].until + Slack >= now'
      BY <1>3 DEF PaidFor
    <2>2. sub[t].until + Slack >= now
      BY <1>1, <1>2, <2>1
    <2> QED
      BY <2>1, <2>2 DEF PaidFor
  <1> QED
    BY <1>3 DEF StillPaid

LEMMA PaidKept ==
  ASSUME StillPaid
  PROVE  \A p : /\ Paid(p)' \subseteq Paid(p)
                /\ \A t \in Paid(p)' : sub'[t].until = sub[t].until
  BY DEF StillPaid, Paid

\* Whoever is at a licence while a payment is, is that payment.
LEMMA OnlyPayment ==
  ASSUME Orderly, NEW c \in Calls, NEW d \in Calls \ {c}, op[c].kind \in Touches
  PROVE  /\ op[d].kind # "activate"
         /\ op[c].kind = "activate" => op[d].kind \notin Touches
  BY DEF Orderly, Alone, Touching, Paying

LEMMA NoSweepPays ==
  ASSUME Orderly, NEW c \in Calls, op[c].kind = "activate"
  PROVE  \A w \in Sweepers : call[w] = Idle
  BY DEF Orderly, Alone, Paying

\* Where another caller is does not change.
LEMMA SameAt ==
  ASSUME NEW c \in Procs, Others(c), NEW d \in Calls \ {c}
  PROVE  /\ op'[d] = op[d] /\ call'[d] = call[d]
         /\ \A p \in Pairs : At(d, p)' <=> At(d, p)
  <1>1. op'[d] = op[d] /\ call'[d] = call[d]
    BY DEF Others, CallsKept, Procs
  <1> QED
    BY <1>1 DEF At, Pair

\* The pairs that rows and licences are of.
LEMMA PairsOK ==
  /\ \A s \in Subs : PairOfSub[s] \in Pairs
  /\ \A i \in Ids : PairOf[i] \in Pairs
  BY ContractsAssumption, LicensesAssumption

\* What the others rely on stays, if nobody comes to be paid for and the licences of
\* those that are stay as they are.
LEMMA OthersRely ==
  ASSUME Orderly, NEW c \in Procs, Others(c), StillPaid,
         \A i \in Ids : Paid(PairOf[i]) # {} /\ lic[i].status \in LiveStatuses =>
           lic'[i].status \in LiveStatuses /\ lic'[i].expires = lic[i].expires,
         lic' = lic \/ \A d \in Calls \ {c} : op[d].kind # "activate"
  PROVE  /\ \A d \in Calls \ {c} : UnpaidBy(d)' /\ PlannedBy(d)' /\ PayingBy(d)'
         /\ \A w \in Sweepers \ {c} : SweptBy(w)'
  <1>1. \A p : /\ Paid(p)' \subseteq Paid(p)
               /\ \A t \in Paid(p)' : sub'[t].until = sub[t].until
    BY PaidKept
  <1>2. ASSUME NEW d \in Calls \ {c}
        PROVE  UnpaidBy(d)' /\ PlannedBy(d)' /\ PayingBy(d)'
    <2>1. /\ op'[d] = op[d] /\ call'[d] = call[d] /\ op[d] \in Operation /\ call[d] \in Call
          /\ \A p \in Pairs : At(d, p)' <=> At(d, p)
      BY SameAt, Known DEF Orderly, Frame, ContractsTypeOK, Procs
    <2>2. UnpaidBy(d) /\ PlannedBy(d) /\ PayingBy(d)
      BY DEF Orderly, Termly
    <2>3. UnpaidBy(d)'
      <3> SUFFICES ASSUME NEW p \in Pairs, At(d, p)'
                   PROVE  /\ op'[d].kind \in {"trial", "issue", "revoke"} => Paid(p)' = {}
                          /\ op'[d].kind = "cancelNow" =>
                               IF op'[d].pc = "update" THEN Paid(p)' \subseteq {op'[d].sub}
                                                       ELSE Paid(p)' = {}
        BY DEF UnpaidBy
      <3>1. At(d, p)
        BY <2>1
      <3> QED
        BY <1>1, <2>1, <2>2, <3>1 DEF UnpaidBy
    <2>4. op[d].id \in Ids /\ call[d].id \in Ids
      BY <2>1 DEF Operation, Call
    <2>5. PlannedBy(d)'
      <3>1. /\ Paid(PairOf[op[d].id])' \subseteq Paid(PairOf[op[d].id])
            /\ Paid(PairOf[call[d].id])' \subseteq Paid(PairOf[call[d].id])
        BY <1>1, <2>1 DEF Paid
      <3> QED
        BY <2>1, <2>2, <2>4, <3>1 DEF PlannedBy
    <2>6. PayingBy(d)'
      <3>1. CASE op[d].kind # "activate"
        BY <2>1, <3>1 DEF PayingBy
      <3>2. CASE lic' = lic
        <4>1. op[d].pc = "emit" => Pair(d) \in Pairs /\ Pair(d)' = Pair(d)
          BY <2>1, PairsOK DEF Pair, Orderly, Frame, Shape, OpOK
        <4>2. \A p : Live(p)' = Live(p)
          BY <3>2 DEF Live
        <4>3. /\ Paid(PairOf[call[d].id])' \subseteq Paid(PairOf[call[d].id])
              /\ op[d].pc = "emit" => Paid(Pair(d))' \subseteq Paid(Pair(d))
              /\ Live(PairOf[call[d].id])' = Live(PairOf[call[d].id])
          BY <1>1, <2>1, <3>2, <4>1 DEF Paid, Live
        <4>4. \A t \in Subs : PaidFor(t)' => sub'[t].until = sub[t].until
          BY DEF StillPaid
        <4>5. \A p : \A t \in Paid(p) : t \in Subs
          BY DEF Paid
        <4>6. /\ \A t \in Paid(PairOf[call[d].id])' : PaidFor(t)'
              /\ \A t \in Paid(Pair(d))' : PaidFor(t)'
          BY DEF Paid
        <4>7. op[d].pc = "emit" /\ op[d].kind = "activate" =>
                \A t \in Paid(Pair(d))' : sub'[t].until = op'[d].until
          BY <2>1, <2>2, <4>3, <4>4, <4>5, <4>6 DEF PayingBy
        <4>8. call[d].pc \in {"insert", "read", "write"} /\ op[d].kind = "activate" =>
                \A t \in Paid(PairOf[call[d].id])' : call'[d].par.expires = sub'[t].until + Slack
          BY <2>1, <2>2, <4>3, <4>4, <4>5, <4>6 DEF PayingBy
        <4> QED
          BY <2>1, <2>2, <3>2, <4>3, <4>7, <4>8 DEF PayingBy
      <3> QED
        BY <3>1, <3>2
    <2> QED
      BY <2>3, <2>5, <2>6
  <1>3. ASSUME NEW w \in Sweepers \ {c}
        PROVE  SweptBy(w)'
    <2>1. call'[w] = call[w] /\ SweptBy(w)
      BY SweepersApart DEF Others, CallsKept, Orderly, Termly
    <2>2. /\ \A i \in call[w].todo : Paid(PairOf[i])' \subseteq Paid(PairOf[i])
          /\ Paid(PairOf[call[w].id])' \subseteq Paid(PairOf[call[w].id])
      BY <1>1, <2>1 DEF Paid
    <2> QED
      BY <2>1, <2>2 DEF SweptBy
  <1> QED
    BY <1>2, <1>3

\* No licence changes: only what c itself relies on has to be looked at.
LEMMA TermlyKept ==
  ASSUME Orderly, NEW c \in Procs, Others(c), StillPaid, lic' = lic,
         c \in Calls => /\ UnpaidBy(c)' /\ PlannedBy(c)' /\ PayingBy(c)'
                        /\ \A p \in Pairs : PaymentAt(c, p) => PaymentAt(c, p)',
         c \in Sweepers => SweptBy(c)'
  PROVE  Termly'
  <1>1. /\ \A d \in Calls \ {c} : UnpaidBy(d)' /\ PlannedBy(d)' /\ PayingBy(d)'
        /\ \A w \in Sweepers \ {c} : SweptBy(w)'
    BY OthersRely
  <1>2. TermComes'
    <2> SUFFICES ASSUME NEW t \in Subs, PaidFor(t)'
                 PROVE  HasTerm(t)' \/ \E d \in Calls : PaymentAt(d, PairOfSub[t])'
      BY DEF TermComes
    <2>1. PaidFor(t) /\ sub'[t].until = sub[t].until /\ PairOfSub[t] \in Pairs
      BY PairsOK DEF StillPaid
    <2>2. CASE HasTerm(t)
      BY <2>1, <2>2 DEF HasTerm, Live
    <2>3. ASSUME NEW d \in Calls, PaymentAt(d, PairOfSub[t])
          PROVE  PaymentAt(d, PairOfSub[t])'
      <3>1. CASE d = c
        BY <2>1, <2>3, <3>1
      <3>2. CASE d # c
        BY <2>1, <2>3, <3>2, SameAt DEF PaymentAt
      <3> QED
        BY <3>1, <3>2
    <2> QED
      BY <2>1, <2>2, <2>3 DEF Orderly, Termly, TermComes
  <1> QED
    BY <1>1, <1>2 DEF Termly

\* A caller that is at no licence relies on nothing.
LEMMA NothingBy ==
  ASSUME NEW c \in Calls,
         \A p \in Pairs : ~ At(c, p),
         op[c].pc \notin {"emit", "found"}, call[c].pc \notin {"insert", "read", "write"}
  PROVE  UnpaidBy(c) /\ PlannedBy(c) /\ PayingBy(c)
  BY DEF UnpaidBy, PlannedBy, PayingBy

LEMMA NothingByThen ==
  ASSUME NEW c \in Calls,
         op'[c].pc \in {"idle", "called"}, call'[c].pc \notin {"insert", "read", "write"}
  PROVE  UnpaidBy(c)' /\ PlannedBy(c)' /\ PayingBy(c)' /\ (\A p \in Pairs : ~ At(c, p)')
  <1>1. \A p \in Pairs : ~ At(c, p)'
    BY DEF At
  <1> QED
    BY <1>1 DEF UnpaidBy, PlannedBy, PayingBy

\* A caller that begins an operation.
LEMMA BeginsTermly ==
  ASSUME Orderly, NEW c \in Calls, NEW s \in Subs, NEW kind \in Kinds,
         NEW pc \in {"insert", "update"}, NEW until \in Dates, Begins(c, kind, pc, s, until),
         UNCHANGED <<vars, sub, held, loose>>,
         pc = "insert" => kind \in {"create", "trial"} /\ InForce(PairOfSub[s]) = {},
         pc = "update" =>
           /\ kind \in {"activate", "overdue", "plan", "cancel", "cancelNow"}
           /\ kind \in {"cancel", "cancelNow"} => sub[s].status \notin {"absent", "canceled"}
  PROVE  Termly'
  <1>1. /\ Moved(c) /\ op[c].pc = "idle" /\ op[c].kind = "none"
        /\ op'[c].pc = pc /\ op'[c].kind = kind /\ op'[c].sub = s
    BY BeginsOp DEF Orderly, Frame
  <1>2. lic' = lic /\ call' = call /\ sub' = sub /\ loose' = loose /\ now' = now
    BY DEF vars
  <1>3. /\ Others(c) /\ c \in Procs /\ c \notin Sweepers /\ call[c] = Idle
        /\ call'[c].pc = "idle"
    BY <1>1, <1>2, IdleOK, SweepersApart
       DEF Others, CallsKept, Moved, Procs, Orderly, Frame, Shape, CalledOut
  <1>4. \A p \in Pairs : At(c, p)' => p = PairOfSub[s]
    BY <1>1, <1>3 DEF At, Pair
  <1>5. StillPaid /\ \A p \in Pairs : Paid(p)' \subseteq Paid(p)
    BY <1>2, SamePaid, PaidKept DEF Orderly
  <1>6. UnpaidBy(c)'
    <2>1. ASSUME kind = "trial"
          PROVE  Paid(PairOfSub[s]) = {}
      BY <2>1 DEF Paid, PaidFor, InForce
    <2>2. ASSUME kind = "cancelNow"
          PROVE  pc = "update" /\ Paid(PairOfSub[s]) \subseteq {s}
      BY <2>2 DEF Paid, PaidFor, Orderly, Single, InForceSub
    <2>3. kind \notin {"issue", "revoke"}
      OBVIOUS
    <2> QED
      BY <1>1, <1>4, <1>5, <2>1, <2>2, <2>3, PairsOK DEF UnpaidBy
  <1>7. PlannedBy(c)' /\ PayingBy(c)'
    BY <1>1, <1>3 DEF PlannedBy, PayingBy
  <1>8. \A p \in Pairs : ~ PaymentAt(c, p)
    BY <1>1 DEF PaymentAt
  <1> QED
    BY <1>2, <1>3, <1>5, <1>6, <1>7, <1>8, TermlyKept

\* A trial that is inserted.
LEMMA InsertTermly ==
  ASSUME Orderly, NEW c \in Calls, Insert(c)
  PROVE  Termly'
  <1> DEFINE s == op[c].sub
  <1>1. /\ op[c].pc = "insert" /\ s \in Subs /\ sub[s].status = "absent"
        /\ op[c].kind \in {"create", "trial"}
        /\ lic' = lic /\ call' = call /\ loose' = loose
        /\ sub'[s].status \in {"trialing", "pending"}
        /\ \A t \in Subs \ {s} : sub'[t] = sub[t]
        /\ Moved(c)
        /\ \/ op'[c].pc = "idle" /\ op'[c].kind = "none"
           \/ /\ op[c].kind = "trial" /\ op'[c].kind = "trial" /\ op'[c].pc = "emit"
              /\ op'[c].sub = s
    BY Inserts DEF Orderly
  <1>2. /\ Others(c) /\ c \in Procs /\ c \notin Sweepers /\ call[c] = Idle
        /\ call'[c].pc = "idle"
    BY <1>1, IdleOK, SweepersApart
       DEF Others, CallsKept, Moved, Procs, Orderly, Frame, Shape, CalledOut
  <1>3. now' = now
    BY DEF Insert, vars
  <1>4. StillPaid
    BY <1>1, <1>3 DEF StillPaid, PaidFor
  <1>5. UnpaidBy(c)'
    <2>1. CASE op'[c].kind = "trial"
      <3>1. op[c].kind = "trial" /\ (\A p \in Pairs : At(c, p)' => At(c, p))
        BY <1>1, <1>2, <2>1 DEF At, Pair
      <3>2. \A p \in Pairs : Paid(p)' \subseteq Paid(p)
        BY <1>4, PaidKept
      <3> QED
        BY <2>1, <3>1, <3>2 DEF UnpaidBy, Orderly, Termly
    <2>2. CASE op'[c].kind # "trial"
      BY <1>1, <2>2 DEF UnpaidBy
    <2> QED
      BY <2>1, <2>2
  <1>6. PlannedBy(c)' /\ PayingBy(c)'
    BY <1>1 DEF PlannedBy, PayingBy
  <1>7. \A p \in Pairs : ~ PaymentAt(c, p)
    BY <1>1 DEF PaymentAt
  <1> QED
    BY <1>1, <1>2, <1>4, <1>5, <1>6, <1>7, TermlyKept

\* The UPDATE that begins the term, and those that end it.
LEMMA UpdateTermly ==
  ASSUME Orderly, Single', NEW c \in Calls, Update(c)
  PROVE  Termly'
  <1> DEFINE s == op[c].sub
  <1>1. /\ op[c].pc = "update" /\ s \in Subs /\ sub[s].status # "absent"
        /\ lic' = lic /\ call' = call
        /\ \A t \in Subs \ {s} : sub'[t] = sub[t]
        /\ Moved(c)
    BY Updates DEF Orderly
  <1>2. /\ Others(c) /\ c \in Procs /\ c \notin Sweepers /\ call[c] = Idle
        /\ call'[c].pc = "idle"
    BY <1>1, IdleOK, SweepersApart
       DEF Others, CallsKept, Moved, Procs, Orderly, Frame, Shape, CalledOut
  <1>3. \A p \in Pairs : ~ PaymentAt(c, p)
    BY <1>1 DEF PaymentAt
  <1>4. /\ now' = now
        /\ loose' = IF op[c].kind = "activate" THEN loose \ {Pair(c)} ELSE loose
    BY DEF Update, vars
  <1>5. CASE op[c].kind = "activate"
    <2>1. /\ sub'[s].status = "active" /\ sub'[s].until = op[c].until
          /\ op'[c].pc = "emit" /\ op'[c].kind = "activate" /\ op'[c].sub = s
          /\ op'[c].until = op[c].until
      BY <1>5, Updates DEF Orderly
    <2>2. \A d \in Calls \ {c} : op'[d] = op[d] /\ op[d].kind \notin Touches
      BY <1>5, <1>1, OnlyPayment DEF Moved, Touches
    <2>3. \A d \in Calls \ {c} : UnpaidBy(d)' /\ PlannedBy(d)' /\ PayingBy(d)'
      BY <2>2 DEF UnpaidBy, PlannedBy, PayingBy, Touches
    <2>4. UnpaidBy(c)' /\ PlannedBy(c)'
      BY <2>1 DEF UnpaidBy, PlannedBy
    <2>5. PayingBy(c)'
      <3>1. \A t \in Paid(Pair(c))' : t = s
        BY <1>1, <2>1 DEF Paid, PaidFor, Pair, Single, InForceSub
      <3> QED
        BY <1>2, <2>1, <3>1 DEF PayingBy
    <2>6. TermComes'
      <3> SUFFICES ASSUME NEW t \in Subs, PaidFor(t)'
                   PROVE  HasTerm(t)' \/ \E d \in Calls : PaymentAt(d, PairOfSub[t])'
        BY DEF TermComes
      <3>1. CASE t = s
        <4>1. At(c, PairOfSub[s])'
          BY <2>1 DEF At, Pair
        <4> QED
          BY <2>1, <3>1, <4>1 DEF PaymentAt
      <3>2. CASE t # s
        <4>1. sub'[t] = sub[t] /\ sub'[t].status = "active"
          BY <1>1, <3>2 DEF PaidFor
        <4>2. PairOfSub[t] # PairOfSub[s]
          BY <1>1, <2>1, <3>2, <4>1 DEF Single, InForceSub
        <4>3. PaidFor(t)
          BY <1>4, <1>5, <4>1, <4>2 DEF PaidFor, Pair
        <4>4. \A d \in Calls : ~ PaymentAt(d, PairOfSub[t])
          BY <1>3, <2>2, PairsOK DEF PaymentAt, Touches
        <4>5. HasTerm(t)
          BY <4>3, <4>4 DEF Orderly, Termly, TermComes
        <4> QED
          BY <1>1, <4>1, <4>5 DEF HasTerm, Live
      <3> QED
        BY <3>1, <3>2
    <2>7. \A w \in Sweepers : SweptBy(w)'
      <3>1. \A w \in Sweepers : call'[w] = Idle
        BY <1>1, <1>5, NoSweepPays
      <3> QED
        BY <3>1, IdleOK DEF SweptBy
    <2> QED
      BY <2>3, <2>4, <2>5, <2>6, <2>7 DEF Termly
  <1>6. CASE op[c].kind # "activate"
    <2>1. /\ \A t \in Subs : sub'[t].status = "active" => sub'[t] = sub[t]
          /\ op'[c].kind \in {"none", "plan", "cancelNow"}
          /\ op'[c].pc \in {"idle", "licence"}
          /\ op'[c].kind = "cancelNow" => op[c].kind = "cancelNow" /\ op'[c].pc = "licence"
                                          /\ op'[c].sub = s /\ sub'[s].status = "canceled"
      BY <1>1, <1>6, Updates DEF Orderly
    <2>2. StillPaid
      BY <1>4, <1>6, <2>1 DEF StillPaid, PaidFor
    <2>3. UnpaidBy(c)'
      <3>1. CASE op'[c].kind = "cancelNow"
        <4>1. \A p \in Pairs : At(c, p)' => At(c, p)
          BY <1>1, <1>2, <2>1, <3>1 DEF At, Pair
        <4>2. \A p \in Pairs : At(c, p) => Paid(p) \subseteq {s}
          BY <1>1, <2>1, <3>1 DEF Orderly, Termly, UnpaidBy
        <4>3. \A p \in Pairs : Paid(p)' \subseteq Paid(p)
          BY <2>2, PaidKept
        <4>4. \A p \in Pairs : s \notin Paid(p)'
          BY <2>1, <3>1 DEF Paid, PaidFor
        <4> QED
          BY <2>1, <3>1, <4>1, <4>2, <4>3, <4>4 DEF UnpaidBy
      <3>2. CASE op'[c].kind # "cancelNow"
        BY <2>1, <3>2 DEF UnpaidBy
      <3> QED
        BY <3>1, <3>2
    <2>4. PlannedBy(c)' /\ PayingBy(c)'
      BY <1>2, <2>1 DEF PlannedBy, PayingBy
    <2> QED
      BY <1>1, <1>2, <1>3, <2>2, <2>3, <2>4, TermlyKept
  <1> QED
    BY <1>5, <1>6

\* emit takes the term over to the licence it has found, or is to insert.
LEMMA EmitTermly ==
  ASSUME Orderly, NEW c \in Calls, Emit(c)
  PROVE  Termly'
  <1>1. /\ op[c].pc = "emit" /\ op[c].kind \in {"trial", "activate"} /\ Pair(c) \in Pairs
        /\ sub' = sub /\ lic' = lic /\ loose' = loose /\ now' = now
        /\ Moved(c) /\ op'[c].pc = "called" /\ op'[c].kind = op[c].kind
        /\ CallMoved(c)
        /\ PairOf[call'[c].id] = Pair(c)
        /\ op[c].kind = "activate" => call'[c].par.expires = op[c].until + Slack
        /\ \/ call'[c].pc = "read" /\ lic[call'[c].id].status \in LiveStatuses
           \/ call'[c].pc = "insert" /\ Live(Pair(c)) = {}
    BY Emits DEF Orderly
  <1>2. Others(c) /\ c \in Procs /\ c \notin Sweepers
    BY <1>1, SweepersApart DEF Others, CallsKept, CallMoved, Moved, Procs
  <1>3. StillPaid
    BY <1>1, SamePaid DEF Orderly
  <1>4. \A p \in Pairs : (At(c, p)' <=> At(c, p)) /\ Paid(p)' = Paid(p)
    BY <1>1 DEF At, Pair, Paid, PaidFor
  <1>5. UnpaidBy(c)'
    BY <1>1, <1>4 DEF UnpaidBy, Orderly, Termly
  <1>6. PlannedBy(c)'
    BY <1>1 DEF PlannedBy
  <1>7. PayingBy(c)'
    <2>1. Paid(PairOf[call[c].id])' = Paid(Pair(c))
      BY <1>1 DEF Paid, PaidFor
    <2>2. op[c].kind = "activate" =>
            \A t \in Paid(Pair(c)) : sub[t].until = op[c].until
      BY <1>1 DEF Orderly, Termly, PayingBy
    <2>3. Live(PairOf[call[c].id])' = Live(Pair(c))
      BY <1>1 DEF Live
    <2> QED
      BY <1>1, <2>1, <2>2, <2>3 DEF PayingBy
  <1>8. \A p \in Pairs : PaymentAt(c, p) => PaymentAt(c, p)'
    BY <1>1, <1>4 DEF PaymentAt
  <1> QED
    BY <1>1, <1>2, <1>3, <1>5, <1>6, <1>7, <1>8, TermlyKept

\* A change of plan or a cancellation finds the licence, or none.
LEMMA FindLicenceTermly ==
  ASSUME Orderly, NEW c \in Calls, FindLicence(c)
  PROVE  Termly'
  <1>1. /\ op[c].pc = "licence" /\ op[c].kind \in {"plan", "cancelNow"} /\ op[c].sub \in Subs
        /\ UNCHANGED <<vars, sub, loose>>
        /\ Moved(c)
        /\ \/ op'[c].pc = "idle" /\ op'[c].kind = "none"
           \/ /\ op'[c].pc = "found" /\ op'[c].kind = op[c].kind
              /\ op'[c].id \in Live(Pair(c))
    BY FindsLicence DEF Orderly
  <1>2. lic' = lic /\ call' = call /\ sub' = sub /\ loose' = loose /\ now' = now
    BY <1>1 DEF vars
  <1>3. /\ Others(c) /\ c \in Procs /\ c \notin Sweepers /\ call[c] = Idle
        /\ call'[c].pc = "idle"
    BY <1>1, <1>2, IdleOK, SweepersApart
       DEF Others, CallsKept, Moved, Procs, Orderly, Frame, Shape, CalledOut
  <1>4. StillPaid
    BY <1>2, SamePaid DEF Orderly
  <1>5. \A p \in Pairs : (At(c, p)' => At(c, p)) /\ Paid(p)' = Paid(p)
    BY <1>1, <1>2, <1>3 DEF At, Pair, Paid, PaidFor, Live
  <1>6. UnpaidBy(c)'
    <2>1. \A p \in Pairs : At(c, p) => (op[c].kind = "cancelNow" => Paid(p) = {})
      BY <1>1 DEF Orderly, Termly, UnpaidBy
    <2> QED
      BY <1>1, <1>5, <2>1 DEF UnpaidBy
  <1>7. PlannedBy(c)'
    BY <1>1, <1>2, <1>3 DEF PlannedBy, Live
  <1>8. PayingBy(c)'
    BY <1>1 DEF PayingBy
  <1>9. \A p \in Pairs : ~ PaymentAt(c, p)
    BY <1>1 DEF PaymentAt
  <1> QED
    BY <1>2, <1>3, <1>4, <1>6, <1>7, <1>8, <1>9, TermlyKept

\* renew and revoke read the licence that was found.
LEMMA OnLicenceTermly ==
  ASSUME Orderly, NEW c \in Calls, OnLicence(c)
  PROVE  Termly'
  <1>1. /\ op[c].pc = "found" /\ op[c].kind \in {"plan", "cancelNow"} /\ op[c].id \in Ids
        /\ sub' = sub /\ lic' = lic /\ loose' = loose /\ now' = now
        /\ Moved(c) /\ op'[c].pc = "called" /\ op'[c].kind = op[c].kind
        /\ CallMoved(c)
        /\ call'[c].id = op[c].id /\ call'[c].pc = "write"
        /\ op[c].kind = "plan" => call'[c].seen = lic[op[c].id]
    BY CallsLicence DEF Orderly
  <1>2. Others(c) /\ c \in Procs /\ c \notin Sweepers
    BY <1>1, SweepersApart DEF Others, CallsKept, CallMoved, Moved, Procs
  <1>3. StillPaid
    BY <1>1, SamePaid DEF Orderly
  <1>4. \A p \in Pairs : (At(c, p)' => At(c, p)) /\ Paid(p)' = Paid(p)
    BY <1>1 DEF At, Pair, Paid, PaidFor
  <1>5. UnpaidBy(c)'
    <2>1. \A p \in Pairs : At(c, p) => (op[c].kind = "cancelNow" => Paid(p) = {})
      BY <1>1 DEF Orderly, Termly, UnpaidBy
    <2> QED
      BY <1>1, <1>4, <2>1 DEF UnpaidBy
  <1>6. PlannedBy(c)'
    <2>1. op[c].kind = "plan" /\ Paid(PairOf[op[c].id]) # {} => lic[op[c].id].status \in LiveStatuses
      BY <1>1 DEF Orderly, Termly, PlannedBy
    <2>2. Paid(PairOf[call[c].id])' = Paid(PairOf[op[c].id])
      BY <1>1 DEF Paid, PaidFor
    <2> QED
      BY <1>1, <2>1, <2>2 DEF PlannedBy
  <1>7. PayingBy(c)'
    BY <1>1 DEF PayingBy
  <1>8. \A p \in Pairs : ~ PaymentAt(c, p)
    BY <1>1 DEF PaymentAt
  <1> QED
    BY <1>1, <1>2, <1>3, <1>5, <1>6, <1>7, <1>8, TermlyKept

\* The others who emit or revoke do so for a pair that counts as paid no longer; the
\* administrator's other requests rely on nothing.
LEMMA OutsideTermly ==
  ASSUME Orderly, NEW c \in Calls, Moved(c), CallMoved(c), UNCHANGED <<lic, sub, now>>,
         op[c].pc = "idle", op'[c].pc = "called", op'[c].kind \in {"issue", "admin", "revoke"},
         loose \subseteq loose',
         op'[c].kind # "admin" => PairOf[call'[c].id] \in loose'
  PROVE  Termly'
  <1>1. Others(c) /\ c \in Procs /\ c \notin Sweepers
    BY SweepersApart DEF Others, CallsKept, CallMoved, Moved, Procs
  <1>2. StillPaid
    BY SamePaid DEF Orderly
  <1>3. UnpaidBy(c)'
    <2>1. \A p \in Pairs : At(c, p)' => p = PairOf[call'[c].id]
      BY DEF At
    <2>2. \A p \in loose' : Paid(p)' = {}
      BY DEF Paid, PaidFor
    <2> QED
      BY <2>1, <2>2 DEF UnpaidBy
  <1>4. PlannedBy(c)' /\ PayingBy(c)'
    BY DEF PlannedBy, PayingBy
  <1>5. \A p \in Pairs : ~ PaymentAt(c, p)
    BY DEF PaymentAt, At
  <1> QED
    BY <1>1, <1>2, <1>3, <1>4, <1>5, TermlyKept

LEMMA IssueTermly ==
  ASSUME Orderly, NEW c \in Calls, NEW p \in Pairs, Issue(c, p)
  PROVE  Termly'
  BY Issues, OutsideTermly DEF Orderly

LEMMA AskTermly ==
  ASSUME Orderly, NEW c \in Calls, NEW i \in Ids,
         NEW o \in {"suspend", "reactivate", "revoke"},
         IF o = "revoke" THEN Revoke(c, i) ELSE Administer(c, o, i)
  PROVE  Termly'
  <1> DEFINE kind == IF o = "revoke" THEN "revoke" ELSE "admin"
  <1>1. /\ kind \in {"admin", "revoke"} /\ (kind = "revoke" <=> o = "revoke") /\ Frame
    BY DEF Orderly
  <1> HIDE DEF kind
  <1>2. /\ CallMoved(c) /\ UNCHANGED <<lic, now, failures>> /\ UNCHANGED <<sub, held, beside>>
        /\ loose' = IF o = "revoke" THEN loose \cup {PairOf[i]} ELSE loose
        /\ Moved(c) /\ op[c].pc = "idle" /\ op'[c].pc = "called" /\ op'[c].kind = kind
        /\ call'[c].id = i
    BY <1>1, Asks
  <1> QED
    BY <1>1, <1>2, OutsideTermly

\* The licence service is through with c, and no licence is changed.
LEMMA NoWriteTermly ==
  ASSUME Orderly, NEW c \in Calls, CallMoved(c), Moved(c), UNCHANGED <<sub, lic, loose, now>>,
         op'[c].pc = "idle", call'[c].pc = "idle",
         \A p \in Pairs : ~ PaymentAt(c, p)
  PROVE  Termly'
  <1>1. Others(c) /\ c \in Procs /\ c \notin Sweepers
    BY SweepersApart DEF Others, CallsKept, CallMoved, Moved, Procs
  <1>2. StillPaid
    BY SamePaid DEF Orderly
  <1> QED
    BY <1>1, <1>2, NothingByThen, TermlyKept

\* What is paid for has a live licence while no payment is on its way.
LEMMA PaidIsLive ==
  ASSUME Orderly, Paying = {}, NEW i \in Ids, Paid(PairOf[i]) # {}, ~ IndexRefuses(i)
  PROVE  lic[i].status \in LiveStatuses
  <1>1. PICK t \in Subs : PaidFor(t) /\ PairOfSub[t] = PairOf[i]
    BY DEF Paid
  <1>2. HasTerm(t)
    BY <1>1 DEF Orderly, Termly, TermComes, PaymentAt, Paying
  <1>3. PICK j \in Ids : PairOf[j] = PairOf[i] /\ lic[j].status \in LiveStatuses
    BY <1>1, <1>2 DEF HasTerm, Live
  <1> QED
    BY <1>3 DEF IndexRefuses, Live

\* What the other callers hold of a licence, and what is paid for, when licence i of
\* c is written and no payment is on its way: the write leaves a live licence with
\* the expiry it had, or is to a pair that nobody pays for.
LEMMA WriteKept ==
  ASSUME Orderly, NEW c \in Procs, Others(c), Paying = {}, NEW i \in Ids,
         UNCHANGED <<sub, loose, now>>,
         \A j \in Ids \ {i} : lic'[j] = lic[j],
         \/ Paid(PairOf[i]) = {}
         \/ /\ lic'[i].status \in LiveStatuses
            /\ lic'[i].expires = lic[i].expires,
         c \in Calls => op'[c].pc \in {"idle", "called"} /\ call'[c].pc = "notify",
         c \in Sweepers => SweptBy(c)'
  PROVE  Termly'
  <1>1. StillPaid
    BY SamePaid DEF Orderly
  <1>2. \A j \in Ids : Paid(PairOf[j]) # {} /\ lic[j].status \in LiveStatuses =>
          lic'[j].status \in LiveStatuses /\ lic'[j].expires = lic[j].expires
    OBVIOUS
  <1>3. /\ \A d \in Calls \ {c} : UnpaidBy(d)' /\ PlannedBy(d)' /\ PayingBy(d)'
        /\ \A w \in Sweepers \ {c} : SweptBy(w)'
    BY <1>1, <1>2, OthersRely DEF Paying
  <1>4. c \in Calls => UnpaidBy(c)' /\ PlannedBy(c)' /\ PayingBy(c)'
    BY NothingByThen
  <1>5. TermComes'
    <2> SUFFICES ASSUME NEW t \in Subs, PaidFor(t)'
                 PROVE  HasTerm(t)'
      BY DEF TermComes
    <2>1. PaidFor(t)
      BY <1>1 DEF StillPaid
    <2>2. PICK j \in Live(PairOfSub[t]) : lic[j].expires = sub[t].until + Slack
      BY <2>1 DEF Orderly, Termly, TermComes, PaymentAt, HasTerm, Paying
    <2>3. j \in Ids /\ PairOf[j] = PairOfSub[t] /\ lic[j].status \in LiveStatuses
      BY DEF Live
    <2>4. t \in Paid(PairOf[j])
      BY <2>1, <2>3 DEF Paid
    <2>5. lic'[j].status \in LiveStatuses /\ lic'[j].expires = lic[j].expires
      BY <1>2, <2>3, <2>4
    <2>6. j \in Live(PairOfSub[t])'
      BY <2>3, <2>5 DEF Live
    <2> QED
      BY <2>2, <2>5, <2>6 DEF HasTerm
  <1> QED
    BY <1>3, <1>4, <1>5 DEF Termly

\* A payment writes its term.
LEMMA GivesTerm ==
  ASSUME Orderly, NEW c \in Calls, CalledOut(c), CallMoved(c), Moved(c), op'[c].pc = "called",
         UNCHANGED <<sub, loose, now>>,
         op[c].kind = "activate", call[c].pc \in {"insert", "write"}, call[c].id \in Ids,
         call'[c].pc = "notify",
         \A i \in Ids \ {call[c].id} : lic'[i] = lic[i],
         lic'[call[c].id].status = "active",
         lic'[call[c].id].expires = call[c].par.expires
  PROVE  Termly'
  <1>1. op[c].pc = "called"
    BY DEF CalledOut
  <1>2. \A d \in Calls \ {c} : op'[d] = op[d] /\ op[d].kind \notin Touches
    BY OnlyPayment DEF Moved, Touches
  <1>3. \A d \in Calls \ {c} : UnpaidBy(d)' /\ PlannedBy(d)' /\ PayingBy(d)'
    BY <1>2 DEF UnpaidBy, PlannedBy, PayingBy, Touches
  <1>4. \A w \in Sweepers : SweptBy(w)'
    <2>1. \A w \in Sweepers : call'[w] = Idle
      BY NoSweepPays, SweepersApart DEF CallMoved
    <2> QED
      BY <2>1, IdleOK DEF SweptBy
  <1>5. TermComes'
    <2> SUFFICES ASSUME NEW t \in Subs, PaidFor(t)'
                 PROVE  HasTerm(t)'
      BY DEF TermComes
    <2>1. PaidFor(t)
      BY SamePaid DEF Orderly, StillPaid
    <2>2. CASE PairOf[call[c].id] = PairOfSub[t]
      <3>1. t \in Paid(PairOf[call[c].id])
        BY <2>1, <2>2 DEF Paid
      <3>2. call[c].par.expires = sub[t].until + Slack
        BY <3>1 DEF Orderly, Termly, PayingBy
      <3>3. call[c].id \in Live(PairOfSub[t])'
        BY <2>2 DEF Live, LiveStatuses
      <3> QED
        BY <3>2, <3>3 DEF HasTerm
    <2>3. CASE PairOf[call[c].id] # PairOfSub[t]
      <3>1. \A d \in Calls : ~ PaymentAt(d, PairOfSub[t])
        BY <1>1, <1>2, <2>3 DEF PaymentAt, At, Touches
      <3>2. PICK i \in Live(PairOfSub[t]) : lic[i].expires = sub[t].until + Slack
        BY <2>1, <3>1 DEF Orderly, Termly, TermComes, HasTerm
      <3>3. lic'[i] = lic[i] /\ i \in Live(PairOfSub[t])'
        BY <2>3 DEF Live
      <3> QED
        BY <3>2, <3>3 DEF HasTerm
    <2> QED
      BY <2>2, <2>3
  <1> QED
    BY <1>1, <1>3, <1>4, <1>5, NothingByThen DEF Termly

\* The INSERT of a licence.
LEMMA EmitInsertTermly ==
  ASSUME Orderly, NEW c \in Calls, LicenceStep(c), EmitInsert(c)
  PROVE  Termly'
  <1> DEFINE i == call[c].id
  <1>1. /\ IInv' /\ CallMoved(c) /\ CalledOut(c) /\ Moved(c) /\ c \in Procs
        /\ UNCHANGED <<sub, loose>>
        /\ call'[c] = Idle => op'[c].pc = "idle" /\ op'[c].kind = "none"
        /\ call'[c] # Idle => op'[c] = op[c]
    BY LicenceSteps DEF Orderly
  <1>2. /\ call[c].pc = "insert" /\ i \in Ids /\ lic[i].status = "absent" /\ now' = now
        /\ \/ IndexRefuses(i) /\ call'[c] = Idle /\ UNCHANGED lic
           \/ /\ \A j \in Ids \ {i} : lic'[j] = lic[j]
              /\ lic'[i].status = "active"
              /\ lic'[i].expires = call[c].par.expires
              /\ call'[c].pc = "notify"
    BY <1>1, InsertsCall DEF Orderly, Frame
  <1>3. /\ op[c].pc = "called" /\ op[c].kind \in {"trial", "activate", "issue"}
        /\ At(c, PairOf[i]) /\ PairOf[i] \in Pairs
    BY <1>1, <1>2, PairsOK DEF CalledOut, At
  <1>4. Others(c) /\ c \notin Sweepers /\ (call'[c].pc = "notify" => call'[c] # Idle)
    BY <1>1, IdleOK, SweepersApart DEF Others, CallsKept, CallMoved, Moved
  <1>5. CASE op[c].kind = "activate"
    <2>1. Live(PairOf[i]) = {}
      BY <1>2, <1>5 DEF Orderly, Termly, PayingBy
    <2>2. ~ IndexRefuses(i)
      BY <2>1 DEF IndexRefuses
    <2>3. op'[c].pc = "called"
      BY <1>1, <1>2, <1>3, <1>4, <2>2
    <2> HIDE DEF i
    <2> QED
      BY <1>1, <1>2, <1>5, <2>2, <2>3, GivesTerm DEF i
  <1>6. CASE op[c].kind # "activate"
    <2>1. Paid(PairOf[i]) = {}
      BY <1>3, <1>6 DEF Orderly, Termly, UnpaidBy
    <2>2. \A p \in Pairs : ~ PaymentAt(c, p)
      BY <1>6 DEF PaymentAt
    <2>3. CASE call'[c] = Idle /\ UNCHANGED lic
      BY <1>1, <1>2, <2>2, <2>3, IdleOK, NoWriteTermly
    <2>4. CASE /\ \A j \in Ids \ {i} : lic'[j] = lic[j]
               /\ call'[c].pc = "notify"
      <3>1. Paying = {}
        BY <1>3, <1>6, OnlyPayment DEF Paying, Touches
      <3>2. op'[c].pc = "called"
        BY <1>1, <1>3, <1>4, <2>4
      <3> HIDE DEF i
      <3> QED
        BY <1>1, <1>2, <1>4, <2>1, <2>4, <3>1, <3>2, WriteKept
    <2> QED
      BY <1>2, <2>3, <2>4
  <1> QED
    BY <1>5, <1>6

\* The UPDATE of a licence.
LEMMA WriteTermly ==
  ASSUME Orderly, NEW c \in Calls, LicenceStep(c), Write(c)
  PROVE  Termly'
  <1> DEFINE i == call[c].id
  <1>1. /\ IInv' /\ CallMoved(c) /\ CalledOut(c) /\ Moved(c) /\ c \in Procs
        /\ UNCHANGED <<sub, loose>>
        /\ call'[c] = Idle => op'[c].pc = "idle" /\ op'[c].kind = "none"
        /\ call'[c] # Idle => op'[c] = op[c]
    BY LicenceSteps DEF Orderly
  <1>2. call[c].pc = "write"
    BY DEF Write
  <1>3. /\ op[c].pc = "called"
        /\ op[c].kind \in {"trial", "activate", "issue", "plan", "cancelNow", "revoke", "admin"}
        /\ op[c].kind \in {"trial", "activate", "issue"} =>
             call[c].op = "renew" /\ call[c].par.expires # Keep
        /\ op[c].kind = "plan" => call[c].op = "renew" /\ call[c].par.expires = Keep
        /\ op[c].kind \in {"cancelNow", "revoke"} => call[c].op = "revoke"
        /\ op[c].kind = "admin" => call[c].op \in {"suspend", "reactivate"}
    BY <1>1, <1>2 DEF CalledOut
  <1>4. /\ i \in Ids /\ now' = now
        /\ \/ IndexRefuses(i) /\ call[c].op # "revoke" /\ call'[c] = Idle /\ UNCHANGED lic
           \/ /\ \A j \in Ids \ {i} : lic'[j] = lic[j]
              /\ call[c].op \in {"suspend", "reactivate"} =>
                   /\ ~ IndexRefuses(i)
                   /\ lic'[i].status \in LiveStatuses
                   /\ lic'[i].expires = lic[i].expires
              /\ call[c].op = "renew" => /\ lic'[i].status = "active"
                                         /\ lic'[i].expires = Expiry(call[c])
              /\ call'[c].pc = "notify"
    BY <1>1, WritesCall DEF Orderly, Frame
  <1>5. At(c, PairOf[i]) /\ PairOf[i] \in Pairs
    BY <1>2, <1>3, <1>4, PairsOK DEF At
  <1>6. Others(c) /\ c \notin Sweepers /\ (call'[c].pc = "notify" => call'[c] # Idle)
    BY <1>1, IdleOK, SweepersApart DEF Others, CallsKept, CallMoved, Moved
  <1>7. CASE op[c].kind = "activate"
    <2>1. lic[i].status \in LiveStatuses
      BY <1>2, <1>7 DEF Orderly, Termly, PayingBy
    <2>2. ~ IndexRefuses(i)
      BY <1>4, <2>1 DEF IndexRefuses, Live, Orderly, Frame, IInv, OneLiveLicence
    <2>3. Expiry(call[c]) = call[c].par.expires
      BY <1>3, <1>7 DEF Expiry
    <2>4. op'[c].pc = "called"
      BY <1>1, <1>3, <1>4, <1>6, <2>2
    <2> HIDE DEF i
    <2> QED
      BY <1>1, <1>2, <1>3, <1>4, <1>7, <2>2, <2>3, <2>4, GivesTerm DEF i
  <1>8. CASE op[c].kind # "activate"
    <2>1. \A p \in Pairs : ~ PaymentAt(c, p)
      BY <1>8 DEF PaymentAt
    <2>2. Paying = {}
      BY <1>3, <1>8, OnlyPayment DEF Paying, Touches
    <2>3. CASE call'[c] = Idle /\ UNCHANGED lic
      BY <1>1, <1>4, <2>1, <2>3, IdleOK, NoWriteTermly
    <2>4. CASE /\ \A j \in Ids \ {i} : lic'[j] = lic[j]
               /\ call[c].op \in {"suspend", "reactivate"} =>
                    /\ ~ IndexRefuses(i)
                    /\ lic'[i].status \in LiveStatuses
                    /\ lic'[i].expires = lic[i].expires
               /\ call[c].op = "renew" => /\ lic'[i].status = "active"
                                          /\ lic'[i].expires = Expiry(call[c])
               /\ call'[c].pc = "notify"
      <3>1. \/ Paid(PairOf[i]) = {}
            \/ /\ lic'[i].status \in LiveStatuses /\ lic'[i].expires = lic[i].expires
        <4>1. CASE op[c].kind \in {"trial", "issue", "cancelNow", "revoke"}
          BY <1>3, <1>5, <4>1 DEF Orderly, Termly, UnpaidBy
        <4>2. CASE op[c].kind = "plan"
          BY <1>2, <1>3, <2>4, <4>2 DEF Orderly, Termly, PlannedBy, Expiry, LiveStatuses
        <4>3. CASE op[c].kind = "admin"
          BY <1>3, <2>4, <4>3
        <4> QED
          BY <1>3, <1>8, <4>1, <4>2, <4>3
      <3>2. op'[c].pc = "called"
        BY <1>1, <1>3, <1>6, <2>4
      <3> HIDE DEF i
      <3> QED
        BY <1>1, <1>4, <1>6, <2>2, <2>4, <3>1, <3>2, WriteKept
    <2> QED
      BY <1>4, <2>3, <2>4
  <1> QED
    BY <1>7, <1>8

\* A step of the licence service that does not fail.
LEMMA LicenceStepTermly ==
  ASSUME Orderly, NEW c \in Calls, LicenceStep(c), failures' = failures
  PROVE  Termly'
  <1>1. /\ IInv' /\ CallMoved(c) /\ CalledOut(c) /\ Moved(c) /\ c \in Procs
        /\ UNCHANGED <<sub, loose>>
        /\ call'[c] = Idle => op'[c].pc = "idle" /\ op'[c].kind = "none"
        /\ call'[c] # Idle => op'[c] = op[c]
        /\ RenewRead(c) \/ Notify(c) \/ Fail(c) \/ EmitInsert(c) \/ Write(c)
    BY LicenceSteps DEF Orderly
  <1>2. Others(c) /\ c \notin Sweepers
    BY <1>1, SweepersApart DEF Others, CallsKept, CallMoved, Moved
  <1>3. CASE RenewRead(c)
    <2>1. call[c].pc = "read"
      BY <1>3 DEF RenewRead
    <2>2. /\ op[c].pc = "called" /\ op[c].kind \in {"trial", "activate", "issue"}
          /\ call[c].op = "renew"
      BY <1>1, <2>1 DEF CalledOut
    <2>3. /\ lic' = lic /\ now' = now /\ call'[c].pc = "write" /\ call'[c].id = call[c].id
          /\ call'[c].par = call[c].par
      BY <1>1, <1>3, <2>2, ReadsCall DEF Orderly, Frame
    <2>4. op'[c] = op[c]
      BY <1>1, <2>3, IdleOK
    <2>5. \A p \in Pairs : (At(c, p)' <=> At(c, p)) /\ Paid(p)' = Paid(p)
      BY <1>1, <2>1, <2>2, <2>3, <2>4 DEF At, Pair, Paid, PaidFor
    <2>6. StillPaid
      BY <1>1, <2>3, SamePaid DEF Orderly
    <2>7. UnpaidBy(c)'
      BY <2>4, <2>2, <2>5 DEF Orderly, Termly, UnpaidBy
    <2>8. PlannedBy(c)'
      BY <2>4, <2>2 DEF PlannedBy
    <2>9. PayingBy(c)'
      <3>1. PayingBy(c)
        BY DEF Orderly, Termly
      <3>2. Paid(PairOf[call[c].id])' = Paid(PairOf[call[c].id])
        BY <1>1, <2>3 DEF Paid, PaidFor
      <3> QED
        BY <1>1, <2>1, <2>2, <2>3, <2>4, <3>1, <3>2 DEF PayingBy
    <2>10. \A p \in Pairs : PaymentAt(c, p) => PaymentAt(c, p)'
      BY <2>4, <2>5 DEF PaymentAt
    <2> QED
      BY <1>1, <1>2, <2>3, <2>6, <2>7, <2>8, <2>9, <2>10, TermlyKept
  <1>4. CASE Notify(c)
    <2>1. call[c].job = "none" /\ call[c].todo = {} /\ op[c].pc = "called"
      BY <1>1 DEF CalledOut
    <2>2. call[c].pc = "notify" /\ call'[c] = Idle /\ UNCHANGED lic /\ now' = now
      BY <1>1, <1>4, <2>1, NotifiesCall DEF Orderly, Frame
    <2>3. \A p \in Pairs : ~ PaymentAt(c, p)
      BY <2>1, <2>2 DEF PaymentAt, At
    <2> QED
      BY <1>1, <2>2, <2>3, IdleOK, NoWriteTermly
  <1>5. CASE Fail(c)
    <2>1. failures' = failures + 1 /\ failures \in Nat
      BY <1>5, Known DEF Fail, Orderly, Frame
    <2> QED
      BY <2>1
  <1> QED
    BY <1>1, <1>3, <1>4, <1>5, EmitInsertTermly, WriteTermly

-----------------------------------------------------------------------------
(* The expiry jobs, and the days, while nothing crossed a payment.         *)

\* A job begins only while no payment is written, with its list of licences to
\* suspend.
LEMMA StartSweepTermly ==
  ASSUME Orderly, NEW w \in Sweepers, StartSweep(w)
  PROVE  Termly'
  <1>1. /\ \E job \in {"hourlyLicenses", "daily"} : Sweep(w, job)
        /\ UNCHANGED <<sub, op, loose>>
    BY DEF StartSweep
  <1>2. PICK job \in {"hourlyLicenses", "daily"} : Sweep(w, job)
    BY <1>1
  <1>3. IInv' /\ CallMoved(w) /\ w \in Procs /\ w \notin Calls /\ IInv
    BY <1>1, SweepSteps, SweepersApart DEF Orderly, Frame
  <1>4. /\ UNCHANGED <<lic, now, failures>>
        /\ call'[w].pc = "pick" /\ call'[w].job = job
    BY <1>2, <1>3, StartsSweep
  <1>5. Others(w) /\ SweptBy(w)'
    BY <1>1, <1>3, <1>4 DEF Others, CallsKept, CallMoved, SweptBy
  <1>6. StillPaid
    BY <1>1, <1>4, SamePaid DEF Orderly
  <1> QED
    BY <1>3, <1>4, <1>5, <1>6, TermlyKept

\* A trial that the hourly job takes for ended is of a pair that nobody pays for: the
\* licence of one that is paid for is live longer.
LEMMA TrialsUnpaid ==
  ASSUME Orderly, Paying = {}
  PROVE  \A i \in ExpiredTrials : Paid(PairOf[i]) = {}
  <1> SUFFICES ASSUME NEW i \in ExpiredTrials, NEW t \in Subs, PaidFor(t),
                      PairOfSub[t] = PairOf[i]
               PROVE  FALSE
    BY DEF Paid
  <1>1. /\ i \in Ids /\ lic[i].status = "active" /\ lic[i].expires # NoDate
        /\ lic[i].expires < now
    BY DEF ExpiredTrials
  <1>2. PICK j \in Live(PairOfSub[t]) : lic[j].expires = sub[t].until + Slack
    BY DEF Orderly, Termly, TermComes, PaymentAt, Paying, HasTerm
  <1>3. i = j
    BY <1>1, <1>2 DEF Live, LiveStatuses, Orderly, Frame, IInv, OneLiveLicence
  <1>4. sub[t].until + Slack >= now
    BY DEF PaidFor
  <1>5. sub[t].until \in Int /\ Slack \in Int /\ now \in Int
    BY Known, ContractsAssumption DEF Orderly, Frame, ContractsTypeOK, SubRow, Dates, NoDate
  <1> QED
    BY <1>1, <1>2, <1>3, <1>4, <1>5

\* The UPDATE of an expiry job.
LEMMA SweepWriteTermly ==
  ASSUME Orderly, NEW w \in Sweepers, SweepOn(w), Write(w), Paying = {}
  PROVE  Termly'
  <1> DEFINE i == call[w].id
  <1>1. /\ SweepPick(w) \/ SweepNext(w) \/ Step(w) \/ Fail(w)
        /\ UNCHANGED <<sub, op, loose>>
    BY DEF SweepOn
  <1>2. IInv' /\ CallMoved(w) /\ w \in Procs /\ w \notin Calls /\ IInv /\ SweepAt(w)
    BY <1>1, SweepSteps, SweepersApart DEF Orderly, Frame, Shape
  <1>3. call[w].pc = "write" /\ call[w].op \in {"suspend", "expireTrial"}
    BY <1>2, IdleOK DEF SweepAt, Write
  <1>4. /\ i \in Ids /\ now' = now
        /\ \/ call'[w] = Idle /\ UNCHANGED lic
           \/ /\ \A j \in Ids \ {i} : lic'[j] = lic[j]
              /\ call[w].op = "suspend" => /\ ~ IndexRefuses(i)
                                           /\ lic'[i].status \in LiveStatuses
                                           /\ lic'[i].expires = lic[i].expires
              /\ call'[w].pc = "notify"
              /\ call'[w].job = call[w].job /\ call'[w].todo = call[w].todo
    BY <1>2, <1>3, WritesCall
  <1>5. Others(w) /\ StillPaid
    BY <1>1, <1>2, <1>4, SamePaid DEF Others, CallsKept, CallMoved, Orderly
  <1>6. CASE call'[w] = Idle /\ UNCHANGED lic
    <2>1. SweptBy(w)'
      BY <1>6, IdleOK DEF SweptBy
    <2> QED
      BY <1>2, <1>5, <1>6, <2>1, TermlyKept
  <1>7. CASE /\ \A j \in Ids \ {i} : lic'[j] = lic[j]
             /\ call[w].op = "suspend" => /\ ~ IndexRefuses(i)
                                          /\ lic'[i].status \in LiveStatuses
                                          /\ lic'[i].expires = lic[i].expires
             /\ call'[w].pc = "notify"
             /\ call'[w].job = call[w].job /\ call'[w].todo = call[w].todo
    <2>1. SweptBy(w)
      BY DEF Orderly, Termly
    <2>2. SweptBy(w)'
      <3>1. \A p : Paid(p)' \subseteq Paid(p)
        BY <1>5, PaidKept
      <3>2. \A j \in call'[w].todo : Paid(PairOf[j])' \subseteq Paid(PairOf[j])
        BY <3>1
      <3> QED
        BY <1>7, <2>1, <3>2 DEF SweptBy
    <2>3. call[w].op = "expireTrial" => Paid(PairOf[i]) = {}
      BY <1>3, <2>1 DEF SweptBy
    <2> HIDE DEF i
    <2> QED
      BY <1>1, <1>2, <1>3, <1>4, <1>5, <1>7, <2>2, <2>3, WriteKept
  <1> QED
    BY <1>4, <1>6, <1>7

\* The other steps of an expiry job.
LEMMA SweepOnTermly ==
  ASSUME Orderly, NEW w \in Sweepers, SweepOn(w), Paying = {}, failures' = failures
  PROVE  Termly'
  <1>1. /\ SweepPick(w) \/ SweepNext(w) \/ Step(w) \/ Fail(w)
        /\ UNCHANGED <<sub, op, loose>>
    BY DEF SweepOn
  <1>2. /\ IInv' /\ CallMoved(w) /\ w \in Procs /\ w \notin Calls /\ IInv /\ SweepAt(w)
        /\ now' = now /\ ~ EmitInsert(w) /\ ~ RenewRead(w)
    BY <1>1, SweepSteps, SweepersApart DEF Orderly, Frame, Shape
  <1>3. Others(w) /\ StillPaid /\ SweptBy(w)
    BY <1>1, <1>2, SamePaid DEF Others, CallsKept, CallMoved, Orderly, Termly
  <1>4. \A p : Paid(p)' \subseteq Paid(p)
    BY <1>3, PaidKept
  <1>5. CASE SweepPick(w)
    <2>1. call[w].job # "none"
      BY <1>2, <1>5, IdleOK DEF SweepAt, SweepPick
    <2>2. UNCHANGED lic /\ call'[w].job = call[w].job
      BY <1>2, <1>5, <2>1, SweepPicks
    <2>3. PICK i \in call[w].todo :
            /\ call'[w].todo = call[w].todo \ {i}
            /\ \/ call'[w].pc = "pick"
               \/ /\ call'[w].pc = "write" /\ call'[w].id = i
                  /\ \/ call'[w].op = "suspend"
                     \/ call'[w].op = "expireTrial" /\ call[w].job = "hourlyTrials"
      BY <1>2, <1>5, <2>1, SweepPicks
    <2>4. \A j \in call[w].todo : Paid(PairOf[j])' \subseteq Paid(PairOf[j])
      BY <1>4
    <2>5. call[w].job = "hourlyTrials" => \A j \in call[w].todo : Paid(PairOf[j])' = {}
      BY <1>3, <2>4 DEF SweptBy
    <2>6. call'[w].job = "hourlyTrials" => \A j \in call'[w].todo : Paid(PairOf[j])' = {}
      BY <2>2, <2>3, <2>5
    <2>7. call'[w].pc = "write" /\ call'[w].op = "expireTrial" => Paid(PairOf[call[w].id])' = {}
      <3>1. call'[w].id = i => Paid(PairOf[call[w].id])' = Paid(PairOf[i])'
        BY DEF Paid
      <3> QED
        BY <2>3, <2>5, <3>1
    <2>8. SweptBy(w)'
      BY <2>6, <2>7 DEF SweptBy
    <2> QED
      BY <1>2, <1>3, <2>2, <2>8, TermlyKept
  <1>6. CASE SweepNext(w)
    <2>1. /\ UNCHANGED lic
          /\ \/ call'[w] = Idle
             \/ /\ call'[w].pc = "pick" /\ call'[w].job = "hourlyTrials"
                /\ call'[w].todo = ExpiredTrials
      BY <1>2, <1>6, SweepsNext
    <2>2. \A i \in ExpiredTrials : Paid(PairOf[i])' = {}
      BY <1>4, TrialsUnpaid
    <2>3. SweptBy(w)'
      BY <2>1, <2>2, IdleOK DEF SweptBy
    <2> QED
      BY <1>2, <1>3, <2>1, <2>3, TermlyKept
  <1>7. CASE Notify(w)
    <2>1. call[w].job # "none"
      BY <1>2, <1>7, IdleOK DEF SweepAt, Notify
    <2>2. /\ UNCHANGED lic
          /\ call'[w].pc = "pick" /\ call'[w].job = call[w].job /\ call'[w].todo = call[w].todo
      BY <1>2, <1>7, <2>1, SweepNotifies
    <2>3. \A j \in call[w].todo : Paid(PairOf[j])' \subseteq Paid(PairOf[j])
      BY <1>4
    <2>4. SweptBy(w)'
      BY <1>3, <2>2, <2>3 DEF SweptBy
    <2> QED
      BY <1>2, <1>3, <2>2, <2>4, TermlyKept
  <1>8. CASE Fail(w)
    <2>1. failures' = failures + 1 /\ failures \in Nat
      BY <1>8, Known DEF Fail, Orderly, Frame
    <2> QED
      BY <2>1
  <1>9. CASE Write(w)
    BY <1>9, SweepWriteTermly
  <1> QED
    BY <1>1, <1>2, <1>5, <1>6, <1>7, <1>8, <1>9 DEF Step

\* A day passes: what is paid for may be over.
LEMMA StutterTermly ==
  ASSUME Orderly, UNCHANGED <<lic, call, sub, op, loose>>, now' = now \/ Tick
  PROVE  Termly'
  <1>1. StillPaid
    BY SamePaid DEF Orderly
  <1>2. \A p : Paid(p)' \subseteq Paid(p)
    BY <1>1, PaidKept
  <1>3. \A p \in Pairs : /\ Live(p)' = Live(p)
                         /\ \A c \in Calls : At(c, p)' <=> At(c, p)
    BY DEF Live, At, Pair
  <1>4. ASSUME NEW c \in Calls
        PROVE  UnpaidBy(c)' /\ PlannedBy(c)' /\ PayingBy(c)'
    <2>1. UnpaidBy(c) /\ PlannedBy(c) /\ PayingBy(c)
      BY DEF Orderly, Termly
    <2>2. UnpaidBy(c)'
      <3> SUFFICES ASSUME NEW p \in Pairs, At(c, p)'
                   PROVE  /\ op'[c].kind \in {"trial", "issue", "revoke"} => Paid(p)' = {}
                          /\ op'[c].kind = "cancelNow" =>
                               IF op'[c].pc = "update" THEN Paid(p)' \subseteq {op'[c].sub}
                                                       ELSE Paid(p)' = {}
        BY DEF UnpaidBy
      <3> QED
        BY <1>2, <1>3, <2>1 DEF UnpaidBy
    <2>3. /\ Paid(PairOf[op[c].id])' \subseteq Paid(PairOf[op[c].id])
          /\ Paid(PairOf[call[c].id])' \subseteq Paid(PairOf[call[c].id])
          /\ Paid(Pair(c))' \subseteq Paid(Pair(c))
          /\ Live(PairOf[call[c].id])' = Live(PairOf[call[c].id])
      BY <1>2 DEF Paid, Live, Pair
    <2>4. PlannedBy(c)'
      BY <2>1, <2>3 DEF PlannedBy
    <2>5. PayingBy(c)'
      BY <2>1, <2>3 DEF PayingBy
    <2> QED
      BY <2>2, <2>4, <2>5
  <1>5. ASSUME NEW w \in Sweepers
        PROVE  SweptBy(w)'
    <2>1. /\ \A i \in call[w].todo : Paid(PairOf[i])' \subseteq Paid(PairOf[i])
          /\ Paid(PairOf[call[w].id])' \subseteq Paid(PairOf[call[w].id])
      BY <1>2 DEF Paid
    <2> QED
      BY <2>1 DEF SweptBy, Orderly, Termly
  <1>6. TermComes'
    <2> SUFFICES ASSUME NEW t \in Subs, PaidFor(t)'
                 PROVE  HasTerm(t)' \/ \E c \in Calls : PaymentAt(c, PairOfSub[t])'
      BY DEF TermComes
    <2>1. PaidFor(t) /\ PairOfSub[t] \in Pairs
      BY <1>1, PairsOK DEF StillPaid
    <2>2. HasTerm(t) \/ \E c \in Calls : PaymentAt(c, PairOfSub[t])
      BY <2>1 DEF Orderly, Termly, TermComes
    <2>3. HasTerm(t) => HasTerm(t)'
      BY DEF HasTerm, Live
    <2>4. \A c \in Calls : PaymentAt(c, PairOfSub[t]) => PaymentAt(c, PairOfSub[t])'
      BY <1>3, <2>1 DEF PaymentAt
    <2> QED
      BY <2>2, <2>3, <2>4
  <1> QED
    BY <1>4, <1>5, <1>6 DEF Termly

-----------------------------------------------------------------------------
(* The invariant.                                                          *)

LEMMA InitCInv == ContractsInit => CInv
  <1> SUFFICES ASSUME ContractsInit PROVE CInv
    OBVIOUS
  <1>1. IInv /\ \A c \in Procs : call[c] = Idle
    BY InitIInv DEF ContractsInit, Init
  <1>2. /\ sub = [s \in Subs |-> NoSub] /\ op = [c \in Calls |-> NoOp] /\ begun = 0
        /\ held = {} /\ loose = {} /\ beside = FALSE /\ crossed = FALSE
    BY DEF ContractsInit
  <1>3. NoSub \in SubRow /\ NoSub.status = "absent"
    BY DEF NoSub, SubRow, SubStatuses, Dates
  <1>4. ContractsTypeOK
    BY <1>2, <1>3, NoOpOK DEF ContractsTypeOK
  <1>5. /\ \A c \in Calls : /\ op[c].pc = "idle" /\ op[c].kind = "none" /\ c \in Procs
                            /\ call[c] = Idle /\ call[c].pc = "idle"
        /\ \A c \in Procs : call[c].pc = "idle" /\ call[c].todo = {}
        /\ \A w \in Sweepers : call[w] = Idle
    BY <1>1, <1>2, NoOpOK, IdleOK DEF Procs
  <1>6. Shape /\ SeenWithIt
    BY <1>5 DEF Shape, OpOK, SweepAt, SeenWithIt, InHand
  <1>7. Single /\ Alone
    BY <1>2, <1>3, <1>5 DEF Single, InForceSub, Alone, Paying
  <1>8. Termly
    <2>1. \A c \in Calls, p \in Pairs : ~ At(c, p)
      BY <1>5 DEF At
    <2>2. \A c \in Calls : UnpaidBy(c) /\ PlannedBy(c) /\ PayingBy(c)
      BY <1>5, <2>1, NothingBy
    <2>3. TermComes
      BY <1>2, <1>3 DEF TermComes, PaidFor
    <2>4. \A w \in Sweepers : SweptBy(w)
      BY <1>5, IdleOK DEF SweptBy
    <2> QED
      BY <2>2, <2>3, <2>4 DEF Termly
  <1> QED
    BY <1>1, <1>4, <1>6, <1>7, <1>8 DEF CInv, Frame

LEMMA NextCInv == CInv /\ [ContractsNext]_allVars => CInv'
  <1> SUFFICES ASSUME CInv, [ContractsNext]_allVars PROVE CInv'
    OBVIOUS
  <1> DEFINE Good == /\ Frame'
                     /\ Orderly /\ Single' /\ failures' = 0 /\ failures = 0 => Termly'
                     /\ ~ beside' => ~ beside
                     /\ ~ crossed' => ~ crossed
                     /\ failures' = 0 => failures = 0
  <1>1. Frame /\ failures \in Nat
    BY Known DEF CInv, Frame
  <1>2. ASSUME NEW c \in Calls, NEW s \in Subs,
               \/ \E kind \in {"create", "trial"} : Create(c, kind, s)
               \/ Activate(c, s) \/ MarkOverdue(c, s) \/ ChangePlan(c, s)
               \/ \E kind \in {"cancel", "cancelNow"} : Cancel(c, kind, s)
        PROVE  Good
    <2>1. PICK kind \in Kinds, pc \in {"insert", "update"}, until \in Dates :
            /\ Begins(c, kind, pc, s, until)
            /\ UNCHANGED <<vars, sub, held, loose>> /\ beside' \in BOOLEAN /\ (~ beside' => ~ beside)
            /\ pc = "insert" =>
                 /\ kind \in {"create", "trial"} /\ sub[s].status = "absent"
                 /\ \A d \in Calls : op[d].pc = "insert" => op[d].sub # s
                 /\ InForce(PairOfSub[s]) = {}
                 /\ ~ beside' => \A d \in Calls : op[d].pc # "insert"
            /\ pc = "update" =>
                 /\ kind \in {"activate", "overdue", "plan", "cancel", "cancelNow"}
                 /\ kind = "activate" => until \in Nat
                 /\ sub[s].status # "absent"
                 /\ kind \in {"cancel", "cancelNow"} => sub[s].status # "canceled"
      BY <1>1, <1>2, LooksUp
    <2>2. Frame'
      BY <1>1, <2>1, BeginsFrame
    <2>3. Orderly => Termly'
      BY <2>1, BeginsTermly
    <2>4. ~ crossed' => ~ crossed
      BY <1>1, <2>1, BeginsOp DEF Frame
    <2>5. failures' = failures
      BY <2>1 DEF vars
    <2> QED
      BY <2>1, <2>2, <2>3, <2>4, <2>5
  <1>3. ASSUME NEW c \in Calls, Insert(c)
        PROVE  Good
    <2>1. beside' = beside /\ crossed' = crossed /\ failures' = failures
      BY <1>3 DEF Insert, vars
    <2> QED
      BY <1>1, <1>3, <2>1, InsertFrame, InsertTermly
  <1>4. ASSUME NEW c \in Calls, Update(c)
        PROVE  Good
    <2>1. (~ beside' => ~ beside) /\ crossed' = crossed /\ failures' = failures
      BY <1>1, <1>4, Updates DEF Update, vars
    <2> QED
      BY <1>1, <1>4, <2>1, UpdateFrame, UpdateTermly
  <1>5. ASSUME NEW c \in Calls, Emit(c)
        PROVE  Good
    BY <1>1, <1>5, EmitFrame, EmitTermly, Emits
  <1>6. ASSUME NEW c \in Calls, FindLicence(c)
        PROVE  Good
    <2>1. beside' = beside /\ crossed' = crossed /\ failures' = failures
      BY <1>6 DEF FindLicence, vars
    <2> QED
      BY <1>1, <1>6, <2>1, FindLicenceFrame, FindLicenceTermly
  <1>7. ASSUME NEW c \in Calls, OnLicence(c)
        PROVE  Good
    BY <1>1, <1>7, OnLicenceFrame, OnLicenceTermly, CallsLicence
  <1>8. ASSUME NEW c \in Calls, NEW p \in Pairs, Issue(c, p)
        PROVE  Good
    <2>1. Begins(c, "issue", "called", "none", NoDate) /\ UNCHANGED <<beside, failures>>
      BY <1>1, <1>8, Issues
    <2>2. ~ crossed' => ~ crossed
      BY <2>1 DEF Begins
    <2> QED
      BY <1>1, <1>8, <2>1, <2>2, IssueFrame, IssueTermly
  <1>9. ASSUME NEW c \in Calls, NEW i \in Ids, NEW o \in {"suspend", "reactivate", "revoke"},
               IF o = "revoke" THEN Revoke(c, i) ELSE Administer(c, o, i)
        PROVE  Good
    <2>1. UNCHANGED <<beside, failures>> /\ (~ crossed' => ~ crossed)
      BY <1>9 DEF Revoke, Administer, Begins, Begin
    <2> QED
      BY <1>1, <1>9, <2>1, AskFrame, AskTermly
  <1>10. ASSUME NEW c \in Calls, BreakOff(c)
         PROVE  Frame' /\ failures' # 0
    BY <1>1, <1>10, BreakOffFrame
  <1>11. ASSUME NEW c \in Calls, LicenceStep(c)
         PROVE  Good
    <2>1. beside' = beside /\ crossed' = crossed
      BY <1>11 DEF LicenceStep
    <2>2. failures' = failures \/ failures' = failures + 1
      BY <1>11 DEF LicenceStep, Step, EmitInsert, RenewRead, Notify, Fail, Write
    <2>3. failures' = 0 => failures = 0
      BY <1>1, <2>2
    <2> QED
      BY <1>1, <1>11, <2>1, <2>3, LicenceStepFrame, LicenceStepTermly
  <1>12. ASSUME NEW w \in Sweepers, StartSweep(w)
         PROVE  Good
    <2>1. beside' = beside /\ failures' = failures
      BY <1>12 DEF StartSweep, Sweep
    <2> QED
      BY <1>1, <1>12, <2>1, StartSweepFrame, StartSweepTermly
  <1>13. ASSUME NEW w \in Sweepers, SweepOn(w)
         PROVE  /\ Frame' /\ beside' = beside /\ crossed' = crossed
                /\ failures' = 0 => failures = 0
                /\ Orderly /\ ~ crossed /\ failures' = 0 /\ failures = 0 => Termly'
    <2>1. beside' = beside /\ crossed' = crossed
      BY <1>13 DEF SweepOn
    <2>2. failures' = failures \/ failures' = failures + 1
      BY <1>13 DEF SweepOn, Step, SweepPick, SweepNext, EmitInsert, RenewRead, Notify, Fail, Write
    <2>3. failures' = 0 => failures = 0
      BY <1>1, <2>2
    <2> QED
      BY <1>1, <1>13, <2>1, <2>3, SweepOnFrame, SweepOnTermly
  <1>14. ASSUME (Tick /\ UNCHANGED contractVars) \/ UNCHANGED allVars
         PROVE  Good
    <2>1. (Tick \/ UNCHANGED vars) /\ UNCHANGED contractVars
      BY <1>14 DEF allVars
    <2>2. /\ UNCHANGED <<lic, call, sub, op, loose>> /\ (now' = now \/ Tick)
          /\ beside' = beside /\ crossed' = crossed /\ failures' = failures
      BY <2>1 DEF Tick, vars, contractVars
    <2>3. Frame'
      BY <1>1, <2>1, TickFrame
    <2>4. Orderly => Termly'
      BY <2>2, StutterTermly
    <2> QED
      BY <2>2, <2>3, <2>4
  <1>15. CASE Good
    <2> SUFFICES ASSUME ~ beside', ~ crossed', failures' = 0 PROVE Termly'
      BY <1>15 DEF CInv
    <2>1. ~ beside /\ ~ crossed /\ failures = 0
      BY <1>15
    <2>2. Orderly
      BY <2>1 DEF CInv, Frame, Orderly
    <2>3. Single'
      BY <1>15 DEF Frame
    <2> QED
      BY <1>15, <2>1, <2>2, <2>3
  <1>16. CASE Frame' /\ failures' # 0
    BY <1>16 DEF CInv
  <1>17. ASSUME NEW w \in Sweepers, SweepOn(w)
         PROVE  CInv'
    <2> SUFFICES ASSUME ~ beside', ~ crossed', failures' = 0 PROVE Termly'
      BY <1>13, <1>17 DEF CInv
    <2>1. ~ beside /\ ~ crossed /\ failures = 0
      BY <1>13, <1>17
    <2>2. Orderly
      BY <2>1 DEF CInv, Frame, Orderly
    <2> QED
      BY <1>13, <1>17, <2>1, <2>2
  <1>18. \A c \in Calls, i \in Ids :
            /\ \A o \in {"suspend", "reactivate"} : Administer(c, o, i) => Good
            /\ Revoke(c, i) => Good
    BY <1>9
  <1> HIDE DEF Good
  <1> QED
    BY <1>2, <1>3, <1>4, <1>5, <1>6, <1>7, <1>8, <1>18, <1>10, <1>11, <1>12, <1>14, <1>15,
       <1>16, <1>17
       DEF ContractsNext

LEMMA ContractsCInv == ContractsSpec => []CInv
  BY InitCInv, NextCInv, PTL DEF ContractsSpec

-----------------------------------------------------------------------------
(* The theorems.                                                           *)

\* The rows and the operations keep their types: in particular no status but those
\* of the schema is ever written.
THEOREM ContractsTypes == ContractsSpec => []ContractsTypeOK
  <1>1. CInv => ContractsTypeOK
    BY DEF CInv, Frame
  <1> QED
    BY <1>1, ContractsCInv, PTL

\* However subscriptions of a pair overlap, the licence they share is one.
THEOREM ContractsOneLiveLicence == ContractsSpec => []OneLiveLicence
  <1>1. CInv => OneLiveLicence
    BY DEF CInv, Frame, IInv
  <1> QED
    BY <1>1, ContractsCInv, PTL

\* Its columns agree, whoever of them wrote it.
THEOREM ContractsColumnsAgree == ContractsSpec => []ColumnsAgree
  <1>1. CInv => ColumnsAgree
    BY DEF CInv, Frame, IInv
  <1> QED
    BY <1>1, ContractsCInv, PTL

\* The look-up before the INSERT leaves a pair with one subscription, unless two
\* creations overlapped or a canceled row came back.
THEOREM OneContractHolds == ContractsSpec => []OneContract
  <1>1. CInv => OneContract
    <2> SUFFICES ASSUME CInv, ~ beside, NEW p \in Pairs
                 PROVE  Cardinality(InForce(p)) <= 1
      BY DEF OneContract
    <2>1. \A s, t \in InForce(p) : s = t
      BY DEF CInv, Frame, Single, InForceSub, InForce
    <2>2. CASE InForce(p) = {}
      BY <2>2, FS_EmptySet
    <2>3. ASSUME NEW s \in InForce(p)
          PROVE  Cardinality(InForce(p)) <= 1
      <3>1. InForce(p) = {s}
        BY <2>1, <2>3
      <3>2. Cardinality({s}) = 1
        BY FS_Singleton
      <3> QED
        BY <3>1, <3>2
    <2> QED
      BY <2>2, <2>3
  <1> QED
    BY <1>1, ContractsCInv, PTL

\* Who is shown as paid until some day has a licence for exactly that long, as long
\* as nobody else emits or revokes it: whatever the administrator suspends or
\* reactivates and the expiry jobs take up, the stale list of ended trials included,
\* unless a payment crossed with them or with another operation.
THEOREM TermIsKept == ContractsSpec => []TermKept
  <1>1. CInv => TermKept
    <2> SUFFICES ASSUME CInv, NEW s \in Subs, PaidFor(s),
                        ~ beside, ~ crossed, failures = 0, Paying = {}
                 PROVE  HasTerm(s)
      BY DEF TermKept, HasTerm
    <2> QED
      BY DEF CInv, Termly, TermComes, PaymentAt, Paying
  <1> QED
    BY <1>1, ContractsCInv, PTL

\* Who brings a licence back had it in hand when it was revoked, or is the
\* administrator.
LEMMA RevokedStaysStep ==
  ASSUME CInv, ContractsNext, NEW i \in Ids, lic[i].status = "revoked",
         lic'[i].status \in LiveStatuses
  PROVE  \E c \in Procs : /\ call[c].pc = "write" /\ call[c].id = i
                          /\ c \in held \/ (c \in Calls /\ op[c].kind = "admin")
  <1>1. lic' # lic /\ Frame /\ IInv
    BY DEF LiveStatuses, CInv, Frame
  <1>2. (\E c \in Calls : LicenceStep(c)) \/ (\E w \in Sweepers : SweepOn(w))
    BY <1>1 DEF ContractsNext, Create, Insert, Activate, MarkOverdue, ChangePlan, Cancel,
                Update, Emit, EmitFind, FindLicence, OnLicence, Begin, BreakOff,
                Issue, Administer, Revoke, StartSweep, Sweep, Tick, vars
  <1>3. ASSUME NEW c \in Procs, IInv', Write(c), SweepAt(c) \/ CalledOut(c),
               c \in Sweepers => c \notin Calls, c \in Calls => CalledOut(c)
        PROVE  /\ call[c].pc = "write" /\ call[c].id = i
               /\ c \in held \/ (c \in Calls /\ op[c].kind = "admin")
    <2>1. call[c].pc = "write"
      BY <1>3 DEF Write
    <2>2. /\ \/ UNCHANGED lic
             \/ /\ \A j \in Ids \ {call[c].id} : lic'[j] = lic[j]
                /\ call[c].op = "revoke" => lic'[call[c].id].status = "revoked"
      BY <1>1, <1>3, WritesCall
    <2>3. call[c].id = i /\ call[c].op # "revoke"
      BY <1>1, <2>2 DEF LiveStatuses
    <2>4. InHand(c, i)
      BY <2>1, <2>3 DEF InHand
    <2>5. Commands(c) => op[c].kind = "admin"
      BY <1>3, <2>1, <2>3 DEF Commands, CalledOut
    <2> QED
      BY <1>1, <2>1, <2>3, <2>4, <2>5 DEF Frame, SeenWithIt, Commands
  <1>4. ASSUME NEW c \in Calls, LicenceStep(c)
        PROVE  IInv' /\ Write(c) /\ CalledOut(c) /\ c \in Procs /\ c \notin Sweepers
    <2>1. IInv' /\ CalledOut(c) /\ c \in Procs /\ c \notin Sweepers
      BY <1>1, <1>4, LicenceSteps, SweepersApart
    <2>2. ~ RenewRead(c) /\ ~ Notify(c) /\ ~ Fail(c)
      BY <1>1 DEF RenewRead, Notify, Fail
    <2>3. ~ EmitInsert(c)
      BY <1>1, <2>1, InsertsCall DEF LiveStatuses
    <2> QED
      BY <1>1, <1>4, <2>1, <2>2, <2>3, LicenceSteps
  <1>5. ASSUME NEW w \in Sweepers, SweepOn(w)
        PROVE  IInv' /\ Write(w) /\ SweepAt(w) /\ w \in Procs /\ w \notin Calls
    <2>1. SweepPick(w) \/ SweepNext(w) \/ Step(w) \/ Fail(w)
      BY <1>5 DEF SweepOn
    <2>2. IInv' /\ ~ EmitInsert(w) /\ ~ RenewRead(w) /\ w \in Procs /\ w \notin Calls /\ SweepAt(w)
      BY <1>1, <2>1, SweepSteps, SweepersApart DEF Frame, Shape
    <2>3. ~ SweepPick(w) /\ ~ SweepNext(w) /\ ~ Notify(w) /\ ~ Fail(w)
      BY <1>1 DEF SweepPick, SweepNext, Notify, Fail
    <2> QED
      BY <2>1, <2>2, <2>3 DEF Step
  <1>6. CASE \E c \in Calls : LicenceStep(c)
    <2>1. PICK c \in Calls : LicenceStep(c)
      BY <1>6
    <2> QED
      BY <1>3, <1>4, <2>1
  <1>7. CASE \E w \in Sweepers : SweepOn(w)
    <2>1. PICK w \in Sweepers : SweepOn(w)
      BY <1>7
    <2> QED
      BY <1>3, <1>5, <2>1
  <1> QED
    BY <1>2, <1>6, <1>7

\* A licence that was revoked comes back only by a write of somebody who had found it
\* before, or because the administrator suspends or reactivates it.
THEOREM RevokedStaysRevoked == ContractsSpec => RevokedStays
  <1>1. CInv /\ [ContractsNext]_allVars =>
          [\A i \in Ids : lic[i].status = "revoked" /\ lic'[i].status \in LiveStatuses
             => \E c \in Procs :
                  /\ call[c].pc = "write" /\ call[c].id = i
                  /\ c \in held \/ (c \in Calls /\ op[c].kind = "admin")]_allVars
    BY RevokedStaysStep
  <1> QED
    BY <1>1, ContractsCInv, PTL DEF ContractsSpec, RevokedStays
================================================================================
