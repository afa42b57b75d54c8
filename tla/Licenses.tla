------------------------------ MODULE Licenses ------------------------------
(***************************************************************************)
(* The licence service: LicensesService, its repository, the unique index  *)
(* of the licenses table and the two jobs that sweep overdue licences.     *)
(*                                                                         *)
(* No operation runs in a transaction.  Every await on the database is a   *)
(* step of its own, so a call is a record that remembers what it has read  *)
(* (seen) and where it stands (pc), and calls interleave between steps:    *)
(*                                                                         *)
(*   idle -> insert -> notify          emit, no live licence found         *)
(*   idle -> read -> write -> notify   emit, renewing the licence it found *)
(*   idle -> write -> notify           renew, suspend, reactivate, revoke  *)
(*   idle -> pick -> write -> notify -> pick ...            a sweep        *)
(*                                                                         *)
(* Time is an abstract count of days.  Audit rows, logging, maxUsers and   *)
(* featureSet are left out, and of a notify step, which records an         *)
(* internal event and drops a cache entry, only the await is kept:         *)
(* EventOutbox follows the event.                                          *)
(***************************************************************************)
EXTENDS Integers, FiniteSets

CONSTANTS
  Ids,           \* the licence rows the database may come to hold, numbered in
                 \* the order they are inserted
  Pairs,         \* customer x product
  PairOf,        \* the pair each row is for: never updated once inserted
  Calls,         \* concurrent callers: HTTP requests, webhook workers
  Sweepers,      \* concurrent runs of the expiry jobs
  Emitters,      \* the origins whose callers of emit take part
  Terms,         \* days between an emission and the expiry it asks for
  ManualTerms,   \* the same for the administrator, who gives any date
  DefaultGrace,  \* 7 in the code: graceDays when the caller gives none
  ManualGrace,   \* the graceDays of the administrator: any number
  MaxNow,        \* bound: days a run lasts
  MaxFailures    \* bound: calls cut short by an error or a crash

ASSUME LicensesAssumption ==
  /\ Ids # {} /\ Ids \subseteq Nat
  /\ PairOf \in [Ids -> Pairs]
  /\ Calls \cap Sweepers = {}
  /\ Emitters \subseteq {"subscription", "order", "manual", "trial"}
  /\ Terms \subseteq Nat
  /\ DefaultGrace \in Nat
  /\ ManualTerms \subseteq Int /\ ManualGrace \subseteq Int
  /\ MaxNow \in Nat
  /\ MaxFailures \in Nat

VARIABLES
  lic,       \* lic[i]: row i of the licenses table
  call,      \* call[c]: the progress of caller or sweeper c
  now,       \* today
  failures   \* calls cut short so far

vars == <<lic, call, now, failures>>

Procs == Calls \cup Sweepers

NoDate == -1     \* SQL NULL: no expiry (lifetime), or no grace period
Keep   == -2     \* undefined: the caller does not say, the column is kept
Dates  == Nat \cup {NoDate}

LiveStatuses == {"active", "suspended"}
Statuses == LiveStatuses \cup {"absent", "expired", "revoked"}
Origins  == {"none", "subscription", "order", "manual", "trial"}

Row == [status: Statuses, origin: Origins, expires: Dates, grace: Dates,
        suspendedAt: BOOLEAN]

NoRow == [status |-> "absent", origin |-> "none", expires |-> NoDate,
          grace |-> NoDate, suspendedAt |-> FALSE]

\* What a caller asks emit or renew for, with the grace period that follows
\* from it: both compute it the same way.
Params  == [origin: Origins, expires: Dates \cup {Keep}, grace: Dates]
NoParam == [origin |-> "none", expires |-> Keep, grace |-> NoDate]

Ops == {"none", "emit", "renew", "suspend", "expireTrial", "reactivate", "revoke"}
Jobs == {"none", "hourlyLicenses", "hourlyTrials", "daily"}

Call == [pc: {"idle", "insert", "read", "write", "notify", "pick"},
         op: Ops, id: Ids, par: Params, seen: Row,
         job: Jobs, todo: SUBSET Ids]

Idle == [pc |-> "idle", op |-> "none", id |-> CHOOSE i \in Ids : TRUE,
         par |-> NoParam, seen |-> NoRow, job |-> "none", todo |-> {}]

TypeOK ==
  /\ lic \in [Ids -> Row]
  /\ call \in [Procs -> Call]
  /\ now \in Nat
  /\ failures \in Nat

Init ==
  /\ lic = [i \in Ids |-> NoRow]
  /\ call = [c \in Procs |-> Idle]
  /\ now = 0
  /\ failures = 0

-----------------------------------------------------------------------------
(* The queries of the repository.                                          *)

\* A bug for the runs to catch: emit's look-up finds revoked licences too.
LiveOrRevoked(p) == {i \in Ids : PairOf[i] = p /\ lic[i].status \in LiveStatuses \cup {"revoked"}}

Live(p) == {i \in Ids : PairOf[i] = p /\ lic[i].status \in LiveStatuses}

\* Rows for p that exist nowhere yet and that no INSERT is about to fill.
Spare(p) == {i \in Ids : /\ PairOf[i] = p
                         /\ lic[i].status = "absent"
                         /\ \A c \in Procs : call[c].pc = "insert" => call[c].id # i}

\* Bugs for the runs to catch: a grace period that is still to end counts as
\* over; every origin counts as a trial.
ExpiredBeforeGrace == {i \in Ids : lic[i].status = "active" /\ lic[i].grace > now}
ExpiredOfAnyOrigin == {i \in Ids : /\ lic[i].status = "active"
                                   /\ lic[i].expires # NoDate
                                   /\ lic[i].expires < now}

ExpiredAfterGrace ==
  {i \in Ids : /\ lic[i].status = "active"
               /\ lic[i].expires # NoDate
               /\ lic[i].grace # NoDate
               /\ lic[i].grace < now}

ExpiredTrials ==
  {i \in Ids : /\ lic[i].status = "active"
               /\ lic[i].origin = "trial"
               /\ lic[i].expires # NoDate
               /\ lic[i].expires < now}

\* A bug for the runs to catch: no such index.
IndexMissing(i) == FALSE

\* uq_licenses_active_per_product refuses a second live row for the pair of i.
IndexRefuses(i) == \E j \in Live(PairOf[i]) : j # i

-----------------------------------------------------------------------------
(* The callers of emit.                                                    *)

\* graceUntil: so many days after the expiry, none without an expiry.
Asked(origin, expires, graceDays) ==
  [origin |-> origin, expires |-> expires,
   grace |-> IF expires \in {NoDate, Keep} THEN NoDate ELSE expires + graceDays]

\* The administrator's manual emission takes any expiry, also a past one or none,
\* and any number of days of grace, also a negative one.  Dates before the run's
\* first day are left out.
ManualOffers ==
  {Asked("manual", NoDate, 0)} \cup
  UNION {{Asked("manual", e, g) : g \in {d \in {0} \cup ManualGrace : e + d \in Nat}}
         : e \in {now + t : t \in ManualTerms} \cap Nat}

\* A subscription payment, a paid order, the administrator and the two ways a
\* trial starts: resolveAccess asks for no grace, the subscription's own trial
\* leaves the default.
Offers ==
  LET dated == {now + t : t \in Terms} IN
  {o \in {Asked("subscription", e, DefaultGrace) : e \in dated}
      \cup {Asked("order", e, DefaultGrace) : e \in dated \cup {NoDate}}
      \cup ManualOffers
      \cup {Asked("trial", e, g) : e \in dated, g \in {0, DefaultGrace}}
   : o.origin \in Emitters}

-----------------------------------------------------------------------------
(* One operation, step by step.                                            *)

\* A bug for the runs to catch: the grace period is not looked at.
SkipsDone(op, row) == \/ op = "suspend" /\ row.status = "suspended"
                      \/ op = "expireTrial" /\ row.status = "expired"

\* suspend returns early for a suspended licence and for one still in its
\* grace period, expireTrial for an expired one.  No other status is tested.
Skips(op, row) ==
  \/ /\ op = "suspend"
     /\ \/ row.status = "suspended"
        \/ row.grace # NoDate /\ now < row.grace
  \/ op = "expireTrial" /\ row.status = "expired"

\* The row is written; what is left to do needs neither parameters nor the row
\* that was read.
Written(k) == [k EXCEPT !.pc = "notify", !.par = NoParam, !.seen = NoRow]

\* What remains of a call after an operation: a sweep goes on with its list.
Returned(k) == [Idle EXCEPT !.pc = IF k.job = "none" THEN "idle" ELSE "pick",
                            !.job = k.job, !.todo = k.todo]

\* findById, and the early returns on what it found.  Only suspend, which
\* decided by it, and a renewal without an expiry, which writes it back,
\* depend on the row they read.
Loaded(k) ==
  IF Skips(k.op, lic[k.id])
  THEN Returned(k)
  ELSE [k EXCEPT !.pc = "write",
                 !.seen = IF k.op = "suspend" \/ (k.op = "renew" /\ k.par.expires = Keep)
                          THEN lic[k.id] ELSE NoRow]

\* renew writes the expiry it read when its caller gave none.
Expiry(k) == IF k.par.expires = Keep THEN k.seen.expires ELSE k.par.expires

\* A bug for the runs to catch: a renewal leaves the grace period alone.
GraceKept(k, row) ==
  CASE k.op = "renew"  -> [row EXCEPT !.status = "active", !.suspendedAt = FALSE, !.expires = Expiry(k)]
    [] k.op = "revoke" -> [row EXCEPT !.status = "revoked"]
    [] OTHER           -> row

\* The UPDATE of each operation.  renew always overwrites the grace period.
Updated(k, row) ==
  CASE k.op = "renew" ->
         [row EXCEPT !.status = "active", !.suspendedAt = FALSE,
                     !.expires = Expiry(k),
                     !.grace = k.par.grace]
    [] k.op = "suspend"     -> [row EXCEPT !.status = "suspended", !.suspendedAt = TRUE]
    [] k.op = "expireTrial" -> [row EXCEPT !.status = "expired", !.suspendedAt = TRUE]
    [] k.op = "reactivate"  -> [row EXCEPT !.status = "active", !.suspendedAt = FALSE]
    [] k.op = "revoke"      -> [row EXCEPT !.status = "revoked"]
    [] OTHER                -> row

\* emit: the SELECT that decides between a new licence and a renewal.  A
\* renewal does not use the origin it is given: the row keeps its own.
EmitFind(c, p, par) ==
  /\ call[c] = Idle
  /\ \/ \E i \in Live(p) :
          call' = [call EXCEPT ![c] = [Idle EXCEPT
                     !.pc = "read", !.op = "renew", !.id = i,
                     !.par = [par EXCEPT !.origin = "none"]]]
     \/ /\ Live(p) = {}
        /\ \E i \in Spare(p) :
             /\ \A j \in Spare(p) : i <= j
             /\ call' = [call EXCEPT ![c] = [Idle EXCEPT !.pc = "insert", !.op = "emit",
                                                         !.id = i, !.par = par]]
  /\ UNCHANGED <<lic, now, failures>>

\* emit: the INSERT.  The unique index makes it throw when a live licence of
\* the pair appeared since the SELECT.
EmitInsert(c) ==
  LET k == call[c] IN
  /\ k.pc = "insert"
  /\ \/ /\ IndexRefuses(k.id)
        /\ call' = [call EXCEPT ![c] = Idle]
        /\ UNCHANGED lic
     \/ /\ ~ IndexRefuses(k.id)
        /\ lic' = [lic EXCEPT ![k.id] =
                     [status |-> "active", origin |-> k.par.origin,
                      expires |-> k.par.expires, grace |-> k.par.grace,
                      suspendedAt |-> FALSE]]
        /\ call' = [call EXCEPT ![c] = Written(k)]
  /\ UNCHANGED <<now, failures>>

\* renew, called by emit: findById of the licence emit has found.
RenewRead(c) ==
  /\ call[c].pc = "read"
  /\ call' = [call EXCEPT ![c] = Loaded(call[c])]
  /\ UNCHANGED <<lic, now, failures>>

\* suspend, reactivate and revoke from the admin API, suspend and revoke from
\* the billing services, renew from a plan change (which gives no expiry).
Begin(c, op, i) ==
  /\ call[c] = Idle
  /\ lic[i].status # "absent"
  /\ call' = [call EXCEPT ![c] = Loaded([Idle EXCEPT !.op = op, !.id = i])]
  /\ UNCHANGED <<lic, now, failures>>

\* The UPDATE.  It is refused when it would make a second live licence.
Write(c) ==
  LET k == call[c]
      row == Updated(k, lic[k.id])
  IN
  /\ k.pc = "write"
  /\ \/ /\ row.status \in LiveStatuses
        /\ IndexRefuses(k.id)
        /\ call' = [call EXCEPT ![c] = Idle]
        /\ UNCHANGED lic
     \/ /\ row.status \in LiveStatuses => ~ IndexRefuses(k.id)
        /\ lic' = [lic EXCEPT ![k.id] = row]
        /\ call' = [call EXCEPT ![c] = Written(k)]
  /\ UNCHANGED <<now, failures>>

\* internalEvents.dispatch, the last await that others can observe.
Notify(c) ==
  /\ call[c].pc = "notify"
  /\ call' = [call EXCEPT ![c] = Returned(call[c])]
  /\ UNCHANGED <<lic, now, failures>>

\* An await rejects, or the process dies: the rest of the call never runs.
Fail(c) ==
  /\ call[c].pc # "idle"
  /\ failures < MaxFailures
  /\ failures' = failures + 1
  /\ call' = [call EXCEPT ![c] = Idle]
  /\ UNCHANGED <<lic, now>>

-----------------------------------------------------------------------------
(* The expiry jobs: hourly under an advisory lock, and daily without one.  *)

\* The SELECT of expireOverdueLicenses, the first thing both jobs do.
Sweep(s, job) ==
  /\ call[s] = Idle
  /\ call' = [call EXCEPT ![s] = [Idle EXCEPT !.pc = "pick", !.job = job,
                                              !.todo = ExpiredAfterGrace]]
  /\ UNCHANGED <<lic, now, failures>>

\* The next licence of the list: suspend or expireTrial starts with findById.
SweepPick(s) ==
  /\ call[s].pc = "pick"
  /\ \E i \in call[s].todo :
       call' = [call EXCEPT ![s] =
                  Loaded([call[s] EXCEPT
                            !.op = IF call[s].job = "hourlyTrials" THEN "expireTrial"
                                                                   ELSE "suspend",
                            !.id = i,
                            !.todo = call[s].todo \ {i}])]
  /\ UNCHANGED <<lic, now, failures>>

\* The list is done: the hourly job goes on to expireOverdueTrials.
SweepNext(s) ==
  /\ call[s].pc = "pick"
  /\ call[s].todo = {}
  /\ call' = [call EXCEPT ![s] =
                IF call[s].job = "hourlyLicenses"
                THEN [Idle EXCEPT !.pc = "pick", !.job = "hourlyTrials",
                                  !.todo = ExpiredTrials]
                ELSE Idle]
  /\ UNCHANGED <<lic, now, failures>>

Tick ==
  /\ now < MaxNow
  /\ now' = now + 1
  /\ UNCHANGED <<lic, call, failures>>

-----------------------------------------------------------------------------

Step(c) == EmitInsert(c) \/ RenewRead(c) \/ Write(c) \/ Notify(c)

Next ==
  \/ \E c \in Calls, p \in Pairs : \E par \in Offers : EmitFind(c, p, par)
  \/ \E c \in Calls, i \in Ids :
       \E op \in {"renew", "suspend", "reactivate", "revoke"} : Begin(c, op, i)
  \/ \E c \in Procs : Step(c) \/ Fail(c)
  \/ \E s \in Sweepers :
       \/ \E job \in {"hourlyLicenses", "daily"} : Sweep(s, job)
       \/ SweepPick(s)
       \/ SweepNext(s)
  \/ Tick

Spec == Init /\ [][Next]_vars

\* cron starts the sweep again and again, and the event loop finishes what
\* it has started.  Nothing obliges a customer or an administrator to call.
FairSpec ==
  /\ Spec
  /\ \A s \in Sweepers :
       /\ WF_vars(Sweep(s, "hourlyLicenses") \/ Sweep(s, "daily"))
       /\ WF_vars(Step(s) \/ SweepPick(s) \/ SweepNext(s))

-----------------------------------------------------------------------------
(* What the service promises.                                              *)

\* A customer has at most one live licence per product, however many calls of
\* emit, renew and reactivate race: the look-up of emit is not enough (two
\* calls can both find nothing), the unique index settles it at the write.
OneLiveLicence ==
  \A i, j \in Ids : /\ PairOf[i] = PairOf[j]
                    /\ lic[i].status \in LiveStatuses
                    /\ lic[j].status \in LiveStatuses
                    => i = j

\* The grace periods a caller of emit or renew can ask for.
GraceDays == {0, DefaultGrace} \cup ManualGrace

\* A grace period belongs to the expiry it was counted from.
CountedFrom(expires, grace) ==
  grace # NoDate => expires \in Nat /\ grace - expires \in GraceDays

\* The columns of a row agree, although an update writes values that the call
\* read some time before: a row never has the grace period of one emission or
\* renewal next to the expiry of another, and suspended_at is set exactly while
\* the status says so.
ColumnsAgree ==
  \A i \in Ids :
    /\ CountedFrom(lic[i].expires, lic[i].grace)
    /\ lic[i].status = "active" => ~ lic[i].suspendedAt
    /\ lic[i].status = "suspended" => lic[i].suspendedAt

\* expireTrial does not test what it is given, and runs after the SELECT that
\* chose it: still, only what began as a trial ever ends as expired.
OnlyTrialsExpire ==
  \A i \in Ids : lic[i].status = "expired" => lic[i].origin = "trial"

\* Licence i is suspended by this step of c.
SuspendsBy(c, i) ==
  /\ call[c].pc = "write" /\ call[c].op = "suspend" /\ call[c].id = i
  /\ lic[i].status # "suspended" /\ lic'[i].status = "suspended"

InGrace(i) == lic[i].grace # NoDate /\ now < lic[i].grace

\* A licence is suspended during its grace period only by a call that another
\* one overtook: when the row is still what suspend read, the grace is over.
GraceHonoured ==
  [][\A c \in Procs, i \in Ids :
       SuspendsBy(c, i) /\ call[c].seen = lic[i] => ~ InGrace(i)]_vars

\* A licence whose grace period is over does not stay active for ever: the
\* sweep suspends it unless someone changes it first.
GraceOver(i) == lic[i].status = "active" /\ lic[i].grace # NoDate /\ lic[i].grace < now
OverdueIsSwept == \A i \in Ids : GraceOver(i) ~> ~ GraceOver(i)

=============================================================================
