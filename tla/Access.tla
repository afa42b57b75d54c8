-------------------------------- MODULE Access --------------------------------
(***************************************************************************)
(* Who may use what: AccessService over the licence service, and the cache *)
(* of its status answers.                                                  *)
(*                                                                         *)
(* The module composes with Licenses.  Every step of a licence operation   *)
(* is a step here, and its last one, where the operation records an event, *)
(* also drops the cached answer for the pair, in the process it runs in    *)
(* and in no other.  A request is a record like a call; between the SELECT *)
(* it decides by and the answer it stores, licences change under it:       *)
(*                                                                         *)
(*   status   lookup -> customer -> licence -> decide [-> trial -> reply]  *)
(*   resolve            customer -> licence -> decide [-> trial -> reply   *)
(*                                                     [-> emit]]          *)
(*                                                                         *)
(* A resolve that finds neither a licence nor an earlier trial emits one:  *)
(* it is a caller of Licenses, so Requests are some of its Calls.  The     *)
(* customer exists (Customers follows how one comes to be).                *)
(***************************************************************************)
EXTENDS Licenses

CONSTANTS
  Requests,      \* those of Calls that are requests for access
  Sellers,       \* the origins the other callers emit for
  Commands,      \* what they ask of a licence that exists
  Customers,
  CustomerOf,    \* the customer of each pair
  TrialDays,     \* what products.trial_days may be set to, NoDate for no trial
  Instances,     \* processes: each has a cache of its own
  HomeOf,        \* the process each caller and sweeper runs in
  TTL            \* how long an answer stays in the cache

ASSUME AccessAssumption ==
  /\ Requests \subseteq Calls /\ IsFiniteSet(Requests)
  /\ "trial" \in Emitters /\ Sellers \subseteq Emitters
  /\ Commands \subseteq {"renew", "suspend", "reactivate", "revoke"}
  /\ CustomerOf \in [Pairs -> Customers]
  /\ TrialDays \ {NoDate} \subseteq Terms
  /\ HomeOf \in [Procs -> Instances]
  /\ TTL \in Nat

VARIABLES
  blocked,   \* blocked[u]: customers.status of u is 'blocked'
  cache,     \* cache[n][p]: the answer process n keeps for pair p
  req,       \* req[r]: the progress of request r
  founded    \* history: what has been true since request r arrived

accessVars == <<blocked, cache, req, founded>>
allVars == <<vars, accessVars>>

Granting == {"licensed", "grace_period", "trial_active"}
Reasons  == Granting \cup {"none", "no_license", "license_expired", "license_suspended",
                           "trial_expired", "customer_blocked"}

\* What an answer that lets in has to rest on.
Grounds == {"licence", "customer"}

\* Two histories: ground, what was true while the request ran that stored the
\* answer, if it lets in; stale, that the row has changed since it was read, by
\* a call that is still to drop the answer ("due") or by one that will not
\* ("missed").
Entry == [reason: Reasons, until: Dates, ground: SUBSET Grounds,
          stale: {"no", "due", "missed"}]

NoEntry == [reason |-> "none", until |-> NoDate, ground |-> {}, stale |-> "no"]

Request == [pc: {"idle", "lookup", "customer", "licence", "decide", "trial",
                 "reply", "emit", "emitting"},
            kind: {"none", "status", "resolve"}, pair: Pairs,
            seen: Row, reason: Reasons]

NoRequest == [pc |-> "idle", kind |-> "none", pair |-> CHOOSE p \in Pairs : TRUE,
              seen |-> NoRow, reason |-> "none"]

AccessTypeOK ==
  /\ blocked \in [Customers -> BOOLEAN]
  /\ cache \in [Instances -> [Pairs -> Entry]]
  /\ req \in [Requests -> Request]
  /\ founded \in [Requests -> SUBSET Grounds]

AccessInit ==
  /\ Init
  /\ blocked = [u \in Customers |-> FALSE]
  /\ cache = [n \in Instances |-> [p \in Pairs |-> NoEntry]]
  /\ req = [r \in Requests |-> NoRequest]
  /\ founded = [r \in Requests |-> {}]

-----------------------------------------------------------------------------
(* The decisions, each on the row findByCustomerAndProduct returns: the    *)
(* live one, so that the branches for other statuses are never taken.      *)

Paid(row)   == row.origin # "trial"
Over(row)   == row.expires # NoDate /\ row.expires < now
Graced(row) == row.grace # NoDate /\ now < row.grace

\* A bug for the run to catch: the end of a licence is not looked at.
StatusForLife(row) ==
  CASE row.status = "suspended" /\ Graced(row) -> "grace_period"
    [] row.status = "suspended" -> "license_suspended"
    [] OTHER -> IF Paid(row) THEN "licensed" ELSE "trial_active"

\* getAccessStatus: past its end an active licence is refused at once, a
\* suspended one once its grace period is over.
Status(row) ==
  CASE row.status = "active" /\ Over(row) ->
         IF Paid(row) THEN "license_expired" ELSE "trial_expired"
    [] row.status = "suspended" /\ Graced(row) -> "grace_period"
    [] row.status = "suspended" /\ ~ Graced(row) -> "license_suspended"
    [] OTHER -> IF Paid(row) THEN "licensed" ELSE "trial_active"

\* A bug for the run to catch: nothing expires by date.
ResolveForLife(row) == IF row.status = "suspended" THEN "none" ELSE "licensed"

\* resolveAccess: the same but for a suspended trial, which no branch takes
\* and which the look-up of earlier trials then finds.
Resolve(row) ==
  IF row.status = "suspended" /\ ~ Paid(row) THEN "none" ELSE Status(row)

\* validate: the grace period also counts for a licence that is still active.
Validate(row) ==
  CASE row.status = "suspended" \/ Over(row) ->
         IF Graced(row) THEN "grace_period"
         ELSE IF row.status = "suspended" THEN "license_suspended" ELSE "license_expired"
    [] OTHER -> "licensed"

\* getEntitlements: the status alone.
Entitled(row) == row.status = "active"

\* findActiveByCustomerAndProduct: at most one row is live.
LiveRow(p) ==
  IF Live(p) = {} THEN NoRow ELSE lic[CHOOSE i \in Live(p) : TRUE]

\* A bug for the run to catch: only live trials count.
LiveTrialOf(p) == {i \in Live(p) : lic[i].origin = "trial"}

\* findTrialByCustomerAndProduct: a trial in any status.
TrialOf(p) == {i \in Ids : PairOf[i] = p /\ lic[i].status # "absent" /\ lic[i].origin = "trial"}

-----------------------------------------------------------------------------
(* The cache.                                                              *)

\* getStatus: an entry past its time is as good as none.
Fresh(e) == e # NoEntry /\ now <= e.until

\* A bug for the run to catch: the answer is dropped under another key.
KeepsEntry(c) == cache

\* invalidateStatus, in the process of c.
Dropped(c) == [cache EXCEPT ![HomeOf[c]][PairOf[call[c].id]] = NoEntry]

\* History: what processes ns keep for the pair of c is stale from here on.
Turned(c, ns, stale) ==
  [n \in Instances |-> [p \in Pairs |->
     IF n \in ns /\ p = PairOf[call[c].id] /\ cache[n][p] # NoEntry
     THEN [cache[n][p] EXCEPT !.stale = stale] ELSE cache[n][p]]]

\* History: the row of c has changed; other processes will not hear of it.
Changed(c) ==
  [n \in Instances |->
     IF n = HomeOf[c] THEN Turned(c, {n}, "due")[n] ELSE Turned(c, {n}, "missed")[n]]

\* setStatus.
Stored(r, reason) ==
  LET p == req[r].pair IN
  [cache EXCEPT ![HomeOf[r]][p] =
     [reason |-> reason, until |-> now + TTL,
      ground |-> IF reason \in Granting THEN founded[r] ELSE {},
      stale |-> IF req[r].seen = LiveRow(p) \/ reason = "customer_blocked"
                THEN "no" ELSE "missed"]]

-----------------------------------------------------------------------------
(* A request, step by step.                                                *)

Goes(r, pc) == req' = [req EXCEPT ![r].pc = pc]

\* The answer is given, and stored when it is a status.
Answer(r, reason) ==
  /\ req' = [req EXCEPT ![r] = NoRequest]
  /\ cache' = IF req[r].kind = "status" THEN Stored(r, reason) ELSE cache

Arrive(r, kind, p) ==
  /\ req[r] = NoRequest
  /\ req' = [req EXCEPT ![r] = [NoRequest EXCEPT
                !.pc = IF kind = "status" THEN "lookup" ELSE "customer",
                !.kind = kind, !.pair = p]]
  /\ UNCHANGED <<vars, blocked, cache>>

Hit(r) ==
  /\ req[r].pc = "lookup"
  /\ Fresh(cache[HomeOf[r]][req[r].pair])
  /\ req' = [req EXCEPT ![r] = NoRequest]
  /\ UNCHANGED <<vars, blocked, cache>>

Miss(r) ==
  /\ req[r].pc = "lookup"
  /\ ~ Fresh(cache[HomeOf[r]][req[r].pair])
  /\ Goes(r, "customer")
  /\ cache' = [cache EXCEPT ![HomeOf[r]][req[r].pair] = NoEntry]
  /\ UNCHANGED <<vars, blocked>>

ReadCustomer(r) ==
  /\ req[r].pc = "customer"
  /\ IF blocked[CustomerOf[req[r].pair]]
     THEN req' = [req EXCEPT ![r].pc = "reply", ![r].reason = "customer_blocked"]
     ELSE Goes(r, "licence")
  /\ UNCHANGED <<vars, blocked, cache>>

ReadLicence(r) ==
  /\ req[r].pc = "licence"
  /\ req' = [req EXCEPT ![r].pc = "decide", ![r].seen = LiveRow(req[r].pair)]
  /\ UNCHANGED <<vars, blocked, cache>>

\* What a request makes of the row it read, "none" if it has to look further.
Decision(r) ==
  CASE req[r].seen.status = "absent" -> "none"
    [] req[r].seen.status # "absent" /\ req[r].kind = "status" -> Status(req[r].seen)
    [] OTHER -> Resolve(req[r].seen)

Decide(r) ==
  /\ req[r].pc = "decide"
  /\ IF Decision(r) = "none"
     THEN Goes(r, "trial") /\ UNCHANGED cache
     ELSE Answer(r, Decision(r))
  /\ UNCHANGED <<vars, blocked>>

\* The look-up of an earlier trial.  Finding one of any status means that the
\* trial is over; without one, a resolve starts it if the product has a trial.
ReadTrial(r) ==
  /\ req[r].pc = "trial"
  /\ \/ /\ TrialOf(req[r].pair) # {}
        /\ req' = [req EXCEPT ![r].pc = "reply", ![r].reason = "trial_expired"]
     \/ /\ TrialOf(req[r].pair) = {}
        /\ req[r].kind = "status" \/ NoDate \in TrialDays
        /\ req' = [req EXCEPT ![r].pc = "reply", ![r].reason = "no_license"]
     \/ /\ TrialOf(req[r].pair) = {}
        /\ req[r].kind = "resolve" /\ TrialDays # {NoDate}
        /\ Goes(r, "emit")
  /\ UNCHANGED <<vars, blocked, cache>>

Reply(r) ==
  /\ req[r].pc = "reply"
  /\ Answer(r, req[r].reason)
  /\ UNCHANGED <<vars, blocked>>

\* The trial: no grace period.
TrialTerms(days) == Asked("trial", now + days, 0)

\* emit looks again for a live licence, and renews the one that came up since.
StartTrial(r) ==
  /\ req[r].pc = "emit"
  /\ \E days \in TrialDays \ {NoDate} : EmitFind(r, req[r].pair, TrialTerms(days))
  /\ Goes(r, "emitting")
  /\ UNCHANGED <<blocked, cache>>

\* emit has returned or thrown.
TrialDone(r) ==
  /\ req[r].pc = "emitting"
  /\ call[r] = Idle
  /\ req' = [req EXCEPT ![r] = NoRequest]
  /\ UNCHANGED <<vars, blocked, cache>>

-----------------------------------------------------------------------------
(* The other actors.                                                       *)

\* customers.block and activate drop no answer.
SetBlocked(u) ==
  /\ blocked' = [blocked EXCEPT ![u] = ~ @]
  /\ UNCHANGED <<vars, cache, req>>

\* A step of the licence service, with what it does to the cache.
LicenceStep ==
  /\ \/ /\ \/ \E c \in Calls \ Requests :
                \/ \E p \in Pairs : \E par \in {o \in Offers : o.origin \in Sellers} :
                     EmitFind(c, p, par)
                \/ \E i \in Ids, op \in Commands :
                     Begin(c, op, i)
           \/ \E c \in Procs : RenewRead(c)
           \/ \E s \in Sweepers :
                \/ \E job \in {"hourlyLicenses", "daily"} : Sweep(s, job)
                \/ SweepPick(s) \/ SweepNext(s)
           \/ Tick
        /\ UNCHANGED cache
     \/ \E c \in Procs :
          \/ /\ EmitInsert(c) \/ Write(c)
             /\ cache' = IF lic' = lic THEN cache ELSE Changed(c)
          \/ Notify(c) /\ cache' = Dropped(c)
          \/ /\ Fail(c)
             /\ cache' = IF call[c].pc = "notify" THEN Turned(c, {HomeOf[c]}, "missed")
                                                 ELSE cache
  /\ UNCHANGED <<blocked, req>>

RequestStep(r) ==
  \/ \E kind \in {"status", "resolve"}, p \in Pairs : Arrive(r, kind, p)
  \/ Hit(r) \/ Miss(r) \/ ReadCustomer(r) \/ ReadLicence(r) \/ Decide(r)
  \/ ReadTrial(r) \/ Reply(r) \/ StartTrial(r) \/ TrialDone(r)

\* A status asked at this instant of the database alone would let p's customer in.
LetsIn(p) == Live(p) # {} /\ Status(LiveRow(p)) \in Granting

\* What is true at this instant of what r asks for.
TrueFor(r) ==
  {x \in Grounds :
     \/ x = "licence" /\ LetsIn(req[r].pair)
     \/ x = "customer" /\ ~ blocked[CustomerOf[req[r].pair]]}

\* The history follows every step.
Track ==
  founded' = [r \in Requests |->
    IF req'[r].pc = "idle" THEN {} ELSE founded[r] \cup TrueFor(r)']

AccessNext ==
  /\ \/ LicenceStep
     \/ \E r \in Requests : RequestStep(r)
     \/ \E u \in Customers : SetBlocked(u)
  /\ Track

AccessSpec == AccessInit /\ [][AccessNext]_allVars

-----------------------------------------------------------------------------
(* What access promises.                                                   *)

\* Four endpoints decide by the same row, each with code of its own.  Whoever
\* resolve lets in, status lets in; whoever status lets in, validate does; and
\* they part only over a grace period.  Entitlements, which look at no date,
\* miss nobody but those a suspended licence still lets in.
DecisionsAgree ==
  \A p \in Pairs : Live(p) # {} =>
    LET row == LiveRow(p) IN
    /\ Resolve(row) \in Granting => Status(row) \in Granting
    /\ Status(row) \in Granting => Validate(row) \in Granting
    /\ Status(row) \in Granting /\ ~ Entitled(row) => row.status = "suspended" /\ Graced(row)
    /\ Validate(row) \in Granting /\ Resolve(row) \notin Granting => Graced(row)

\* r finds in this step, in the database, that the customer may enter.
FindsYes(r) ==
  /\ req[r].pc \in {"decide", "reply"} /\ req'[r].pc = "idle"
  /\ (IF req[r].pc = "decide" THEN Decision(r) ELSE req[r].reason) \in Granting

\* Nobody is let in for a licence that was revoked, suspended or over, or for a
\* customer that was blocked, all the time since the request arrived, however
\* many reads, changes and dates cross.  Who is let in by an answer from the
\* cache was, in the same sense, let in rightly by a request for the same pair
\* that ended at most TTL ago.  Not more: the licence may have gone before that
\* request ended, or since.
GrantIsFounded ==
  [][\A r \in Requests :
       LET kept == cache[HomeOf[r]][req[r].pair] IN
       /\ FindsYes(r) => founded[r] = Grounds
       /\ req[r].pc = "lookup" /\ req'[r].pc = "idle" /\ kept.reason \in Granting
          => kept.ground = Grounds /\ now <= kept.until]_allVars

\* An answer that no longer matches the licence it was computed from is on its
\* way out: the call that changed the row is still to drop it.  Except when the
\* change ran in another process, broke off, or overtook the read (missed):
\* then the answer stays until its time is over.
StaleIsDropped ==
  \A n \in Instances, p \in Pairs :
    cache[n][p].stale = "due" =>
      \E c \in Procs : /\ HomeOf[c] = n /\ call[c].pc = "notify"
                       /\ PairOf[call[c].id] = p

\* A customer gets one trial of a product, whatever becomes of it.  Requests
\* that overlap can each start one, so there may be one for each at most.
TrialOnce ==
  "trial" \notin Sellers =>
    \A p \in Pairs :
      Cardinality({i \in Ids : PairOf[i] = p /\ lic[i].origin = "trial"})
        <= Cardinality(Requests)

=============================================================================
