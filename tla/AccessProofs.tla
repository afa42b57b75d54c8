----------------------------- MODULE AccessProofs -----------------------------
(***************************************************************************)
(* Proofs about Access, for any number of requests, callers, processes and *)
(* pairs.  AccessService is a caller of the licence service like any       *)
(* other, so what LicensesProofs shows of the licences holds here as well, *)
(* and its invariant is the ground the rest stands on.                     *)
(***************************************************************************)
EXTENDS Access, LicensesProofs, FiniteSetTheorems

-----------------------------------------------------------------------------
(* Types.                                                                  *)

LEMMA NoRequestOK ==
  /\ NoRequest \in Request /\ NoEntry \in Entry
  /\ NoRequest.pc = "idle" /\ NoRequest.reason = "none"
  /\ NoEntry.stale = "no" /\ NoEntry.reason \notin Granting
  <1>1. (CHOOSE p \in Pairs : TRUE) \in Pairs
    BY LicensesAssumption
  <1>2. NoRow \in Row
    BY DEF NoRow, Row, Origins, Statuses, LiveStatuses, Dates, NoDate
  <1> QED
    BY <1>1, <1>2
       DEF NoRequest, Request, NoEntry, Entry, Reasons, Granting, Dates, NoDate

\* The licence a request reads is a row of its pair, live if there is one.
LEMMA LiveRowOK ==
  ASSUME TypeOK, NEW p \in Pairs
  PROVE  /\ LiveRow(p) \in Row
         /\ Live(p) = {} => LiveRow(p) = NoRow
         /\ Live(p) # {} => LiveRow(p).status \in LiveStatuses
  <1>1. NoRow \in Row
    BY DEF NoRow, Row, Origins, Statuses, LiveStatuses, Dates, NoDate
  <1>2. CASE Live(p) = {}
    BY <1>1, <1>2 DEF LiveRow
  <1>3. CASE Live(p) # {}
    <2>1. PICK i \in Live(p) : LiveRow(p) = lic[i]
      BY <1>3 DEF LiveRow
    <2> QED
      BY <1>3, <2>1 DEF Live, TypeOK
  <1> QED
    BY <1>2, <1>3

LEMMA DecisionOK ==
  ASSUME NEW r \in Requests
  PROVE  Decision(r) \in Reasons
  BY DEF Decision, Status, Resolve, Reasons, Granting

LEMMA CacheOK ==
  ASSUME TypeOK, AccessTypeOK
  PROVE  /\ \A c \in Procs : /\ Changed(c) \in [Instances -> [Pairs -> Entry]]
                             /\ Dropped(c) \in [Instances -> [Pairs -> Entry]]
                             /\ Turned(c, {HomeOf[c]}, "missed") \in [Instances -> [Pairs -> Entry]]
         /\ \A r \in Requests, reason \in Reasons :
              Stored(r, reason) \in [Instances -> [Pairs -> Entry]]
  <1>1. ASSUME NEW n \in Instances, NEW p \in Pairs, NEW s \in {"due", "missed"}
        PROVE  [cache[n][p] EXCEPT !.stale = s] \in Entry
    <2>1. cache[n][p] \in Entry
      BY DEF AccessTypeOK
    <2> QED
      BY <2>1 DEF Entry
  <1>2. ASSUME NEW c \in Procs, NEW ns, NEW s \in {"due", "missed"}
        PROVE  Turned(c, ns, s) \in [Instances -> [Pairs -> Entry]]
    BY <1>1 DEF Turned, AccessTypeOK
  <1>3. ASSUME NEW c \in Procs
        PROVE  Changed(c) \in [Instances -> [Pairs -> Entry]]
    BY <1>2 DEF Changed
  <1>4. ASSUME NEW c \in Procs
        PROVE  Dropped(c) \in [Instances -> [Pairs -> Entry]]
    BY NoRequestOK DEF Dropped, AccessTypeOK
  <1>5. ASSUME NEW r \in Requests, NEW reason \in Reasons
        PROVE  Stored(r, reason) \in [Instances -> [Pairs -> Entry]]
    <2> DEFINE s == IF req[r].seen = LiveRow(req[r].pair) \/ reason = "customer_blocked"
                    THEN "no" ELSE "missed"
    <2>1. s \in {"no", "missed"}
      OBVIOUS
    <2> HIDE DEF s
    <2> DEFINE g == IF reason \in Granting THEN founded[r] ELSE {}
    <2>2. g \in SUBSET Grounds
      BY DEF AccessTypeOK
    <2> HIDE DEF g
    <2>3. [reason |-> reason, until |-> now + TTL, ground |-> g, stale |-> s] \in Entry
      BY <2>1, <2>2, AccessAssumption DEF TypeOK, Entry, Dates
    <2> QED
      BY <2>3 DEF Stored, AccessTypeOK, s, g
  <1> QED
    BY <1>2, <1>3, <1>4, <1>5

-----------------------------------------------------------------------------
(* The licence service is used as it is.                                   *)

LEMMA ResolvesTrial ==
  ASSUME TypeOK, AccessTypeOK, NEW r \in Requests, StartTrial(r)
  PROVE  \E p \in Pairs : \E par \in Offers :
           p = req[r].pair /\ par.origin = "trial" /\ EmitFind(r, p, par)
  <1>1. PICK days \in TrialDays \ {NoDate} : EmitFind(r, req[r].pair, TrialTerms(days))
    BY DEF StartTrial
  <1>2. days \in Terms /\ req[r].pair \in Pairs
    BY AccessAssumption DEF AccessTypeOK, Request
  <1>3. TrialTerms(days).origin = "trial" /\ "trial" \in Emitters
    BY AccessAssumption DEF TrialTerms, Asked
  <1>4. TrialTerms(days) \in Offers
    BY <1>2, <1>3 DEF Offers, TrialTerms
  <1> QED
    BY <1>1, <1>2, <1>3, <1>4

LEMMA LicenceStepIsNext ==
  ASSUME LicenceStep
  PROVE  Next
  <1>1. Calls \ Requests \subseteq Calls
    OBVIOUS
  <1>2. \A o \in {o \in Offers : o.origin \in Sellers} : o \in Offers
    OBVIOUS
  <1> QED
    BY <1>1, <1>2, AccessAssumption DEF LicenceStep, Next, Step

LEMMA RequestStepIsNext ==
  ASSUME TypeOK, AccessTypeOK, NEW r \in Requests, RequestStep(r)
  PROVE  [Next]_vars
  <1>1. CASE StartTrial(r)
    BY <1>1, ResolvesTrial, AccessAssumption DEF Next
  <1>2. CASE ~ StartTrial(r)
    BY <1>2 DEF RequestStep, Arrive, Hit, Miss, ReadCustomer, ReadLicence, Decide, ReadTrial,
                Reply, TrialDone
  <1> QED
    BY <1>1, <1>2

LEMMA StepIsNext ==
  ASSUME TypeOK, AccessTypeOK, [AccessNext]_allVars
  PROVE  [Next]_vars
  <1>1. CASE UNCHANGED allVars
    BY <1>1 DEF allVars
  <1>2. CASE AccessNext
    BY <1>2, LicenceStepIsNext, RequestStepIsNext DEF AccessNext, SetBlocked
  <1> QED
    BY <1>1, <1>2

-----------------------------------------------------------------------------
(* What one step does.                                                     *)

\* Nobody else's call moves.
Alone(c) == \A d \in Procs : d # c => call'[d] = call[d]

\* c reads, or has nothing left to drop: the cache is as it was.
Reads(c) ==
  /\ call[c].pc # "notify" /\ Alone(c)
  /\ UNCHANGED <<lic, now, cache, req, blocked>>
  /\ call'[c].pc = "insert" => c \notin Requests /\ call'[c].par.origin \in Sellers

Writes(c) ==
  /\ EmitInsert(c) \/ Write(c)
  /\ cache' = IF lic' = lic THEN cache ELSE Changed(c)
  /\ UNCHANGED <<req, blocked>>

Drops(c) == Notify(c) /\ cache' = Dropped(c) /\ UNCHANGED <<req, blocked>>

Fails(c) ==
  /\ Fail(c)
  /\ cache' = IF call[c].pc = "notify" THEN Turned(c, {HomeOf[c]}, "missed") ELSE cache
  /\ UNCHANGED <<req, blocked>>

\* Every step of the licence service is one of these.
LEMMA LicenceSteps ==
  ASSUME IInv, LicenceStep
  PROVE  \/ Tick /\ UNCHANGED <<cache, req, blocked>>
         \/ \E c \in Procs : Reads(c) \/ Writes(c) \/ Drops(c) \/ Fails(c)
  <1>0. /\ TypeOK /\ \A c \in Procs : call[c] \in Call /\ CallOK(call[c])
        /\ UNCHANGED <<blocked, req>>
        /\ \A k \in Call : k.id \in Ids
    BY DEF IInv, TypeOK, CallsOK, LicenceStep, Call
  <1>1. ASSUME NEW c \in Procs, NEW k, call' = [call EXCEPT ![c] = k], call[c].pc # "notify",
               UNCHANGED <<lic, now, cache>>,
               k.pc = "insert" => c \notin Requests /\ k.par.origin \in Sellers
        PROVE  Reads(c)
    <2>1. call'[c] = k /\ Alone(c)
      BY <1>0, <1>1 DEF TypeOK, Alone
    <2> QED
      BY <1>0, <1>1, <2>1 DEF Reads
  <1>2. ASSUME NEW c \in Calls \ Requests, NEW p \in Pairs,
               NEW par \in {o \in Offers : o.origin \in Sellers}, EmitFind(c, p, par),
               UNCHANGED cache
        PROVE  Reads(c)
    <2>1. c \in Procs /\ call[c].pc # "notify" /\ UNCHANGED <<lic, now, cache>>
      BY <1>2, IdleOK DEF EmitFind, Procs
    <2>2. ASSUME NEW i \in Live(p),
                 call' = [call EXCEPT ![c] = [Idle EXCEPT
                            !.pc = "read", !.op = "renew", !.id = i,
                            !.par = [par EXCEPT !.origin = "none"]]]
          PROVE  Reads(c)
      <3> DEFINE k == [Idle EXCEPT !.pc = "read", !.op = "renew", !.id = i,
                                   !.par = [par EXCEPT !.origin = "none"]]
      <3>1. k.pc = "read"
        BY IdleOK DEF Call
      <3>2. call' = [call EXCEPT ![c] = k]
        BY <2>2
      <3> HIDE DEF k
      <3> QED
        BY <1>1, <2>1, <3>1, <3>2
    <2>3. ASSUME NEW i \in Spare(p),
                 call' = [call EXCEPT ![c] = [Idle EXCEPT
                            !.pc = "insert", !.op = "emit", !.id = i, !.par = par]]
          PROVE  Reads(c)
      <3> DEFINE k == [Idle EXCEPT !.pc = "insert", !.op = "emit", !.id = i, !.par = par]
      <3>1. k.par = par
        BY IdleOK DEF Call
      <3>2. call' = [call EXCEPT ![c] = k]
        BY <2>3
      <3> HIDE DEF k
      <3> QED
        BY <1>1, <2>1, <3>1, <3>2
    <2> QED
      BY <1>2, <2>2, <2>3 DEF EmitFind
  <1>3. ASSUME NEW c \in Calls \ Requests, NEW i \in Ids, NEW op \in Commands, Begin(c, op, i),
               UNCHANGED cache
        PROVE  Reads(c)
    <2> DEFINE k == [Idle EXCEPT !.op = op, !.id = i]
    <2>1. /\ c \in Procs /\ call[c].pc # "notify" /\ lic[i].status # "absent"
          /\ call' = [call EXCEPT ![c] = Loaded(k)]
          /\ UNCHANGED <<lic, now, cache>>
      BY <1>3, IdleOK DEF Begin, Procs
    <2>2. k \in Call /\ k.id = i
      BY IdleOK, AccessAssumption DEF Call, Ops
    <2>3. CallOK(k)
      BY IdleOK, AccessAssumption DEF CallOK, Call
    <2> HIDE DEF k
    <2>4. Loaded(k).pc # "insert"
      BY <1>0, <2>1, <2>2, <2>3, LoadedOK
    <2> QED
      BY <1>1, <2>1, <2>4
  <1>4. ASSUME NEW c \in Procs, RenewRead(c), UNCHANGED cache
        PROVE  Reads(c)
    <2>1. /\ call[c].pc = "read" /\ call' = [call EXCEPT ![c] = Loaded(call[c])]
          /\ UNCHANGED <<lic, now, cache>>
      BY <1>4 DEF RenewRead
    <2>2. lic[call[c].id].status # "absent"
      BY <1>0, <2>1 DEF CallOK
    <2> QED
      BY <1>0, <1>1, <2>1, <2>2, LoadedOK
  <1>5. ASSUME NEW s \in Sweepers, NEW job \in {"hourlyLicenses", "daily"}, Sweep(s, job),
               UNCHANGED cache
        PROVE  Reads(s)
    <2> DEFINE k == [Idle EXCEPT !.pc = "pick", !.job = job, !.todo = ExpiredAfterGrace]
    <2>1. k.pc = "pick"
      BY IdleOK DEF Call
    <2>2. /\ s \in Procs /\ call[s].pc # "notify" /\ UNCHANGED <<lic, now, cache>>
          /\ call' = [call EXCEPT ![s] = k]
      BY <1>5, IdleOK DEF Sweep, Procs
    <2> HIDE DEF k
    <2> QED
      BY <1>1, <2>1, <2>2
  <1>6. ASSUME NEW s \in Sweepers, SweepPick(s), UNCHANGED cache
        PROVE  Reads(s)
    <2> DEFINE op == IF call[s].job = "hourlyTrials" THEN "expireTrial" ELSE "suspend"
    <2>1. PICK i \in call[s].todo :
            call' = [call EXCEPT ![s] =
                       Loaded([call[s] EXCEPT !.op = op, !.id = i,
                                              !.todo = call[s].todo \ {i}])]
      BY <1>6 DEF SweepPick
    <2> DEFINE k == [call[s] EXCEPT !.op = op, !.id = i, !.todo = call[s].todo \ {i}]
    <2>2. s \in Procs /\ call[s].pc = "pick" /\ UNCHANGED <<lic, now, cache>>
      BY <1>6 DEF SweepPick, Procs
    <2>3. call[s] \in Call /\ CallOK(call[s])
      BY <1>0, <2>2
    <2>4. i \in Ids /\ lic[i].status # "absent"
      BY <2>1, <2>3 DEF Call, CallOK
    <2>5. op \in Ops /\ (op = "expireTrial" => call[s].job = "hourlyTrials")
      BY DEF Ops
    <2> HIDE DEF op
    <2>6. k \in Call /\ k.id = i
      BY <2>3, <2>4, <2>5 DEF Call
    <2>7. CallOK(k)
      BY <2>1, <2>2, <2>3, <2>4, <2>5 DEF CallOK, Call
    <2>8. call' = [call EXCEPT ![s] = Loaded(k)]
      BY <2>1
    <2> HIDE DEF k
    <2>9. Loaded(k).pc # "insert"
      BY <1>0, <2>4, <2>6, <2>7, LoadedOK
    <2> QED
      BY <1>1, <2>2, <2>8, <2>9
  <1>7. ASSUME NEW s \in Sweepers, SweepNext(s), UNCHANGED cache
        PROVE  Reads(s)
    <2> DEFINE k == IF call[s].job = "hourlyLicenses"
                    THEN [Idle EXCEPT !.pc = "pick", !.job = "hourlyTrials", !.todo = ExpiredTrials]
                    ELSE Idle
    <2>1. k.pc \in {"pick", "idle"}
      BY IdleOK DEF Call
    <2>2. /\ s \in Procs /\ call[s].pc # "notify" /\ UNCHANGED <<lic, now, cache>>
          /\ call' = [call EXCEPT ![s] = k]
      BY <1>7 DEF SweepNext, Procs
    <2> HIDE DEF k
    <2> QED
      BY <1>1, <2>1, <2>2
  <1>8. ASSUME NEW c \in Procs, EmitInsert(c) \/ Write(c),
               cache' = IF lic' = lic THEN cache ELSE Changed(c)
        PROVE  Writes(c)
    BY <1>0, <1>8 DEF Writes
  <1>9. ASSUME NEW c \in Procs, Notify(c), cache' = Dropped(c)
        PROVE  Drops(c)
    BY <1>0, <1>9 DEF Drops
  <1>10. ASSUME NEW c \in Procs, Fail(c),
                cache' = IF call[c].pc = "notify" THEN Turned(c, {HomeOf[c]}, "missed") ELSE cache
         PROVE  Fails(c)
    BY <1>0, <1>10 DEF Fails
  <1>11. Sweepers \subseteq Procs /\ Calls \subseteq Procs
    BY DEF Procs
  <1> QED
    BY <1>0, <1>2, <1>3, <1>4, <1>5, <1>6, <1>7, <1>8, <1>9, <1>10, <1>11 DEF LicenceStep

\* A write is refused, or leaves the answer to be dropped by the same call.
LEMMA WritesOK ==
  ASSUME IInv, NEW c \in Procs, Writes(c)
  PROVE  /\ Alone(c) /\ UNCHANGED now
         /\ call[c].pc \in {"insert", "write"} /\ call'[c].pc \in {"idle", "notify"}
         /\ lic' # lic => call'[c].pc = "notify" /\ call'[c].id = call[c].id
         /\ \A i \in Ids : lic'[i].origin # lic[i].origin =>
              /\ call[c].pc = "insert" /\ i = call[c].id /\ lic[i].status = "absent"
              /\ lic'[i].origin = call[c].par.origin
  <1>1. /\ call \in [Procs -> Call] /\ lic \in [Ids -> Row]
        /\ call[c] \in Call /\ CallOK(call[c])
    BY DEF IInv, TypeOK, CallsOK
  <1>2. /\ Written(call[c]).pc = "notify" /\ Written(call[c]).id = call[c].id
    BY <1>1 DEF Written, Call
  <1>3. CASE EmitInsert(c)
    BY <1>1, <1>2, <1>3, IdleOK DEF EmitInsert, Alone, CallOK
  <1>4. CASE Write(c)
    <2> DEFINE row == Updated(call[c], lic[call[c].id])
    <2>1. row.origin = lic[call[c].id].origin
      <3>1. lic[call[c].id] \in Row
        BY <1>1 DEF Call
      <3> QED
        BY <1>1, <3>1, UpdatedOK DEF CallOK
    <2>2. /\ call[c].pc = "write" /\ UNCHANGED now
          /\ \/ call' = [call EXCEPT ![c] = Idle] /\ UNCHANGED lic
             \/ call' = [call EXCEPT ![c] = Written(call[c])] /\ lic' = [lic EXCEPT ![call[c].id] = row]
      BY <1>4 DEF Write
    <2> HIDE DEF row
    <2> QED
      BY <1>1, <1>2, <2>1, <2>2, IdleOK DEF Alone
  <1> QED
    BY <1>3, <1>4 DEF Writes

LEMMA FailsOK ==
  ASSUME TypeOK, NEW c \in Procs, Fails(c)
  PROVE  /\ Alone(c) /\ UNCHANGED <<lic, now>> /\ call[c].pc # "idle" /\ call'[c].pc = "idle"
  BY IdleOK DEF Fails, Fail, Alone, TypeOK

LEMMA DropsOK ==
  ASSUME IInv, NEW c \in Procs, Drops(c)
  PROVE  /\ Alone(c) /\ UNCHANGED <<lic, now>> /\ call[c].pc = "notify" /\ call'[c].pc # "insert"
  <1>1. call[c] \in Call /\ CallOK(call[c]) /\ TypeOK
    BY DEF IInv, TypeOK, CallsOK
  <1> QED
    BY <1>1, ReturnedOK DEF Drops, Notify, Alone, TypeOK

\* The request and the call of one request alone move, and no row.
LEMMA RequestSteps ==
  ASSUME IInv, AccessTypeOK, NEW r \in Requests, RequestStep(r)
  PROVE  /\ UNCHANGED <<lic, now, blocked>> /\ Alone(r)
         /\ req' \in [Requests -> Request]
         /\ \A q \in Requests : q # r => req'[q] = req[q]
         /\ ~ StartTrial(r) => UNCHANGED call
         /\ StartTrial(r) => UNCHANGED cache /\ call[r] = Idle
         /\ \/ UNCHANGED cache
            \/ cache' = [cache EXCEPT ![HomeOf[r]][req[r].pair] = NoEntry]
            \/ \E reason \in Reasons : cache' = Stored(r, reason)
  <1>1. /\ TypeOK /\ req \in [Requests -> Request] /\ req[r] \in Request
        /\ \A p \in Pairs : LiveRow(p) \in Row
    BY LiveRowOK DEF IInv, AccessTypeOK
  <1>2. ASSUME NEW k \in Request, req' = [req EXCEPT ![r] = k]
        PROVE  req' \in [Requests -> Request] /\ \A q \in Requests : q # r => req'[q] = req[q]
    BY <1>1, <1>2
  <1>3. \A pc \in {"licence", "customer", "trial", "emit", "emitting"} :
          [req[r] EXCEPT !.pc = pc] \in Request
    BY <1>1 DEF Request
  <1>4. \A reason \in Reasons : [req[r] EXCEPT !.pc = "reply", !.reason = reason] \in Request
    BY <1>1 DEF Request
  <1>5. {"customer_blocked", "trial_expired", "no_license"} \subseteq Reasons
    BY DEF Reasons
  <1>6. ASSUME NEW kind \in {"status", "resolve"}, NEW p \in Pairs, Arrive(r, kind, p)
        PROVE  /\ UNCHANGED <<lic, call, now, blocked, cache>>
               /\ \E k \in Request : req' = [req EXCEPT ![r] = k]
    <2> DEFINE k == [NoRequest EXCEPT !.pc = IF kind = "status" THEN "lookup" ELSE "customer",
                                      !.kind = kind, !.pair = p]
    <2>1. k \in Request
      BY NoRequestOK DEF Request
    <2> HIDE DEF k
    <2> QED
      BY <1>6, <2>1 DEF Arrive, vars, k
  <1>7. ASSUME NEW pc \in {"licence", "customer", "trial", "emit", "emitting"}, Goes(r, pc)
        PROVE  \E k \in Request : req' = [req EXCEPT ![r] = k]
    BY <1>3, <1>7 DEF Goes
  <1>8. ASSUME NEW reason \in Reasons, Answer(r, reason)
        PROVE  /\ \E k \in Request : req' = [req EXCEPT ![r] = k]
               /\ UNCHANGED cache \/ cache' = Stored(r, reason)
    BY <1>8, NoRequestOK DEF Answer
  <1>9. CASE Hit(r) \/ Miss(r)
    <2>1. /\ UNCHANGED <<lic, call, now, blocked>>
          /\ UNCHANGED cache \/ cache' = [cache EXCEPT ![HomeOf[r]][req[r].pair] = NoEntry]
      BY <1>9 DEF Hit, Miss, vars
    <2>2. \E k \in Request : req' = [req EXCEPT ![r] = k]
      BY <1>7, <1>9, NoRequestOK DEF Hit, Miss
    <2> QED
      BY <1>2, <1>9, <2>1, <2>2 DEF Alone, Hit, Miss, StartTrial
  <1>10. CASE ReadCustomer(r) \/ ReadLicence(r) \/ ReadTrial(r)
    <2>1. UNCHANGED <<lic, call, now, blocked, cache>>
      BY <1>10 DEF ReadCustomer, ReadLicence, ReadTrial, vars
    <2>2. ASSUME ReadLicence(r)
          PROVE  \E k \in Request : req' = [req EXCEPT ![r] = k]
      <3> DEFINE k == [req[r] EXCEPT !.pc = "decide", !.seen = LiveRow(req[r].pair)]
      <3>1. LiveRow(req[r].pair) \in Row
        BY <1>1 DEF Request
      <3>2. k \in Request
        BY <1>1, <3>1 DEF Request
      <3> QED
        BY <2>2, <3>2 DEF ReadLicence
    <2>3. \E k \in Request : req' = [req EXCEPT ![r] = k]
      BY <1>4, <1>5, <1>7, <1>10, <2>2 DEF ReadCustomer, ReadTrial
    <2> QED
      BY <1>2, <1>10, <2>1, <2>3 DEF Alone, ReadCustomer, ReadLicence, ReadTrial, StartTrial
  <1>11. CASE Decide(r) \/ Reply(r)
    <2>1. UNCHANGED <<lic, call, now, blocked>>
      BY <1>11 DEF Decide, Reply, vars
    <2>2. Decision(r) \in Reasons /\ req[r].reason \in Reasons
      BY <1>1, DecisionOK DEF Request
    <2>3. \E k \in Request : req' = [req EXCEPT ![r] = k]
      BY <1>7, <1>8, <1>11, <2>2 DEF Decide, Reply
    <2>4. UNCHANGED cache \/ \E reason \in Reasons : cache' = Stored(r, reason)
      BY <1>8, <1>11, <2>2 DEF Decide, Reply
    <2> QED
      BY <1>2, <1>11, <2>1, <2>3, <2>4 DEF Alone, Decide, Reply, StartTrial
  <1>12. CASE StartTrial(r)
    <2>1. PICK days \in TrialDays \ {NoDate} : EmitFind(r, req[r].pair, TrialTerms(days))
      BY <1>12 DEF StartTrial
    <2>2. r \in Procs /\ call \in [Procs -> Call]
      BY <1>1, AccessAssumption DEF Procs, TypeOK
    <2>3. /\ UNCHANGED <<lic, now, blocked, cache>> /\ Alone(r) /\ call[r] = Idle
      BY <1>12, <2>1, <2>2 DEF StartTrial, EmitFind, Alone
    <2>4. \E k \in Request : req' = [req EXCEPT ![r] = k]
      BY <1>7, <1>12 DEF StartTrial
    <2> QED
      BY <1>2, <1>12, <2>3, <2>4
  <1>13. CASE TrialDone(r)
    <2>1. /\ UNCHANGED <<lic, call, now, blocked, cache>>
          /\ \E k \in Request : req' = [req EXCEPT ![r] = k]
      BY <1>13, NoRequestOK DEF TrialDone, vars
    <2> QED
      BY <1>2, <1>13, <2>1 DEF Alone, TrialDone, StartTrial
  <1>14. ASSUME NEW kind \in {"status", "resolve"}, NEW p \in Pairs, Arrive(r, kind, p)
         PROVE  /\ UNCHANGED <<lic, call, now, blocked, cache>> /\ Alone(r)
                /\ req' \in [Requests -> Request]
                /\ \A q \in Requests : q # r => req'[q] = req[q]
                /\ ~ StartTrial(r)
    BY <1>2, <1>6, <1>14, NoRequestOK DEF Alone, StartTrial, Arrive
  <1> QED
    BY <1>9, <1>10, <1>11, <1>12, <1>13, <1>14 DEF RequestStep

LEMMA TypesStep ==
  ASSUME IInv, AccessTypeOK, AccessNext
  PROVE  AccessTypeOK'
  <1>1. TypeOK
    BY DEF IInv
  <1>2. founded' \in [Requests -> SUBSET Grounds]
    BY DEF AccessNext, Track, TrueFor, AccessTypeOK
  <1>3. CASE LicenceStep
    <2>1. UNCHANGED <<blocked, req>>
      BY <1>3 DEF LicenceStep
    <2>2. cache' \in [Instances -> [Pairs -> Entry]]
      <3>1. cache \in [Instances -> [Pairs -> Entry]]
        BY DEF AccessTypeOK
      <3> QED
        BY <1>1, <1>3, <3>1, LicenceSteps, CacheOK DEF Reads, Writes, Drops, Fails
    <2> QED
      BY <1>2, <2>1, <2>2 DEF AccessTypeOK
  <1>4. ASSUME NEW r \in Requests, RequestStep(r)
        PROVE  AccessTypeOK'
    <2>1. UNCHANGED blocked /\ req' \in [Requests -> Request]
      BY <1>4, RequestSteps
    <2>2. cache' \in [Instances -> [Pairs -> Entry]]
      <3>1. [cache EXCEPT ![HomeOf[r]][req[r].pair] = NoEntry] \in [Instances -> [Pairs -> Entry]]
        BY NoRequestOK DEF AccessTypeOK
      <3>2. \/ UNCHANGED cache
            \/ cache' = [cache EXCEPT ![HomeOf[r]][req[r].pair] = NoEntry]
            \/ \E reason \in Reasons : cache' = Stored(r, reason)
        BY <1>4, RequestSteps
      <3>3. \A reason \in Reasons : Stored(r, reason) \in [Instances -> [Pairs -> Entry]]
        BY <1>1, CacheOK
      <3>4. cache \in [Instances -> [Pairs -> Entry]]
        BY DEF AccessTypeOK
      <3> QED
        BY <3>1, <3>2, <3>3, <3>4
    <2> QED
      BY <1>2, <2>1, <2>2 DEF AccessTypeOK
  <1>5. ASSUME NEW u \in Customers, SetBlocked(u)
        PROVE  AccessTypeOK'
    BY <1>2, <1>5 DEF SetBlocked, AccessTypeOK
  <1> QED
    BY <1>3, <1>4, <1>5 DEF AccessNext

-----------------------------------------------------------------------------
(* The four decisions.                                                     *)

\* Two dates decide, and the four functions differ only where one of them is a
\* grace period.
LEMMA RowsAgree ==
  ASSUME NEW row \in Row, row.status \in LiveStatuses
  PROVE  /\ Resolve(row) \in Granting => Status(row) \in Granting
         /\ Status(row) \in Granting => Validate(row) \in Granting
         /\ Status(row) \in Granting /\ ~ Entitled(row) => row.status = "suspended" /\ Graced(row)
         /\ Validate(row) \in Granting /\ Resolve(row) \notin Granting => Graced(row)
  <1>1. CASE row.status = "active"
    BY <1>1 DEF Resolve, Status, Validate, Entitled, Granting
  <1>2. CASE row.status = "suspended"
    BY <1>2 DEF Resolve, Status, Validate, Entitled, Granting
  <1> QED
    BY <1>1, <1>2 DEF LiveStatuses

LEMMA Agree == TypeOK => DecisionsAgree
  <1> SUFFICES ASSUME TypeOK, NEW p \in Pairs, Live(p) # {}
               PROVE  LET row == LiveRow(p) IN
                      /\ Resolve(row) \in Granting => Status(row) \in Granting
                      /\ Status(row) \in Granting => Validate(row) \in Granting
                      /\ Status(row) \in Granting /\ ~ Entitled(row)
                           => row.status = "suspended" /\ Graced(row)
                      /\ Validate(row) \in Granting /\ Resolve(row) \notin Granting => Graced(row)
    BY DEF DecisionsAgree
  <1> QED
    BY LiveRowOK, RowsAgree

-----------------------------------------------------------------------------
(* Answers that are out of date.                                           *)

\* Nothing turns due but by a write, which leaves its call to drop the answer;
\* the call that drops it drops it in its own process, where it is due.
LEMMA StaleStep ==
  ASSUME IInv, AccessTypeOK, StaleIsDropped, AccessNext
  PROVE  StaleIsDropped'
  <1> SUFFICES ASSUME NEW n \in Instances, NEW p \in Pairs, cache'[n][p].stale = "due"
               PROVE  \E c \in Procs : /\ HomeOf[c] = n /\ call'[c].pc = "notify"
                                       /\ PairOf[call'[c].id] = p
    BY DEF StaleIsDropped
  <1>1. /\ TypeOK /\ cache \in [Instances -> [Pairs -> Entry]]
        /\ HomeOf \in [Procs -> Instances] /\ PairOf \in [Ids -> Pairs]
        /\ \A c \in Procs : call[c].id \in Ids
        /\ NoEntry.stale # "due"
    BY AccessAssumption, LicensesAssumption, NoRequestOK DEF IInv, AccessTypeOK, TypeOK, Call
  <1>2. ASSUME cache[n][p].stale = "due",
               \A c \in Procs : HomeOf[c] = n /\ call[c].pc = "notify" /\ PairOf[call[c].id] = p
                               => call'[c] = call[c]
        PROVE  \E c \in Procs : /\ HomeOf[c] = n /\ call'[c].pc = "notify"
                                /\ PairOf[call'[c].id] = p
    <2>1. PICK c \in Procs : /\ HomeOf[c] = n /\ call[c].pc = "notify"
                             /\ PairOf[call[c].id] = p
      BY <1>2 DEF StaleIsDropped
    <2> QED
      BY <1>2, <2>1
  <1>3. CASE LicenceStep
    <2>1. ASSUME Tick /\ UNCHANGED <<cache, req, blocked>>
          PROVE  \E c \in Procs : /\ HomeOf[c] = n /\ call'[c].pc = "notify"
                                  /\ PairOf[call'[c].id] = p
      BY <1>2, <2>1 DEF Tick
    <2>2. ASSUME NEW c \in Procs, Reads(c)
          PROVE  \E d \in Procs : /\ HomeOf[d] = n /\ call'[d].pc = "notify"
                                  /\ PairOf[call'[d].id] = p
      BY <1>2, <2>2 DEF Reads, Alone
    <2>3. ASSUME NEW c \in Procs, Drops(c)
          PROVE  \E d \in Procs : /\ HomeOf[d] = n /\ call'[d].pc = "notify"
                                  /\ PairOf[call'[d].id] = p
      <3>1. Alone(c) /\ cache' = Dropped(c)
        BY <2>3, DropsOK DEF Drops
      <3>2. ~ (n = HomeOf[c] /\ p = PairOf[call[c].id])
        BY <1>1, <3>1 DEF Dropped
      <3>3. cache'[n][p] = cache[n][p]
        BY <1>1, <3>1, <3>2 DEF Dropped
      <3> QED
        BY <1>2, <3>1, <3>2, <3>3 DEF Alone
    <2>4. ASSUME NEW c \in Procs, Fails(c)
          PROVE  \E d \in Procs : /\ HomeOf[d] = n /\ call'[d].pc = "notify"
                                  /\ PairOf[call'[d].id] = p
      <3>1. Alone(c)
        BY <1>1, <2>4, FailsOK
      <3>2. CASE call[c].pc = "notify"
        <4>1. cache' = Turned(c, {HomeOf[c]}, "missed")
          BY <2>4, <3>2 DEF Fails
        <4>2. cache'[n][p] = IF n = HomeOf[c] /\ p = PairOf[call[c].id] /\ cache[n][p] # NoEntry
                             THEN [cache[n][p] EXCEPT !.stale = "missed"] ELSE cache[n][p]
          BY <4>1 DEF Turned
        <4>3. cache[n][p] \in Entry
          BY <1>1
        <4>4. /\ cache'[n][p] = cache[n][p]
              /\ ~ (n = HomeOf[c] /\ p = PairOf[call[c].id])
          BY <1>1, <4>2, <4>3 DEF Entry
        <4> QED
          BY <1>2, <3>1, <4>4 DEF Alone
      <3>3. CASE call[c].pc # "notify"
        <4>1. cache' = cache
          BY <2>4, <3>3 DEF Fails
        <4> QED
          BY <1>2, <3>1, <3>3, <4>1 DEF Alone
      <3> QED
        BY <3>2, <3>3
    <2>5. ASSUME NEW c \in Procs, Writes(c)
          PROVE  \E d \in Procs : /\ HomeOf[d] = n /\ call'[d].pc = "notify"
                                  /\ PairOf[call'[d].id] = p
      <3>1. /\ Alone(c) /\ call[c].pc # "notify"
            /\ lic' # lic => call'[c].pc = "notify" /\ call'[c].id = call[c].id
        BY <2>5, WritesOK
      <3>2. CASE lic' = lic \/ cache'[n][p] = cache[n][p]
        <4>1. cache'[n][p] = cache[n][p]
          BY <2>5, <3>2 DEF Writes
        <4> QED
          BY <1>2, <3>1, <4>1 DEF Alone
      <3>3. CASE lic' # lic /\ cache'[n][p] # cache[n][p]
        <4>1. cache' = Changed(c)
          BY <2>5, <3>3 DEF Writes
        <4>2. cache'[n][p] = IF n = HomeOf[c] THEN Turned(c, {n}, "due")[n][p]
                                              ELSE Turned(c, {n}, "missed")[n][p]
          BY <4>1 DEF Changed
        <4>3. \A s : Turned(c, {n}, s)[n][p] =
                 IF p = PairOf[call[c].id] /\ cache[n][p] # NoEntry
                 THEN [cache[n][p] EXCEPT !.stale = s] ELSE cache[n][p]
          BY DEF Turned
        <4>4. cache[n][p] \in Entry
          BY <1>1
        <4>5. p = PairOf[call[c].id]
          BY <3>3, <4>2, <4>3
        <4>6. n = HomeOf[c]
          <5> SUFFICES ASSUME n # HomeOf[c]
                       PROVE  FALSE
            OBVIOUS
          <5>1. cache'[n][p] = Turned(c, {n}, "missed")[n][p]
            BY <4>2
          <5>2. cache'[n][p] = [cache[n][p] EXCEPT !.stale = "missed"]
            BY <3>3, <4>3, <5>1
          <5>3. cache'[n][p].stale = "missed"
            BY <4>4, <5>2 DEF Entry
          <5> QED
            BY <5>3
        <4> QED
          BY <3>1, <3>3, <4>5, <4>6
      <3> QED
        BY <3>2, <3>3
    <2> QED
      BY <1>3, <2>1, <2>2, <2>3, <2>4, <2>5, LicenceSteps
  <1>4. ASSUME NEW r \in Requests, RequestStep(r)
        PROVE  \E c \in Procs : /\ HomeOf[c] = n /\ call'[c].pc = "notify"
                                /\ PairOf[call'[c].id] = p
    <2>1. /\ Alone(r) /\ (~ StartTrial(r) => UNCHANGED call)
          /\ StartTrial(r) => UNCHANGED cache /\ call[r] = Idle
          /\ \/ UNCHANGED cache
             \/ cache' = [cache EXCEPT ![HomeOf[r]][req[r].pair] = NoEntry]
             \/ \E reason \in Reasons : cache' = Stored(r, reason)
      BY <1>4, RequestSteps
    <2>2. r \in Procs /\ HomeOf[r] \in Instances /\ req[r].pair \in Pairs
      BY <1>1, AccessAssumption DEF Procs, AccessTypeOK, Request
    <2>3. cache'[n][p] = cache[n][p] \/ cache'[n][p].stale # "due"
      <3>1. CASE UNCHANGED cache
        BY <3>1
      <3>2. CASE cache' = [cache EXCEPT ![HomeOf[r]][req[r].pair] = NoEntry]
        BY <1>1, <2>2, <3>2
      <3>3. ASSUME NEW reason \in Reasons, cache' = Stored(r, reason)
            PROVE  cache'[n][p] = cache[n][p] \/ cache'[n][p].stale # "due"
        BY <1>1, <2>2, <3>3 DEF Stored
      <3> QED
        BY <2>1, <3>1, <3>2, <3>3
    <2>4. \A c \in Procs : call[c].pc = "notify" => call'[c] = call[c]
      BY <2>1, IdleOK DEF Alone
    <2> QED
      BY <1>2, <2>3, <2>4
  <1>5. ASSUME NEW u \in Customers, SetBlocked(u)
        PROVE  \E c \in Procs : /\ HomeOf[c] = n /\ call'[c].pc = "notify"
                                /\ PairOf[call'[c].id] = p
    BY <1>2, <1>5 DEF SetBlocked, vars
  <1> QED
    BY <1>3, <1>4, <1>5 DEF AccessNext

-----------------------------------------------------------------------------
(* What is granted was true.                                               *)

\* What a request has read was true when it read it, and what it has read of a
\* licence grants less and less as the days pass.
Founded ==
  \A r \in Requests :
    /\ req[r].pc \in {"licence", "decide"} => "customer" \in founded[r]
    /\ req[r].pc = "decide" /\ Decision(r) \in Granting => "licence" \in founded[r]
    /\ req[r].pc = "reply" => req[r].reason \notin Granting

LEMMA NowGrows ==
  ASSUME TypeOK, [Next]_vars
  PROVE  now \in Nat /\ now' \in Nat /\ now <= now'
  <1>1. now \in Nat /\ (now' = now \/ now' = now + 1)
    BY DEF TypeOK, Next, vars, EmitFind, Begin, Step, EmitInsert, RenewRead, Write, Notify, Fail,
           Sweep, SweepPick, SweepNext, Tick
  <1> QED
    BY <1>1

\* A row that grants tomorrow grants today.
LEMMA GrantLasts ==
  ASSUME NEW row \in Row, now \in Nat, now' \in Nat, now <= now'
  PROVE  /\ Status(row)' \in Granting => Status(row) \in Granting
         /\ Resolve(row)' \in Granting => Resolve(row) \in Granting
  <1>1. /\ Over(row) => Over(row)'
        /\ Graced(row)' => Graced(row)
        /\ Paid(row)' = Paid(row)
    BY DEF Over, Graced, Paid, Row, Dates, NoDate
  <1>2. Status(row)' \in Granting => Status(row) \in Granting
    BY <1>1 DEF Status, Granting
  <1>3. Resolve(row)' \in Granting => Resolve(row) \in Granting
    BY <1>1, <1>2 DEF Resolve, Granting
  <1> QED
    BY <1>2, <1>3

LEMMA DecisionLasts ==
  ASSUME AccessTypeOK, NEW r \in Requests, req'[r] = req[r],
         now \in Nat, now' \in Nat, now <= now', Decision(r)' \in Granting
  PROVE  Decision(r) \in Granting
  <1> DEFINE row == req[r].seen
  <1>1. req[r].seen \in Row
    BY DEF AccessTypeOK, Request
  <1>2. PICK x \in Row : x = req[r].seen
    BY <1>1
  <1>3. /\ Status(x)' \in Granting => Status(x) \in Granting
        /\ Resolve(x)' \in Granting => Resolve(x) \in Granting
    BY GrantLasts
  <1>4. /\ Decision(r) = CASE x.status = "absent" -> "none"
                           [] x.status # "absent" /\ req[r].kind = "status" -> Status(x)
                           [] OTHER -> Resolve(x)
        /\ Decision(r)' = CASE x.status = "absent" -> "none"
                            [] x.status # "absent" /\ req[r].kind = "status" -> Status(x)'
                            [] OTHER -> Resolve(x)'
    BY <1>2 DEF Decision
  <1>5. "none" \notin Granting
    BY DEF Granting
  <1> QED
    BY <1>3, <1>4, <1>5

LEMMA FoundedStep ==
  ASSUME IInv, AccessTypeOK, AccessTypeOK', Founded, AccessNext
  PROVE  Founded'
  <1> SUFFICES ASSUME NEW r \in Requests
               PROVE  /\ req'[r].pc \in {"licence", "decide"} => "customer" \in founded'[r]
                      /\ req'[r].pc = "decide" /\ Decision(r)' \in Granting
                           => "licence" \in founded'[r]
                      /\ req'[r].pc = "reply" => req'[r].reason \notin Granting
    BY DEF Founded
  <1>1. /\ TypeOK /\ now \in Nat /\ now' \in Nat /\ now <= now'
    BY StepIsNext, NowGrows DEF IInv
  <1>2. /\ req'[r].pc # "idle" => founded[r] \subseteq founded'[r]
        /\ req'[r].pc # "idle" => TrueFor(r)' \subseteq founded'[r]
    BY DEF AccessNext, Track
  <1>3. CASE req'[r] = req[r]
    <2>1. req'[r].pc = "decide" /\ Decision(r)' \in Granting => Decision(r) \in Granting
      BY <1>1, <1>3, DecisionLasts
    <2> QED
      BY <1>2, <1>3, <2>1 DEF Founded
  <1>4. CASE req'[r] # req[r]
    <2>1. RequestStep(r)
      <3>1. CASE LicenceStep
        BY <1>4, <3>1 DEF LicenceStep
      <3>2. ASSUME NEW q \in Requests, RequestStep(q)
            PROVE  RequestStep(r)
        BY <1>4, <3>2, RequestSteps
      <3>3. ASSUME NEW u \in Customers, SetBlocked(u)
            PROVE  RequestStep(r)
        BY <1>4, <3>3 DEF SetBlocked
      <3> QED
        BY <3>1, <3>2, <3>3 DEF AccessNext
    <2>2. /\ req[r] \in Request /\ req \in [Requests -> Request] /\ req[r].pair \in Pairs
          /\ UNCHANGED <<lic, now, blocked>>
      BY <1>1, <2>1, RequestSteps DEF AccessTypeOK, Request
    <2>3. CASE ReadCustomer(r)
      <3>1. CASE blocked[CustomerOf[req[r].pair]]
        <4>1. req'[r] = [req[r] EXCEPT !.pc = "reply", !.reason = "customer_blocked"]
          BY <2>2, <2>3, <3>1 DEF ReadCustomer
        <4>2. req'[r].pc = "reply" /\ req'[r].reason = "customer_blocked"
          BY <2>2, <4>1 DEF Request
        <4> QED
          BY <4>2 DEF Granting
      <3>2. CASE ~ blocked[CustomerOf[req[r].pair]]
        <4>1. req'[r] = [req[r] EXCEPT !.pc = "licence"]
          BY <2>2, <2>3, <3>2 DEF ReadCustomer, Goes
        <4>2. req'[r].pc = "licence" /\ req'[r].pair = req[r].pair
          BY <2>2, <4>1 DEF Request
        <4>3. "customer" \in TrueFor(r)'
          BY <2>2, <3>2, <4>2 DEF TrueFor, Grounds
        <4> QED
          BY <1>2, <4>2, <4>3
      <3> QED
        BY <3>1, <3>2
    <2>4. CASE ReadLicence(r)
      <3>1. /\ req[r].pc = "licence"
            /\ req'[r] = [req[r] EXCEPT !.pc = "decide", !.seen = LiveRow(req[r].pair)]
        BY <2>2, <2>4 DEF ReadLicence
      <3>2. /\ req'[r].pc = "decide" /\ req'[r].pair = req[r].pair
            /\ req'[r].seen = LiveRow(req[r].pair) /\ req'[r].kind = req[r].kind
        BY <2>2, <3>1 DEF Request
      <3>3. "customer" \in founded'[r]
        BY <1>2, <3>1, <3>2 DEF Founded
      <3>4. LiveRow(req[r].pair)' = LiveRow(req'[r].pair)
        BY <2>2, <3>2 DEF LiveRow, Live
      <3>5. ASSUME Decision(r)' \in Granting
            PROVE  "licence" \in founded'[r]
        <4>1. PICK p \in Pairs : p = req[r].pair
          BY <2>2
        <4>2. LiveRow(p) = req'[r].seen /\ LiveRow(p)' = LiveRow(p) /\ Live(p)' = Live(p)
          BY <2>2, <3>2, <4>1 DEF LiveRow, Live
        <4>3. PICK x : x = LiveRow(p)
          OBVIOUS
        <4>4. Decision(r)' = CASE x.status = "absent" -> "none"
                               [] x.status # "absent" /\ req'[r].kind = "status" -> Status(x)'
                               [] OTHER -> Resolve(x)'
          BY <4>2, <4>3 DEF Decision
        <4>5. "none" \notin Granting /\ NoRow.status = "absent"
          BY DEF Granting, NoRow
        <4>6. x.status # "absent"
          BY <3>5, <4>4, <4>5
        <4>7. Live(p) # {}
          BY <1>1, <4>3, <4>5, <4>6, LiveRowOK
        <4>8. Status(x) \in Granting
          <5>1. Status(x)' = Status(x) /\ Resolve(x)' = Resolve(x)
            BY <2>2 DEF Status, Resolve, Over, Graced, Paid
          <5>2. Resolve(x) \in Granting => Status(x) \in Granting
            BY <4>5 DEF Resolve
          <5> QED
            BY <3>5, <4>4, <4>6, <5>1, <5>2
        <4>9. LetsIn(p)'
          <5>1. Status(LiveRow(p))' = Status(x)
            BY <2>2, <4>2, <4>3 DEF Status, Over, Graced, Paid
          <5> QED
            BY <4>2, <4>7, <4>8, <5>1 DEF LetsIn
        <4>10. "licence" \in TrueFor(r)'
          BY <3>2, <4>1, <4>9 DEF TrueFor, Grounds
        <4> QED
          BY <1>2, <3>2, <4>10
      <3> QED
        BY <3>2, <3>3, <3>5
    <2>5. CASE ReadTrial(r)
      <3>1. \/ \E reason \in {"trial_expired", "no_license"} :
                 req'[r] = [req[r] EXCEPT !.pc = "reply", !.reason = reason]
            \/ req'[r] = [req[r] EXCEPT !.pc = "emit"]
        BY <2>2, <2>5 DEF ReadTrial, Goes
      <3>2. \/ req'[r].pc = "reply" /\ req'[r].reason \in {"trial_expired", "no_license"}
            \/ req'[r].pc = "emit"
        BY <2>2, <3>1 DEF Request
      <3> QED
        BY <3>2 DEF Granting
    <2>6. CASE \/ Hit(r) \/ Miss(r) \/ Decide(r) \/ Reply(r) \/ StartTrial(r) \/ TrialDone(r)
               \/ \E kind \in {"status", "resolve"}, p \in Pairs : Arrive(r, kind, p)
      <3>1. \A pc : [req[r] EXCEPT !.pc = pc].pc = pc
        BY <2>2 DEF Request
      <3>2. ASSUME NEW kind, NEW p,
                   req' = [req EXCEPT ![r] = [NoRequest EXCEPT
                            !.pc = IF kind = "status" THEN "lookup" ELSE "customer",
                            !.kind = kind, !.pair = p]]
            PROVE  req'[r].pc \in {"lookup", "customer"}
        BY <2>2, <3>2 DEF NoRequest
      <3>3. req'[r].pc \in {"idle", "customer", "trial", "emitting", "lookup"}
        <4>1. CASE Hit(r) \/ Decide(r) \/ Reply(r) \/ TrialDone(r)
          BY <2>2, <3>1, <4>1, NoRequestOK DEF Hit, Decide, Reply, TrialDone, Answer, Goes
        <4>2. CASE Miss(r) \/ StartTrial(r)
          BY <2>2, <3>1, <4>2 DEF Miss, StartTrial, Goes
        <4>3. ASSUME NEW kind \in {"status", "resolve"}, NEW p \in Pairs, Arrive(r, kind, p)
              PROVE  req'[r].pc \in {"lookup", "customer"}
          BY <3>2, <4>3 DEF Arrive
        <4> QED
          BY <2>6, <4>1, <4>2, <4>3
      <3> QED
        BY <3>3
    <2> QED
      BY <2>1, <2>3, <2>4, <2>5, <2>6 DEF RequestStep
  <1> QED
    BY <1>3, <1>4

\* A cached answer that lets in was stored by a request that let in rightly.
KeptFounded ==
  \A n \in Instances, p \in Pairs :
    cache[n][p].reason \in Granting => cache[n][p].ground = Grounds

\* The rest of a step leaves an entry, empties it, or only marks it stale.
LEMMA KeptStep ==
  ASSUME IInv, AccessTypeOK, Founded, KeptFounded, AccessNext
  PROVE  KeptFounded'
  <1> SUFFICES ASSUME NEW n \in Instances, NEW p \in Pairs, cache'[n][p].reason \in Granting
               PROVE  cache'[n][p].ground = Grounds
    BY DEF KeptFounded
  <1> DEFINE Same == /\ cache'[n][p].reason = cache[n][p].reason
                     /\ cache'[n][p].ground = cache[n][p].ground
  <1>1. /\ TypeOK /\ cache[n][p] \in Entry /\ cache \in [Instances -> [Pairs -> Entry]]
        /\ NoEntry.reason \notin Granting
    BY NoRequestOK DEF IInv, AccessTypeOK
  <1>2. Same => cache'[n][p].ground = Grounds
    BY DEF KeptFounded
  <1>3. \A s : /\ [cache[n][p] EXCEPT !.stale = s].reason = cache[n][p].reason
               /\ [cache[n][p] EXCEPT !.stale = s].ground = cache[n][p].ground
    BY <1>1 DEF Entry
  <1>4. CASE LicenceStep
    <2>1. ASSUME NEW c \in Procs, cache' = Changed(c)
          PROVE  Same
      <3>1. PICK s : cache'[n][p] = Turned(c, {n}, s)[n][p]
        BY <2>1 DEF Changed
      <3>2. cache'[n][p] = cache[n][p] \/ cache'[n][p] = [cache[n][p] EXCEPT !.stale = s]
        BY <3>1 DEF Turned
      <3> QED
        BY <1>3, <3>2
    <2>2. ASSUME NEW c \in Procs, cache' = Turned(c, {HomeOf[c]}, "missed")
          PROVE  Same
      <3>1. cache'[n][p] = cache[n][p] \/ cache'[n][p] = [cache[n][p] EXCEPT !.stale = "missed"]
        BY <2>2 DEF Turned
      <3> QED
        BY <1>3, <3>1
    <2>3. ASSUME NEW c \in Procs, cache' = Dropped(c)
          PROVE  Same
      <3>1. cache'[n][p] = cache[n][p] \/ cache'[n][p] = NoEntry
        BY <1>1, <2>3 DEF Dropped
      <3> QED
        BY <1>1, <3>1
    <2>4. ASSUME cache' = cache
          PROVE  Same
      BY <2>4
    <2>5. Same
      BY <1>4, <2>1, <2>2, <2>3, <2>4, LicenceSteps DEF Reads, Writes, Drops, Fails
    <2> QED
      BY <1>2, <2>5
  <1>5. ASSUME NEW r \in Requests, RequestStep(r)
        PROVE  cache'[n][p].ground = Grounds
    <2>1. req[r] \in Request /\ founded[r] \in SUBSET Grounds
      BY DEF AccessTypeOK
    <2>2. ASSUME NEW reason, Answer(r, reason), reason \in Granting => founded[r] = Grounds
          PROVE  cache'[n][p].ground = Grounds
      <3>1. CASE UNCHANGED cache
        BY <1>2, <3>1
      <3>2. CASE cache' = Stored(r, reason)
        <4>1. \/ cache'[n][p] = cache[n][p]
              \/ /\ cache'[n][p].reason = reason
                 /\ cache'[n][p].ground = IF reason \in Granting THEN founded[r] ELSE {}
          BY <1>1, <3>2 DEF Stored
        <4> QED
          BY <1>2, <2>2, <4>1
      <3> QED
        BY <2>2, <3>1, <3>2 DEF Answer
    <2>3. CASE Decide(r)
      <3>1. req[r].pc = "decide" /\ (UNCHANGED cache \/ Answer(r, Decision(r)))
        BY <2>3 DEF Decide
      <3>2. Decision(r) \in Granting => founded[r] = Grounds
        BY <2>1, <3>1 DEF Founded, Grounds
      <3> QED
        BY <1>2, <2>2, <3>1, <3>2
    <2>4. CASE Reply(r)
      <3>1. req[r].reason \notin Granting /\ Answer(r, req[r].reason)
        BY <2>4 DEF Reply, Founded
      <3> QED
        BY <2>2, <3>1
    <2>5. CASE Miss(r)
      <3>1. cache'[n][p] = cache[n][p] \/ cache'[n][p] = NoEntry
        BY <1>1, <2>5 DEF Miss
      <3> QED
        BY <1>1, <1>2, <3>1
    <2>6. CASE ~ Decide(r) /\ ~ Reply(r) /\ ~ Miss(r)
      <3>1. UNCHANGED cache
        BY <1>5, <2>6 DEF RequestStep, Arrive, Hit, ReadCustomer, ReadLicence, ReadTrial, StartTrial,
                          TrialDone
      <3> QED
        BY <1>2, <3>1
    <2> QED
      BY <2>3, <2>4, <2>5, <2>6
  <1>6. ASSUME NEW u \in Customers, SetBlocked(u)
        PROVE  cache'[n][p].ground = Grounds
    BY <1>2, <1>6 DEF SetBlocked
  <1> QED
    BY <1>4, <1>5, <1>6 DEF AccessNext

-----------------------------------------------------------------------------
(* One trial for each request that overlapped.                             *)

Trials(p) == {i \in Ids : PairOf[i] = p /\ lic[i].origin = "trial"}

\* Requests that have found no trial and have not written theirs.
Starting(p) ==
  {r \in Requests : /\ req[r].pair = p
                    /\ \/ req[r].pc = "emit"
                       \/ req[r].pc = "emitting" /\ call[r].pc = "insert"}

\* Only a request inserts a trial.
OwnTrials ==
  \A c \in Procs :
    call[c].pc = "insert" /\ call[c].par.origin = "trial" =>
      c \in Requests /\ req[c].pc = "emitting" /\ req[c].pair = PairOf[call[c].id]

\* Every trial has taken the place of a request that was starting one.
Counted ==
  \A p \in Pairs : /\ IsFiniteSet(Trials(p))
                   /\ Cardinality(Trials(p)) + Cardinality(Starting(p)) <= Cardinality(Requests)

TrialsCounted == "trial" \notin Sellers => OwnTrials /\ Counted

LEMMA Starters ==
  ASSUME NEW S, S \subseteq Requests
  PROVE  IsFiniteSet(S) /\ Cardinality(S) \in Nat /\ Cardinality(S) <= Cardinality(Requests)
         /\ Cardinality(Requests) \in Nat
  BY AccessAssumption, FS_Subset, FS_CardinalityType

\* No more trials, and nobody starts one that was not already starting one.
LEMMA FewerStart ==
  ASSUME NEW p \in Pairs, Counted, Trials(p)' = Trials(p), Starting(p)' \subseteq Starting(p)
  PROVE  /\ IsFiniteSet(Trials(p))'
         /\ (Cardinality(Trials(p)) + Cardinality(Starting(p)) <= Cardinality(Requests))'
  <1>1. PICK T, S, S2 : T = Trials(p) /\ S = Starting(p) /\ S2 = Starting(p)'
    OBVIOUS
  <1>2. S \subseteq Requests /\ S2 \subseteq S
    BY <1>1 DEF Starting
  <1>3. /\ Cardinality(S2) <= Cardinality(S) /\ Cardinality(S2) \in Nat /\ Cardinality(S) \in Nat
        /\ Cardinality(Requests) \in Nat
    BY <1>2, Starters, FS_Subset
  <1>4. IsFiniteSet(T) /\ Cardinality(T) \in Nat /\ Cardinality(T) + Cardinality(S) <= Cardinality(Requests)
    BY <1>1, FS_CardinalityType DEF Counted
  <1>5. Cardinality(T) + Cardinality(S2) <= Cardinality(Requests)
    BY <1>3, <1>4
  <1>6. T = Trials(p)'
    BY <1>1
  <1> QED
    BY <1>1, <1>4, <1>5, <1>6

\* The first one for a pair without a trial.
LEMMA FirstStarts ==
  ASSUME NEW p \in Pairs, Trials(p)' = {}
  PROVE  /\ IsFiniteSet(Trials(p))'
         /\ (Cardinality(Trials(p)) + Cardinality(Starting(p)) <= Cardinality(Requests))'
  <1>1. PICK S2 : S2 = Starting(p)'
    OBVIOUS
  <1>2. S2 \subseteq Requests
    BY <1>1 DEF Starting
  <1>3. /\ Cardinality(S2) <= Cardinality(Requests) /\ Cardinality(S2) \in Nat
    BY <1>2, Starters
  <1>4. IsFiniteSet({}) /\ Cardinality({}) = 0
    BY FS_EmptySet
  <1> QED
    BY <1>1, <1>3, <1>4

\* One that was starting has started.
LEMMA OneStarted ==
  ASSUME NEW p \in Pairs, NEW i, NEW r, Counted, Trials(p)' = Trials(p) \cup {i},
         r \in Starting(p), Starting(p)' \subseteq Starting(p) \ {r}
  PROVE  /\ IsFiniteSet(Trials(p))'
         /\ (Cardinality(Trials(p)) + Cardinality(Starting(p)) <= Cardinality(Requests))'
  <1>1. PICK T, S, S2 : T = Trials(p) /\ S = Starting(p) /\ S2 = Starting(p)'
    OBVIOUS
  <1>2. S \subseteq Requests /\ S2 \subseteq S \ {r} /\ r \in S
    BY <1>1 DEF Starting
  <1>3. /\ IsFiniteSet(S) /\ Cardinality(S) \in Nat /\ Cardinality(Requests) \in Nat
    BY <1>2, Starters
  <1>4. Cardinality(S \ {r}) = Cardinality(S) - 1 /\ IsFiniteSet(S \ {r})
    BY <1>2, <1>3, FS_RemoveElement
  <1>5. Cardinality(S2) <= Cardinality(S) - 1 /\ Cardinality(S2) \in Nat
    BY <1>2, <1>4, FS_Subset, FS_CardinalityType
  <1>6. IsFiniteSet(T) /\ Cardinality(T) \in Nat /\ Cardinality(T) + Cardinality(S) <= Cardinality(Requests)
    BY <1>1, FS_CardinalityType DEF Counted
  <1>7. /\ IsFiniteSet(T \cup {i}) /\ Cardinality(T \cup {i}) \in Nat
        /\ Cardinality(T \cup {i}) <= Cardinality(T) + 1
    BY <1>6, FS_AddElement
  <1>8. Cardinality(T \cup {i}) + Cardinality(S2) <= Cardinality(Requests)
    BY <1>3, <1>5, <1>6, <1>7
  <1>9. T \cup {i} = Trials(p)'
    BY <1>1
  <1> QED
    BY <1>1, <1>7, <1>8, <1>9

LEMMA OwnStep ==
  ASSUME IInv, AccessTypeOK, OwnTrials, "trial" \notin Sellers, AccessNext
  PROVE  OwnTrials'
  <1> SUFFICES ASSUME NEW c \in Procs, call'[c].pc = "insert", call'[c].par.origin = "trial"
               PROVE  c \in Requests /\ req'[c].pc = "emitting" /\ req'[c].pair = PairOf[call'[c].id]
    BY DEF OwnTrials
  <1>1. CASE LicenceStep
    <2>1. call'[c] = call[c]
      BY <1>1, LicenceSteps, WritesOK, DropsOK, FailsOK DEF Reads, Alone, Tick, IInv
    <2> QED
      BY <1>1, <2>1 DEF LicenceStep, OwnTrials
  <1>2. ASSUME NEW r \in Requests, RequestStep(r)
        PROVE  c \in Requests /\ req'[c].pc = "emitting" /\ req'[c].pair = PairOf[call'[c].id]
    <2>1. /\ Alone(r) /\ (~ StartTrial(r) => UNCHANGED call)
          /\ \A q \in Requests : q # r => req'[q] = req[q]
      BY <1>2, RequestSteps
    <2>2. CASE c # r
      BY <2>1, <2>2 DEF Alone, OwnTrials
    <2>3. CASE c = r /\ ~ StartTrial(r)
      <3>1. call'[c] = call[c] /\ req[c].pc = "emitting" /\ req[c].pair = PairOf[call[c].id]
        BY <2>1, <2>3 DEF OwnTrials
      <3>2. RequestStep(r) /\ req[r].pc = "emitting" => TrialDone(r)
        BY <2>3, NoRequestOK DEF RequestStep, Arrive, Hit, Miss, ReadCustomer, ReadLicence, Decide,
                                 ReadTrial, Reply
      <3>3. call[r] = Idle
        BY <1>2, <2>3, <3>1, <3>2 DEF TrialDone
      <3> QED
        BY <2>3, <3>1, <3>3, IdleOK
    <2>4. CASE c = r /\ StartTrial(r)
      <3>1. PICK days \in TrialDays \ {NoDate} : EmitFind(r, req[r].pair, TrialTerms(days))
        BY <2>4 DEF StartTrial
      <3>2. /\ req[r] \in Request /\ req'[r] = [req[r] EXCEPT !.pc = "emitting"]
            /\ call \in [Procs -> Call]
        BY <2>4 DEF StartTrial, Goes, AccessTypeOK, IInv, TypeOK
      <3>3. req'[r].pc = "emitting" /\ req'[r].pair = req[r].pair
        BY <3>2 DEF Request
      <3>4. call'[r].pc = "insert" => call'[r].id \in Spare(req[r].pair)
        <4>1. ASSUME NEW i \in Live(req[r].pair),
                     call' = [call EXCEPT ![r] = [Idle EXCEPT
                                !.pc = "read", !.op = "renew", !.id = i,
                                !.par = [TrialTerms(days) EXCEPT !.origin = "none"]]]
              PROVE  call'[r].pc = "read"
          BY <2>4, <3>2, <4>1, IdleOK DEF Call
        <4>2. ASSUME NEW i \in Spare(req[r].pair),
                     call' = [call EXCEPT ![r] = [Idle EXCEPT
                                !.pc = "insert", !.op = "emit", !.id = i, !.par = TrialTerms(days)]]
              PROVE  call'[r].id = i
          BY <2>4, <3>2, <4>2, IdleOK DEF Call
        <4> QED
          BY <3>1, <4>1, <4>2 DEF EmitFind
      <3> QED
        BY <2>4, <3>3, <3>4 DEF Spare
    <2> QED
      BY <2>2, <2>3, <2>4
  <1>3. ASSUME NEW u \in Customers, SetBlocked(u)
        PROVE  c \in Requests /\ req'[c].pc = "emitting" /\ req'[c].pair = PairOf[call'[c].id]
    BY <1>3 DEF SetBlocked, vars, OwnTrials
  <1> QED
    BY <1>1, <1>2, <1>3 DEF AccessNext

LEMMA CountedStep ==
  ASSUME IInv, AccessTypeOK, OwnTrials, Counted, AccessNext
  PROVE  Counted'
  <1> SUFFICES ASSUME NEW p \in Pairs
               PROVE  /\ IsFiniteSet(Trials(p))'
                      /\ (Cardinality(Trials(p)) + Cardinality(Starting(p)) <= Cardinality(Requests))'
    BY DEF Counted
  <1>1. \A i \in Ids : lic[i].status = "absent" => lic[i].origin = "none"
    BY DEF IInv, AbsentIsBlank, NoRow
  <1>2. CASE LicenceStep
    <2>1. UNCHANGED req /\ Requests \subseteq Procs
      BY <1>2, AccessAssumption DEF LicenceStep, Procs
    <2>2. ASSUME UNCHANGED lic, \A r \in Requests : call'[r].pc = "insert" => call[r].pc = "insert"
          PROVE  Trials(p)' = Trials(p) /\ Starting(p)' \subseteq Starting(p)
      BY <2>1, <2>2 DEF Trials, Starting
    <2>3. ASSUME Tick
          PROVE  Trials(p)' = Trials(p) /\ Starting(p)' \subseteq Starting(p)
      BY <2>2, <2>3 DEF Tick
    <2>4. ASSUME NEW c \in Procs, Reads(c) \/ Drops(c) \/ Fails(c)
          PROVE  Trials(p)' = Trials(p) /\ Starting(p)' \subseteq Starting(p)
      <3>1. /\ UNCHANGED lic /\ Alone(c)
            /\ call'[c].pc = "insert" => c \notin Requests
        BY <2>4, DropsOK, FailsOK DEF Reads, IInv
      <3> QED
        BY <2>1, <2>2, <3>1 DEF Alone
    <2>5. ASSUME NEW c \in Procs, Writes(c)
          PROVE  /\ IsFiniteSet(Trials(p))'
                 /\ (Cardinality(Trials(p)) + Cardinality(Starting(p)) <= Cardinality(Requests))'
      <3>1. /\ Alone(c) /\ call'[c].pc # "insert"
            /\ \A i \in Ids : lic'[i].origin # lic[i].origin =>
                 /\ call[c].pc = "insert" /\ i = call[c].id /\ lic[i].status = "absent"
                 /\ lic'[i].origin = call[c].par.origin
        BY <2>5, WritesOK
      <3>2. Starting(p)' \subseteq Starting(p)
        BY <2>1, <3>1 DEF Starting, Alone
      <3>3. CASE Trials(p)' = Trials(p)
        BY <3>2, <3>3, FewerStart
      <3>4. CASE Trials(p)' # Trials(p)
        <4>1. PICK i \in Ids : /\ PairOf[i] = p
                               /\ ~ (lic[i].origin = "trial" <=> lic'[i].origin = "trial")
          BY <3>4 DEF Trials
        <4>2. /\ call[c].pc = "insert" /\ i = call[c].id /\ lic[i].origin = "none"
              /\ call[c].par.origin = "trial" /\ lic'[i].origin = "trial"
          BY <1>1, <3>1, <4>1
        <4>3. c \in Starting(p)
          BY <4>1, <4>2 DEF Starting, OwnTrials
        <4>4. Trials(p)' = Trials(p) \cup {i}
          BY <3>1, <4>1, <4>2 DEF Trials
        <4>5. c \notin Starting(p)'
          BY <2>1, <3>1, <4>2 DEF Starting, OwnTrials
        <4>6. Starting(p)' \subseteq Starting(p) \ {c}
          BY <3>2, <4>5
        <4> QED
          BY <4>3, <4>4, <4>6, OneStarted
      <3> QED
        BY <3>3, <3>4
    <2> QED
      BY <1>2, <2>3, <2>4, <2>5, LicenceSteps, FewerStart
  <1>3. ASSUME NEW r \in Requests, RequestStep(r)
        PROVE  /\ IsFiniteSet(Trials(p))'
               /\ (Cardinality(Trials(p)) + Cardinality(Starting(p)) <= Cardinality(Requests))'
    <2>1. /\ UNCHANGED lic /\ Alone(r) /\ (~ StartTrial(r) => UNCHANGED call)
          /\ \A q \in Requests : q # r => req'[q] = req[q]
      BY <1>3, RequestSteps
    <2>2. Trials(p)' = Trials(p) /\ Requests \subseteq Procs
      BY <2>1, AccessAssumption DEF Trials, Procs
    <2>3. req[r] \in Request /\ req \in [Requests -> Request]
      BY DEF AccessTypeOK
    <2>4. CASE r \notin Starting(p)'
      <3>1. Starting(p)' \subseteq Starting(p)
        BY <2>1, <2>2, <2>4 DEF Starting, Alone
      <3> QED
        BY <2>2, <3>1, FewerStart
    <2>5. CASE r \in Starting(p) /\ r \in Starting(p)'
      <3>1. Starting(p)' \subseteq Starting(p)
        BY <2>1, <2>2, <2>5 DEF Starting, Alone
      <3> QED
        BY <2>2, <3>1, FewerStart
    <2>6. CASE r \notin Starting(p) /\ r \in Starting(p)'
      <3>0. /\ req'[r].pair = p
            /\ \/ req'[r].pc = "emit"
               \/ req'[r].pc = "emitting" /\ call'[r].pc = "insert"
        BY <2>6 DEF Starting
      <3>1. \A pc : [req[r] EXCEPT !.pc = pc].pc = pc /\ [req[r] EXCEPT !.pc = pc].pair = req[r].pair
        BY <2>3 DEF Request
      <3>2. CASE ReadTrial(r)
        <4>1. req'[r].pc # "reply"
          BY <3>0
        <4>2. \A reason : [req[r] EXCEPT !.pc = "reply", !.reason = reason].pc = "reply"
          BY <2>3 DEF Request
        <4>3. TrialOf(req[r].pair) = {} /\ req'[r] = [req[r] EXCEPT !.pc = "emit"]
          BY <2>3, <3>2, <4>1, <4>2 DEF ReadTrial, Goes
        <4>4. TrialOf(p) = {}
          BY <3>0, <3>1, <4>3
        <4>5. Trials(p) = {}
          BY <1>1, <4>4 DEF Trials, TrialOf
        <4> QED
          BY <2>2, <4>5, FirstStarts
      <3>3. CASE StartTrial(r)
        <4>1. req[r].pc = "emit" /\ req[r].pair = p
          BY <2>3, <3>0, <3>1, <3>3 DEF StartTrial, Goes
        <4> QED
          BY <2>6, <4>1 DEF Starting
      <3>4. CASE \/ Hit(r) \/ Miss(r) \/ ReadCustomer(r) \/ ReadLicence(r) \/ Decide(r) \/ Reply(r)
                 \/ TrialDone(r)
                 \/ \E kind \in {"status", "resolve"}, q \in Pairs : Arrive(r, kind, q)
        <4>1. \A reason : [req[r] EXCEPT !.pc = "reply", !.reason = reason].pc = "reply"
          BY <2>3 DEF Request
        <4>2. \A row : [req[r] EXCEPT !.pc = "decide", !.seen = row].pc = "decide"
          BY <2>3 DEF Request
        <4>3. CASE Hit(r) \/ Decide(r) \/ Reply(r) \/ TrialDone(r)
          BY <2>3, <3>0, <3>1, <4>3, NoRequestOK DEF Hit, Decide, Reply, TrialDone, Answer, Goes
        <4>4. CASE Miss(r) \/ ReadCustomer(r) \/ ReadLicence(r)
          <5>1. CASE Miss(r)
            BY <2>3, <3>0, <3>1, <5>1 DEF Miss, Goes
          <5>2. CASE ReadCustomer(r)
            <6>1. \/ req'[r] = [req[r] EXCEPT !.pc = "reply", !.reason = "customer_blocked"]
                  \/ req'[r] = [req[r] EXCEPT !.pc = "licence"]
              BY <2>3, <5>2 DEF ReadCustomer, Goes
            <6>2. req'[r].pc \in {"reply", "licence"}
              BY <3>1, <4>1, <6>1
            <6> QED
              BY <3>0, <6>2
          <5>3. CASE ReadLicence(r)
            <6>1. req'[r].pc = "decide"
              BY <2>3, <4>2, <5>3 DEF ReadLicence
            <6> QED
              BY <3>0, <6>1
          <5> QED
            BY <4>4, <5>1, <5>2, <5>3
        <4>5. ASSUME NEW kind \in {"status", "resolve"}, NEW q \in Pairs, Arrive(r, kind, q)
              PROVE  FALSE
          <5>1. req'[r].pc \in {"lookup", "customer"}
            BY <2>3, <4>5 DEF Arrive, NoRequest
          <5> QED
            BY <3>0, <5>1
        <4> QED
          BY <3>4, <4>3, <4>4, <4>5
      <3> QED
        BY <1>3, <3>2, <3>3, <3>4 DEF RequestStep
    <2> QED
      BY <2>4, <2>5, <2>6
  <1>4. ASSUME NEW u \in Customers, SetBlocked(u)
        PROVE  /\ IsFiniteSet(Trials(p))'
               /\ (Cardinality(Trials(p)) + Cardinality(Starting(p)) <= Cardinality(Requests))'
    <2>1. Trials(p)' = Trials(p) /\ Starting(p)' \subseteq Starting(p)
      BY <1>4 DEF SetBlocked, vars, Trials, Starting
    <2> QED
      BY <2>1, FewerStart
  <1> QED
    BY <1>2, <1>3, <1>4 DEF AccessNext

-----------------------------------------------------------------------------

AInv ==
  /\ IInv /\ AccessTypeOK
  /\ StaleIsDropped /\ Founded /\ KeptFounded /\ TrialsCounted

LEMMA InitAInv == AccessInit => AInv
  <1> SUFFICES ASSUME AccessInit
               PROVE  AInv
    OBVIOUS
  <1>1. IInv
    BY InitIInv DEF AccessInit
  <1>2. AccessTypeOK
    BY NoRequestOK DEF AccessInit, AccessTypeOK
  <1>3. \A r \in Requests : req[r] = NoRequest
    BY DEF AccessInit
  <1>4. StaleIsDropped /\ Founded /\ KeptFounded
    BY <1>3, NoRequestOK DEF AccessInit, StaleIsDropped, Founded, KeptFounded
  <1>5. \A c \in Procs : call[c] = Idle
    BY DEF AccessInit, Init
  <1>6. OwnTrials
    BY <1>5, IdleOK DEF OwnTrials
  <1>7. ASSUME NEW p \in Pairs
        PROVE  /\ IsFiniteSet(Trials(p))
               /\ Cardinality(Trials(p)) + Cardinality(Starting(p)) <= Cardinality(Requests)
    <2>1. Trials(p) = {} /\ Starting(p) = {}
      BY <1>3, NoRequestOK DEF AccessInit, Init, NoRow, Trials, Starting
    <2>2. IsFiniteSet({}) /\ Cardinality({}) = 0
      BY FS_EmptySet
    <2>3. Cardinality(Requests) \in Nat
      BY Starters
    <2> QED
      BY <2>1, <2>2, <2>3
  <1> QED
    BY <1>1, <1>2, <1>4, <1>6, <1>7 DEF AInv, TrialsCounted, Counted

LEMMA NextAInv == AInv /\ [AccessNext]_allVars => AInv'
  <1> SUFFICES ASSUME AInv, [AccessNext]_allVars
               PROVE  AInv'
    OBVIOUS
  <1>1. IInv'
    <2>1. [Next]_vars
      BY StepIsNext DEF AInv, IInv
    <2> QED
      BY <2>1, NextIInv DEF AInv
  <1>2. CASE AccessNext
    BY <1>1, <1>2, TypesStep, StaleStep, FoundedStep, KeptStep, OwnStep, CountedStep DEF AInv, TrialsCounted
  <1>3. CASE UNCHANGED allVars
    <2>1. /\ UNCHANGED <<lic, call, now, failures, blocked, cache, req, founded>>
      BY <1>3 DEF allVars, vars, accessVars
    <2>2. AccessTypeOK' /\ StaleIsDropped' /\ KeptFounded'
      BY <2>1 DEF AInv, AccessTypeOK, StaleIsDropped, KeptFounded
    <2>3. Founded'
      <3>1. \A r \in Requests : Decision(r)' = Decision(r)
        BY <2>1 DEF Decision, Status, Resolve, Over, Graced, Paid
      <3> QED
        BY <2>1, <3>1 DEF AInv, Founded
    <2>4. TrialsCounted'
      <3>1. \A p : Trials(p)' = Trials(p) /\ Starting(p)' = Starting(p)
        BY <2>1 DEF Trials, Starting
      <3> QED
        BY <2>1, <3>1 DEF AInv, TrialsCounted, OwnTrials, Counted
    <2> QED
      BY <1>1, <2>2, <2>3, <2>4 DEF AInv
  <1> QED
    BY <1>2, <1>3

LEMMA Invariant == AccessSpec => []AInv
  BY InitAInv, NextAInv, PTL DEF AccessSpec

\* Requests for access use the licence service as its specification has it: every
\* behaviour of the two together is one of the licence service, whose theorems
\* hold of it as they stand.
THEOREM UsesLicences == AccessSpec => Spec
  <1>1. AccessInit => Init
    BY DEF AccessInit
  <1>2. AInv /\ [AccessNext]_allVars => [Next]_vars
    BY StepIsNext DEF AInv, IInv
  <1> QED
    BY <1>1, <1>2, Invariant, PTL DEF AccessSpec, Spec

\* Customers, cache entries and requests have their types.
THEOREM Typed == AccessSpec => []AccessTypeOK
  <1>1. AInv => AccessTypeOK
    BY DEF AInv
  <1> QED
    BY <1>1, Invariant, PTL

\* resolve, status, validate and entitlements agree but over a grace period,
\* whatever row and whatever day.
THEOREM FourAgree == AccessSpec => []DecisionsAgree
  <1>1. AInv => DecisionsAgree
    BY Agree DEF AInv, IInv
  <1> QED
    BY <1>1, Invariant, PTL

\* An answer out of date is on its way out, but for what another process, a
\* failure or an overtaken read left behind.
THEOREM StaleGoes == AccessSpec => []StaleIsDropped
  <1>1. AInv => StaleIsDropped
    BY DEF AInv
  <1> QED
    BY <1>1, Invariant, PTL

\* No more trials of a product than requests that overlapped.
THEOREM OneTrial == AccessSpec => []TrialOnce
  <1>1. ASSUME AInv
        PROVE  TrialOnce
    <2> SUFFICES ASSUME "trial" \notin Sellers, NEW p \in Pairs
                 PROVE  Cardinality(Trials(p)) <= Cardinality(Requests)
      BY DEF TrialOnce, Trials
    <2>1. /\ IsFiniteSet(Trials(p))
          /\ Cardinality(Trials(p)) + Cardinality(Starting(p)) <= Cardinality(Requests)
      BY <1>1 DEF AInv, TrialsCounted, Counted
    <2>2. PICK S : S = Starting(p)
      OBVIOUS
    <2>3. Cardinality(S) \in Nat /\ Cardinality(Requests) \in Nat
      BY <2>2, Starters DEF Starting
    <2>4. Cardinality(Trials(p)) \in Nat
      BY <2>1, FS_CardinalityType
    <2> QED
      BY <2>1, <2>2, <2>3, <2>4
  <1> QED
    BY <1>1, Invariant, PTL

\* Who is let in had a licence that lets in and was not blocked, each at some
\* moment since the request arrived; who is let in by the cache had them while
\* the request ran that stored the answer, which is not older than its time.
THEOREM GrantsFounded == AccessSpec => GrantIsFounded
  <1> DEFINE Sound ==
        \A r \in Requests :
          LET kept == cache[HomeOf[r]][req[r].pair] IN
          /\ FindsYes(r) => founded[r] = Grounds
          /\ req[r].pc = "lookup" /\ req'[r].pc = "idle" /\ kept.reason \in Granting
             => kept.ground = Grounds /\ now <= kept.until
  <1>1. ASSUME AInv, AccessNext, NEW r \in Requests, FindsYes(r)
        PROVE  founded[r] = Grounds
    <2>1. founded[r] \subseteq Grounds
      BY <1>1 DEF AInv, AccessTypeOK
    <2>2. req[r].pc = "decide" /\ Decision(r) \in Granting
      BY <1>1 DEF FindsYes, AInv, Founded
    <2> QED
      BY <1>1, <2>1, <2>2 DEF AInv, Founded, Grounds
  <1>2. ASSUME AInv, AccessNext, NEW r \in Requests, req[r].pc = "lookup", req'[r].pc = "idle"
        PROVE  now <= cache[HomeOf[r]][req[r].pair].until
    <2>1. req[r] \in Request /\ req \in [Requests -> Request]
      BY <1>2 DEF AInv, AccessTypeOK
    <2>2. RequestStep(r)
      <3>1. CASE LicenceStep
        BY <1>2, <3>1 DEF LicenceStep
      <3>2. ASSUME NEW q \in Requests, RequestStep(q)
            PROVE  RequestStep(r)
        BY <1>2, <3>2, RequestSteps DEF AInv
      <3>3. ASSUME NEW u \in Customers, SetBlocked(u)
            PROVE  RequestStep(r)
        BY <1>2, <3>3 DEF SetBlocked
      <3> QED
        BY <1>2, <3>1, <3>2, <3>3 DEF AccessNext
    <2>3. CASE Hit(r)
      BY <2>3 DEF Hit, Fresh
    <2>4. CASE Miss(r)
      <3>1. req'[r].pc = "customer"
        BY <2>1, <2>4 DEF Miss, Goes, Request
      <3> QED
        BY <1>2, <3>1
    <2>5. CASE ~ Hit(r) /\ ~ Miss(r)
      BY <1>2, <2>2, <2>5, NoRequestOK
         DEF RequestStep, Arrive, ReadCustomer, ReadLicence, Decide, ReadTrial, Reply, StartTrial,
             TrialDone
    <2> QED
      BY <2>3, <2>4, <2>5
  <1>3. ASSUME AInv, NEW r \in Requests, cache[HomeOf[r]][req[r].pair].reason \in Granting
        PROVE  cache[HomeOf[r]][req[r].pair].ground = Grounds
    <2>1. req[r].pair \in Pairs /\ HomeOf[r] \in Instances
      BY <1>3, AccessAssumption DEF AInv, AccessTypeOK, Request, Procs
    <2> QED
      BY <1>3, <2>1 DEF AInv, KeptFounded
  <1>4. AInv /\ [AccessNext]_allVars => [Sound]_allVars
    BY <1>1, <1>2, <1>3
  <1> QED
    BY <1>4, Invariant, PTL DEF AccessSpec, GrantIsFounded
===============================================================================
