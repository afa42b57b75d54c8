---------------------------- MODULE WebhookInbox ----------------------------
(***************************************************************************)
(* How a gateway's notice reaches the handler of its event:                *)
(* WebhooksController.receive, WebhooksIngestService.ingest, the queue it  *)
(* fills and WebhookProcessorService.process.                              *)
(*                                                                         *)
(* A gateway repeats a notice until it is answered, and at times after     *)
(* that.  Several requests may carry the same notice at once.  ingest      *)
(* looks the event's key up, inserts a row and adds a job, in three        *)
(* awaits; the job has no id of its own.  process loads the row, runs the  *)
(* handler and marks the row, in three awaits too.                         *)
(***************************************************************************)
EXTENDS Integers, FiniteSets

CONSTANTS
  Notices,      \* what gateways have to say
  KeyOf,        \* gateway_name and external_event_id of each notice
  Requests,     \* HTTP requests served at once
  Workers,      \* queue workers
  Attempts,     \* 5 in the code: attempts of a job
  MaxSent,      \* bound: requests that carry the same notice
  MaxFailures   \* bound: processes that die, awaits that reject

Keys == {KeyOf[n] : n \in Notices}

ASSUME InboxAssumption ==
  /\ Notices # {} /\ Requests # {}
  /\ DOMAIN KeyOf = Notices
  /\ Attempts \in Nat \ {0}
  /\ {MaxSent, MaxFailures} \subseteq Nat

VARIABLES
  sent,      \* sent[n]: requests that carried n
  request,   \* request[q]: the progress of request q
  acked,     \* notices a request answered with success
  row,       \* row[k]: the row of webhook_events for key k
  jobs,      \* the queue: jobs in it or with a worker
  work,      \* work[w]: what worker w is doing
  ran,       \* ran[k]: times the handler ran to its end for row k
  orphans,   \* keys whose row was inserted but whose job was not (history)
  failures   \* processes that died, awaits that rejected

inboxVars == <<sent, request, acked, row, jobs, work, ran, orphans, failures>>

Nobody == [pc |-> "idle", notice |-> CHOOSE n \in Notices : TRUE]
NoJob  == [key |-> CHOOSE k \in Keys : TRUE, by |-> CHOOSE q \in Requests : TRUE,
           left |-> 0, stalled |-> FALSE]
Free   == [pc |-> "free", job |-> NoJob]

\* holds is the payload that was saved: the notice of the request that did it.
\* retry_count goes up with error_message: tries.
Row   == [saved: BOOLEAN, holds: SUBSET Notices, processed: BOOLEAN, tries: Nat]
NoRow == [saved |-> FALSE, holds |-> {}, processed |-> FALSE, tries |-> 0]

\* by tells apart the jobs that two requests add for the same row.
Job == [key: Keys, by: Requests, left: 0 .. Attempts, stalled: BOOLEAN]

InboxTypeOK ==
  /\ sent \in [Notices -> 0 .. MaxSent]
  /\ request \in [Requests -> [pc: {"idle", "find", "create", "enqueue"}, notice: Notices]]
  /\ acked \subseteq Notices
  /\ row \in [Keys -> Row]
  /\ jobs \subseteq Job
  /\ work \in [Workers -> [pc: {"free", "load", "handle", "mark", "error"}, job: Job]]
  /\ ran \in [Keys -> Nat]
  /\ orphans \subseteq Keys
  /\ failures \in Nat

InboxInit ==
  /\ sent = [n \in Notices |-> 0]
  /\ request = [q \in Requests |-> Nobody]
  /\ acked = {}
  /\ row = [k \in Keys |-> NoRow]
  /\ jobs = {}
  /\ work = [w \in Workers |-> Free]
  /\ ran = [k \in Keys |-> 0]
  /\ orphans = {}
  /\ failures = 0

-----------------------------------------------------------------------------
(* The request.                                                            *)

KeyAt(q) == KeyOf[request[q].notice]

Goes(q, pc) == request' = [request EXCEPT ![q].pc = pc]

\* The gateway sends n, for the first time or again.
Receive(q, n) ==
  /\ request[q].pc = "idle"
  /\ sent[n] < MaxSent
  /\ sent' = [sent EXCEPT ![n] = @ + 1]
  /\ request' = [request EXCEPT ![q] = [pc |-> "find", notice |-> n]]
  /\ UNCHANGED <<acked, row, jobs, work, ran, orphans, failures>>

\* A known key is answered as a duplicate, and that is all.
Find(q) ==
  /\ request[q].pc = "find"
  /\ \/ /\ row[KeyAt(q)].saved
        /\ acked' = acked \cup {request[q].notice}
        /\ Goes(q, "idle")
     \/ /\ ~ row[KeyAt(q)].saved
        /\ Goes(q, "create")
        /\ UNCHANGED acked
  /\ UNCHANGED <<sent, row, jobs, work, ran, orphans, failures>>

\* A bug for the run to catch: no such key.
UniqueMissing(k) == FALSE

\* uq_webhook_events_idempotency.
UniqueRefuses(k) == row[k].saved

\* The INSERT throws when another request has been faster: an error for the
\* gateway, which sends the notice again.
Create(q) ==
  LET k == KeyAt(q) IN
  /\ request[q].pc = "create"
  /\ \/ /\ UniqueRefuses(k)
        /\ Goes(q, "idle")
        /\ UNCHANGED row
     \/ /\ ~ UniqueRefuses(k)
        /\ row' = [row EXCEPT ![k].saved = TRUE, ![k].holds = @ \cup {request[q].notice}]
        /\ Goes(q, "enqueue")
  /\ UNCHANGED <<sent, acked, jobs, work, ran, orphans, failures>>

Enqueue(q) ==
  /\ request[q].pc = "enqueue"
  /\ jobs' = jobs \cup {[key |-> KeyAt(q), by |-> q, left |-> Attempts,
                       stalled |-> FALSE]}
  /\ acked' = acked \cup {request[q].notice}
  /\ Goes(q, "idle")
  /\ UNCHANGED <<sent, row, work, ran, orphans, failures>>

\* An await rejects or the process dies: the gateway gets no success.
RequestFails(q) ==
  /\ request[q].pc # "idle"
  /\ failures < MaxFailures
  /\ failures' = failures + 1
  /\ orphans' = IF request[q].pc = "enqueue" THEN orphans \cup {KeyAt(q)} ELSE orphans
  /\ Goes(q, "idle")
  /\ UNCHANGED <<sent, acked, row, jobs, work, ran>>

-----------------------------------------------------------------------------
(* The worker.                                                             *)

Take(w, j) ==
  /\ work[w].pc = "free"
  /\ j.left > 0
  /\ \A v \in Workers : work[v].pc # "free" => work[v].job # j
  /\ work' = [work EXCEPT ![w] = [pc |-> "load", job |-> j]]
  /\ UNCHANGED <<sent, request, acked, row, jobs, ran, orphans, failures>>

\* The job is removed, and the worker waits for the next.
Completes(w) ==
  /\ jobs' = jobs \ {work[w].job}
  /\ work' = [work EXCEPT ![w] = Free]

\* process returns early for an event that is processed.
Load(w) ==
  /\ work[w].pc = "load"
  /\ \/ row[work[w].job.key].processed /\ Completes(w)
     \/ /\ ~ row[work[w].job.key].processed
        /\ work' = [work EXCEPT ![w].pc = "handle"]
        /\ UNCHANGED jobs
  /\ UNCHANGED <<sent, request, acked, row, ran, orphans, failures>>

\* dispatch: Settlement models what the handlers do.
Handle(w) ==
  /\ work[w].pc = "handle"
  /\ ran' = [ran EXCEPT ![work[w].job.key] = @ + 1]
  /\ work' = [work EXCEPT ![w].pc = "mark"]
  /\ UNCHANGED <<sent, request, acked, row, jobs, orphans, failures>>

\* The handler throws.
HandleFails(w) ==
  /\ work[w].pc = "handle"
  /\ failures < MaxFailures
  /\ failures' = failures + 1
  /\ work' = [work EXCEPT ![w].pc = "error"]
  /\ UNCHANGED <<sent, request, acked, row, jobs, ran, orphans>>

MarkProcessed(w) ==
  /\ work[w].pc = "mark"
  /\ row' = [row EXCEPT ![work[w].job.key].processed = TRUE]
  /\ Completes(w)
  /\ UNCHANGED <<sent, request, acked, ran, orphans, failures>>

\* markProcessed is inside the try: when it rejects, the event has failed.
MarkFails(w) ==
  /\ work[w].pc = "mark"
  /\ failures < MaxFailures
  /\ failures' = failures + 1
  /\ work' = [work EXCEPT ![w].pc = "error"]
  /\ UNCHANGED <<sent, request, acked, row, jobs, ran, orphans>>

\* A bug for the run to catch: an error ends the job.
GivenUp(j) == [j EXCEPT !.left = 0]

\* The job has one attempt less.
Retried(j) == [j EXCEPT !.left = @ - 1]

\* markFailed, and the error goes on to BullMQ.  A job without attempts left is
\* kept (removeOnFail is false) and never runs again.
MarkFailed(w) ==
  LET j == work[w].job IN
  /\ work[w].pc = "error"
  /\ row' = [row EXCEPT ![j.key].tries = @ + 1]
  /\ jobs' = (jobs \ {j}) \cup {Retried(j)}
  /\ work' = [work EXCEPT ![w] = Free]
  /\ UNCHANGED <<sent, request, acked, ran, orphans, failures>>

\* findById or markFailed rejects: the attempt is lost and the row does not say so.
Rejects(w) ==
  LET j == work[w].job IN
  /\ work[w].pc \in {"load", "error"}
  /\ failures < MaxFailures
  /\ failures' = failures + 1
  /\ jobs' = (jobs \ {j}) \cup {Retried(j)}
  /\ work' = [work EXCEPT ![w] = Free]
  /\ UNCHANGED <<sent, request, acked, row, ran, orphans>>

\* The process dies: BullMQ finds the job stalled and puts it back.  Bound: no
\* job stalls twice, which would end it.
Die(w) ==
  LET j == work[w].job IN
  /\ work[w].pc # "free"
  /\ ~ j.stalled
  /\ failures < MaxFailures
  /\ failures' = failures + 1
  /\ jobs' = (jobs \ {j}) \cup {[j EXCEPT !.stalled = TRUE]}
  /\ work' = [work EXCEPT ![w] = Free]
  /\ UNCHANGED <<sent, request, acked, row, ran, orphans>>

-----------------------------------------------------------------------------

Serve(q) == Find(q) \/ Create(q) \/ Enqueue(q)

Work(w) ==
  \/ \E j \in jobs : Take(w, j)
  \/ Load(w) \/ Handle(w) \/ MarkProcessed(w) \/ MarkFailed(w)

InboxNext ==
  \/ \E q \in Requests, n \in Notices : Receive(q, n)
  \/ \E q \in Requests : Serve(q) \/ RequestFails(q)
  \/ \E w \in Workers : Work(w) \/ HandleFails(w) \/ MarkFails(w) \/ Rejects(w) \/ Die(w)

InboxSpec == InboxInit /\ [][InboxNext]_inboxVars

\* A request that has begun is served, and workers work.  The gateway is not
\* obliged to send anything, nor to send it again.
InboxFairSpec ==
  /\ InboxSpec
  /\ \A q \in Requests : WF_inboxVars(Serve(q))
  /\ \A w \in Workers : WF_inboxVars(Work(w))

-----------------------------------------------------------------------------

\* A handler runs to its end once per event, and again only for something that failed:
\* there is no second job for a repeated notice, however many requests carry it at
\* once.  The look-up alone does not see to that, the unique key does.
HandledOnce == \A k \in Keys : ran[k] <= 1 + failures

\* What was answered with success is handled, though attempts fail, unless the
\* request that saved it died before it could add the job.
AckedIsHandled ==
  \A n \in Notices : n \in acked ~> row[KeyOf[n]].processed \/ KeyOf[n] \in orphans

=============================================================================
