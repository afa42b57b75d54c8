# Central de Pagamentos: specification and proofs

TLA+ models of the payments Hub in `src/packages/core` (a NestJS service over
PostgreSQL and BullMQ), model-checked with TLC and, their safety properties, proved with TLAPS.
The Hub sells products of several *satellite* systems: it opens charges at
payment gateways (Mercado Pago, Stripe, LivePix, Asaas), hears of payments by
webhooks, keeps the *licences* that say who may use what, and tells the
satellites what changed.

One fact shapes every model: **no operation runs in a database transaction.**
Each `await` on the database, the queue or a gateway is a step of its own, and
HTTP requests, queue workers and cron jobs interleave between these steps. So a
call is a record with a program counter (`pc`) and what it has read so far, and
a crash or a rejected promise leaves everything done so far in place. The same
holds of the administration panel (`src/packages/web`), whose tabs share one stored
token and whose pages are filled again by answers that come late.

## 1. Inventory

| Component | State | Operations | Hard behaviour | Model |
|---|---|---|---|---|
| Licences (`licenses/`) | `licenses`; unique index on (customer, product) of live rows | `emit`, `renew`, `suspend`, `expireTrial`, `reactivate`, `revoke` | look-up then insert; decisions on rows read earlier | `Licenses` |
| Licence expiry jobs (`licenses-expiry.scheduler`, `admin/scheduler.service`) | none, an advisory lock | hourly sweep, daily sweep | lists that are stale when worked through | `Licenses` |
| Settlement (`invoices/`) | `charges`, `payments`, `invoices` | `markPaid`, `markFailed`, `handleChargeback`, `markChargeExpired` | six awaits in a row, run by workers and jobs at once; events out of order; attribution by origin | `Settlement` |
| Payment sync (`payments/payments.service`, `payments-sync.scheduler`) | none, advisory locks, LivePix's cooldown | three minutely jobs | the safety net for webhooks that never come, with limits of its own for LivePix; session locks over a connection pool | `Settlement`, `AdvisoryLock` |
| Checkout (`payments/checkout.service`) | `charges` | checkout at four gateways, recurring session, refund, cancel | charge at the gateway before the row; repeated clicks | `Checkout`, `Subscriptions`; `Settlement` (the charge it leaves) |
| Scheduler (`admin/scheduler.service`) | none | pix-expiry, overdue-retry, retry-internal-events, license-expiry | updates behind the handlers' backs | with what they touch |
| Webhook inbox (`webhooks/webhooks.service`) | `webhook_events`, queue `webhook-processing` | `receive`, `ingest`, `process` | repeated and concurrent notices, crashes, attempts | `WebhookInbox` |
| Event outbox (`webhooks/internal-events.*`) | `internal_events`, queue `internal-events` | `dispatch`, `deliver`, hourly retry | row and job are two awaits; job ids the queue remembers | `EventOutbox` |
| Subscriptions (`subscriptions/`) | `subscriptions` | create, activate, markOverdue, cancel, changePlan, linkExternal, activateByExternal | Stripe's events in any order and tried again; activation and licence in two steps; a cancellation in three; two rows of one customer and product | `Subscriptions`, `Contracts` |
| Access (`access/`, `shared/cache`) | cache of answers, 60 s, one per process | validate, resolveAccess, getAccessStatus, getEntitlements | four decisions on the same row; stale answers; a trial started by a read | `Access` |
| Customers (`customers/`, `access/external-customers`) | `customers`; unique index on the e-mail | upsert, resolve, create, update, document of a checkout | look-up then insert, and again when refused | `Customers` |
| Orders (`orders/`) | `orders` | create (three statements), markPaid, cancel | an order without an invoice | `Checkout`, `Settlement` |
| Gateway clients (`payments/gateways/`) | LivePix: credentials, token, method, cooldown in one object | the calls of the HTTP APIs | requests that share a client whose credentials change | `LivePixClient`; what the gateways do is part of `Checkout`, `Settlement`, `Subscriptions` |
| Settings (`settings/`, the panel's page) | table `settings`, a form per tab | load, save key by key, register Stripe's webhook | a form that is filled again; a secret that is told once | `GatewaySettings` |
| Session (`admin/auth.controller`, `admin-init.service`, `admin-jwt.guard`, `AuthContext`, `api.ts`) | `admins`, `localStorage`, a copy per tab | login, change of password, logout, every call | tabs that share a token | `AdminSession` |
| Plans, products, integrations, admin reports, audit, health, the other pages | CRUD, read-only or a client | | none that a model checker reaches | no |

How they interact: a gateway's notice is a row and a job (inbox); a worker runs
the handler (settlement), which activates a subscription or an order, which
calls `LicensesService.emit`; every change calls `InternalEventsService.dispatch`
(outbox) and drops a cache entry (access). The minutely sync calls the same
handlers as the workers, one instance at a time (locks). Cron jobs update licences,
charges and events directly. A satellite's request for access reads the licence, and
may start a trial, which is `emit` again. An administrator's settings feed the
gateway clients at every call.

What makes each correct: one live licence per customer and product, grace periods
honoured, overdue licences suspended (licences); a licence only for what a gateway
confirmed, and for money that came a licence, each paid charge recorded (settlement); one
external subscription billed per subscription, none for a cancelled one, and what is paid
credited (subscriptions); every acknowledged notice handled, and again only after a
failure (inbox); every event delivered or tried to the end, and not delivered twice by our
own doing (outbox); access exactly for whom the licence and the day let in (access); one
customer per address (customers); nothing paid that the Hub cannot find, and nothing paid
twice by clicking twice (checkout); a client that uses its own token and keeps its pauses
(LivePix); one instance per job (locks); a panel that serves who has a session, keeps the
secrets it was given and does not lose what is typed (settings). `PROJECT.json` lists the
hazards with their lines.

## 2. Modules

| Module | What it is |
|---|---|
| `Licenses` | the licence service and its sweeps |
| `LicensesProofs` | theorems about `Licenses` |
| `Settlement` | charges, payments and one invoice, their handlers, workers, syncs and crons |
| `SettlementProofs` | theorems about `Settlement` |
| `Delivery` | abstract: saved, then received, then delivered, and nothing taken back |
| `EventOutbox` | `dispatch`, `deliver` and the hourly retry over a queue with job ids; implements `Delivery` |
| `WebhookInbox` | `ingest` and `process` |
| `Subscriptions` | a subscription that Stripe bills by itself, its events, checkouts and cancellation |
| `SubscriptionsProofs` | theorems about `Subscriptions` |
| `Contracts` | several subscriptions of one customer and product; composes with `Licenses` |
| `ContractsProofs` | theorems about `Contracts`, with those of `Licenses` |
| `Access` | the access decisions, the trial and the caches; composes with `Licenses` |
| `AccessProofs` | theorems about `Access` |
| `JobLock` | abstract: at most one instance at work per lock |
| `AdvisoryLock` | session locks over connection pools; implements `JobLock` |
| `RuntimeProofs` | theorems about what runs beside the requests: the locks and the outbox, their refinements among them, and the inbox |
| `Customers` | who stands for an address |
| `LivePixClient` | the LivePix client of a process |
| `Checkout` | the checkout of an order |
| `CheckoutProofs` | theorems about `Checkout`, `Customers` and `LivePixClient` |
| `AdminSession` | sessions of the panel, from the login to the guard |
| `GatewaySettings` | the page of the gateway settings and its service |
| `Panel` | both: pages that are open in tabs with sessions |
| `PanelProofs` | theorems about `Panel`, those of its sessions among them |
| `MC*` | the same with values for TLC; `*.cfg` are the instances |

Definitions that begin with "A bug for the run(s) to catch" are not part of a
model. They are broken variants of the definition after them, kept to see that
the properties notice.

### Licenses

`lic[i]` is a row of `licenses` (status, origin, `expires_at`, `grace_until`,
whether `suspended_at` is set), `call[c]` the progress of a request or a sweep.
A row's pair of customer and product is a constant (`PairOf`), as no UPDATE
changes it. `EmitFind`, `EmitInsert` and `RenewRead` are the awaits of `emit`;
`Begin` is the `findById` with which the other operations start, `Write` the
UPDATE with which all end, `Notify` the await of the dispatch. `Loaded` holds
the early returns, which decide by the row as read; `seen` keeps that row for
the two cases where the write depends on it. `IndexRefuses` is
`uq_licenses_active_per_product`. `Sweep`, `SweepPick` and `SweepNext` are
the two jobs; the hourly job's advisory lock is left out, since the daily job
takes none. `Fail` ends a call at any await. Days pass at any moment (`Tick`).
`Offers` is what the callers of `emit` ask for; an administrator's `graceDays` are any
number, a negative one too (`ManualGrace`, `licenses.controller.ts:19`).

### Settlement

One invoice, of a subscription or an order, and the charges a customer may start
for it. `charge[r]` has a status, the external id, the means of payment and
whether `next_retry_at` is set. Five means differ in what becomes of a payment: `pix`
and `asaas` (a code that expires, so that `pix-expiry` cancels the charge), `hosted` (a
Mercado Pago preference, whose payment gets an id of its own, so that the first event is
attributed by origin), `session` (Stripe) and `livepix`. `remote[p]` is what the gateway
thinks of payment `p`. A session of Stripe's may be `completed` before it is paid, by a
boleto, and be paid later or never (`lapsed`): the code takes its completion for the
payment.

`Find`, `UpdateCharge`, `CreatePayment`, `UpdateInvoice`, `Grant`, `Suspend` and
`Notify` are the awaits of the four handlers, `AfterCharge` says where each
goes. Workers get them from `Take`, with BullMQ's attempts in `jobs`; a webhook may be
lost (`Decides`). Each gateway but Asaas has a job that asks about pending charges:
`SyncList` is its SELECT, `SyncPick` the gateway's answer, `SyncKind` what the job makes
of it. LivePix's job does not begin while the client is limited, lists no charge
that is more than a day old, and asks once for the newest payments (`Received`): `limited`,
`aged` and `crowded` say when that leaves a payment out. `PixExpiry`, `RetryList` and
`RetryOne` are the crons. `Grant` is one step: what it calls is in `Licenses`.

Abstracted or left out: Mercado Pago and Stripe always answer their jobs (an error there is
caught and the charge stays pending, so it is asked about again); `markFailed`'s
branch for the last attempt (unreachable: all callers of `createCharge` say
attempt 1 of 3 and nothing increments it); the grace period in `suspend`
(`Suspend` may do nothing); which charges a job takes when there are more than a
`Batch`; the pauses between its questions.

### EventOutbox

`event[e]` is a row of `internal_events`, `job[e]` the job with that id, `failed`
the failed jobs the queue keeps. `Added` is `queue.add` with a `jobId`: it does
nothing while the queue knows the id. `Save` and `AddJob` are `dispatch`; `LoadEvent`,
`Skip`, `Post`, `Record`, `Miss` are `deliver`; `Throws` is what BullMQ does with a
rejected job; `Due`, `List` and `Requeue` are the hourly job. The POST may be
accepted with its answer lost. `SenderDies` and `DeliverRejects` may happen at every step.

`Delivery` says what all that is for, with three sets of events: those saved, those the
satellite has and those that count as delivered. `DL` maps the rows to it.

### WebhookInbox

`Receive` is a request with a notice, `Find`, `Create` and `Enqueue` the awaits of
`ingest`, `UniqueRefuses` the constraint of `webhook_events`; `Load`, `Handle`,
`MarkProcessed` and `MarkFailed` are `process`. `KeyOf` says which notices share a
key: `EventKeys` gives each its own, as for Stripe, `PaymentKeys` is Mercado
Pago's. `orphans` is a history variable, the rows whose request died before it
could add the job.

### Subscriptions

`sub` is one row of `subscriptions` (status, `external_subscription_id`,
`current_period_end`), `licence` the live licence it pays for, `remote[x]` the Stripe
subscription that checkout `x` becomes. `Completes`, `Renews`, `Declines` and `Ends` are
Stripe and the customer; what they say is a job with its attempts left, unless `ingest`
saved the event and did not get to queue it (`NeverQueued`). `TakeLinked`, `Replace`,
`Link` are `linkExternalSubscription`, `Activate` and `Emit` the two writes of `activate`,
which both the link and `invoice.paid` reach. `Take` starts the operations by external id
and throws (`Again`) while the external is not linked. `Cancel`, `CancelAtGateway`,
`CancelHere`, `Revoke` are the administrator's `cancel`, `Checkout` is
`createRecurringCheckout` with its test of the period (`InForce`).

`overlapped`, `loose`, `lost` and `cut` are history variables: a cancellation and a handler
were under way at once, the gateway refused to cancel a replaced external, an event was
never queued, an activation ended between its two writes. The code repairs none of these.
`markOverdue` and `cancelByExternal` are one step: their early return comes to writing
what is there, and they use nothing else of what they read.

Abstracted or left out: the gateways that do not bill by themselves. Stripe tells
of a paid session and a paid invoice at once and in no order. Time passes (`Tick`,
a billing cycle) only when the queue is empty: the five attempts of a job last
half a minute (`webhooks.service.ts:46`), the shortest cycle of a plan a day.

### Contracts

`sub[s]` is a row of `subscriptions` with its status and the end of the paid period,
`op[c]` the operation caller `c` is at. `Create` is the look-up of `create`, `Insert` its
INSERT; `Activate`, `MarkOverdue`, `ChangePlan` and `Cancel` are the `findById` and the
early returns, `Update` the UPDATE by id that follows. `Emit`, `FindLicence` and
`OnLicence` call the licence service, and `LicenceStep` is any step of `Licenses` a caller
or a sweeper takes there: the row that a payment, a change of plan and a cancellation meet
on is the customer's one live licence. On it meet as well the others who write to it:
`Issue` is an emission for an order, by an administrator or by a request for access,
`Administer` the administrator who suspends or reactivates, `Revoke` the one who revokes,
and `StartSweep` with `SweepOn` a run of an expiry job. `BreakOff` rejects an await
outside of the licence service, `Fail` of `Licenses` one inside. `held`, `loose`, `beside`
and `crossed` are history: who had a licence in hand when it was revoked, for whom
somebody else has emitted or revoked since the last payment, whether two creations
overlapped or a cancelled row came back, whether an activation crossed with another
operation on the licence or with a run of an expiry job.

### Access

`EXTENDS Licenses`: callers and sweepers work on `lic` as there, and `LicenceStep` adds
what their last await does to the cache of the process they run in (`HomeOf`). `Status`,
`Resolve`, `Validate` and `Entitled` are the four decisions on a row and the day. A
request (`req[r]`) looks up the cache (`Hit`, `Miss`), reads the customer and the licence,
decides (`Decide`), reads the trial and either answers, storing the answer (`Answer`), or
emits a trial (`StartTrial`), whose steps are those of `emit`. `Entry` is a cached answer;
`stale` records that its row has changed since, by a call that will drop it (`due`) or by
one that will not (`missed`). `founded[r]` collects what has been true since `r` arrived,
and the entry that `r` stores keeps it (`ground`). `SetBlocked` is the administrator's
block, which drops nothing.

Left out: the texts and features of an answer, and product look-ups that fail.

### AdvisoryLock and JobLock

`depth[l][k]` is how often the session of connection `k` holds lock `l`: PostgreSQL's
session locks are re-entrant and belong to a connection. `TryLock`, `Finish` and
`Unlock` are a run of a job; lock and unlock take any connection of the pool
(`PoolOf`). `Close` is a connection that the pool closes (idle, or broken), `Crash` a
process that dies. `JobLock` says what the jobs want of that: `workers[l]`, the
instances at work under a lock, is at most one unless the lock has been lost from
under a run. `JL` maps sessions and runs to it.

### Customers

`customer[i]` is a row's e-mail and document. `query[r]` is at one of five
operations; `FindByEmail`, `FindByDocument`, `TrySynthetic`, `Insert`, `FindAgain`, `FindById`,
`WriteDocument`, `WriteEmail` are their awaits. `Holders` is the unique index of
migration 008, `Refusal` what each does when it refuses. `told[e]` is history.
Synthetic documents (the hash of the address and the attempt) are a function
`Synthetic`; two addresses may share one.

### LivePixClient

`client`, `token`, `preferred` and `cooldown` are the fields of the one `LivePixGateway`
of a process, `setting` the two rows it is fed from, which `WriteSetting` writes one by
one. A request reads them (`ReadConfig`), hands them over (`Apply`), and calls (`Call`):
with a fresh token, or after `Issued`, `Denied` or `Unanswered` at the OAuth server.
`Send` is LivePix with its limits, of any length, and `Cooldowns` what the client makes of
an answer: the `Retry-After` up to 120 s (`Longest`), or the minute it guesses (`Guess`).
`Reply` is the response interceptor. `informed` records that the limit that lasts was told
in full. `late` records that token and method came for other credentials than the client
now holds.

### Checkout

One order, its `payments` at the gateways and the `charges` rows. `Create` is the three
statements of `orders.create`. A click goes from `Reuse` (LivePix) or `GatewayCharge`
over `FindInvoice` and `InsertCharge` to `Answer`, which hands out the payment's link
(`links`); `BreakOff` ends it anywhere. `Kept` is Mercado Pago's idempotency
key, made of the order's id. `Confirm` is `markPaid`, in one step here (`Settlement` has
the steps). `CancelCharge` and `Refund` change the payment and no row.

### AdminSession, GatewaySettings, Panel

`local` is `localStorage`, `tab[t]` what a tab shows, `wire[t]` the request it waits for. A
token says whether its administrator must change the password, and says so until it
expires. `Guard` is `AdminJwtGuard`, without the roles that some routes ask for besides; it
finds out whether a request is the change of password by a substring of the URL, which no
other request of the panel has.  `LoginSelect`, `LoginSign`, `ChangeSelect`,
`ChangeUpdate` are `AuthController`; `StartLook` and `StartInsert` create the default
administrator in each process. `Lands` is where a page sends its visitor.

`row` are the settings, `form[t]` what the page shows and what was typed, `ask[t]`
its request. `WriteActive` and `WriteKey` are the upserts of a save, `List`,
`CreateEndpoint` and `WriteSecret` the registration at Stripe, `Given` what an
answer puts into the form. `client` is the one Stripe client, which other requests
set as well (`UsedElsewhere`). An account may have an endpoint before the Hub makes one,
whose secret nobody is told (secret 0); `Made` are the others. `Anew` says when
react-hook-form takes what was fetched for new values, and with them throws away what was
typed. `muddled` and `overtaken` are history: registrations overlapped or broke
off or the key was changed; another page's save has changed the gateway under a page.

`Panel` opens the page in the tabs that are on it: each request passes the guard with
the token stored when it is sent, and leaving a page (`LeavePage`) loses its answer.

## 3. Runs

| Run | Checks | Instance | Distinct states |
|---|---|---|---|
| `Licenses_sweep` | `OnlyTrialsExpire`, `GraceHonoured`, `OverdueIsSwept` | 1 row, 1 caller, 1 sweeper, 4 days, 1 failure | 174 k |
| `Contracts` | `OneLiveLicence`, `ColumnsAgree`, `OneContract`, `TermKept`, `RevokedStays` | 2 subscriptions, 2 licence rows, 2 callers, 1 expiry job, 5 operations or runs, 2 days, 1 failure | 9.3 M |
| `Access` | `DecisionsAgree`, `StaleIsDropped`, `TrialOnce`, `GrantIsFounded` | 1 request, 1 caller, 1 sweeper, 2 processes, 2 licence rows, 2 days | 2.5 M |
| `AdvisoryLock` | `ImplementsJobLock`, `OnlyClosingLoses`, `LeakIsFreed` | 2 instances with 2 connections each, 4 runs, 2 locks | 3.6 k |
| `Settlement_recovery` | `PaymentRecorded`, `PaidIsConfirmed`, `ToldAfterGrant`, `DeliveredIsGranted`, `PendingIsNoticed`, `PaidGetsAccessUnlessCut` | 1 charge of any means or 2 hosted ones, 1 worker, 3 syncs, 1 cron, 2 attempts, 1 failure | 504 k |
| `Checkout` | `PaidIsKnown`, `SameLinkWithinWindow`, `PixPaidOnce` | 2 clicks, 4 gateways, 2 charges, 3 moments | 5.4 M |
| `Customers` | `SameAnswer`, `UpsertIsAnswered` | 2 requests, 3 rows, 2 addresses, 4 documents | 391 k |
| `LivePixClient` | `OwnTokenUnlessLate`, `LimitTurnsPaymentsAway` | 2 requests, 2 accounts, limits of 1 and 3 minutes (the longer one is cut, and guessed too short) | 7.2 M |
| `EventOutbox` | `ImplementsDelivery`, `DeliveredIsSilent`, `SavedIsTried` | 2 events, 2 workers, 1 kept job, 1 failure | 255 k |
| `WebhookInbox` | `HandledOnce`, `AckedIsHandled` | 2 notices sent twice, 2 requests, 2 workers, 2 failures | 463 k |
| `Subscriptions` | `NoLooseBilling`, `CanceledIsNotBilled`, `InForceIsLicensed`, `PaidIsCredited` | 2 checkouts, 1 worker, 1 administrator, 2 attempts, 2 cycles, 1 failure | 1.4 M |
| `Panel` | `HookVerifies`, `TypedIsKept`, `ServedInSession` | 2 tabs, 2 administrators, 2 processes, 2 logins, 2 accounts with or without an endpoint, 2 endpoints made, 7 gestures | 3.5 M |

Type invariants are proved (section 4) and not part of the runs.

Bounds, and why they are enough:

- `MaxNow`, `Terms`, `DefaultGrace`: a licence must live through its term, its grace
  period and a day after it. Terms of 0 days and a grace of 1 make that three
  days; longer ones add only states in which nothing new may happen.
- Two rows of one pair are the least that can conflict, and rows of different
  pairs never meet in the code.
- `MaxFailures` (`MaxErrors` in the outbox): one failure leaves one call half done, to be
  found by the others. Two failures in the inbox (with three attempts) reach a failed
  retry.
- `Attempts`, `DispatchAttempts`, `RetryAttempts`, `KeepFailed`, `Limit`, `Batch`,
  `MaxTries` are constants of the code (5, 5, 3, 100, 50, 20, 10) scaled down so that a
  run can reach them: with two events and one kept job the queue forgets a job.
- Settlement's run has one charge, by any of the five means, or two preferences of
  Mercado Pago's, whose events are attributed by their origin and so to either; the
  safety properties are proved for any number of charges. With two of all means, liveness
  takes more than a run's five minutes. Each job has one run at a time, as its lock
  has it; one job's work is never another's, so that `Syncs` names the three.
- Two checkouts are the least for which one external replaces another, two cycles
  the least for which one is renewed. One worker is what runs in production: one
  container (`docker-compose.prod.yml:42`) and BullMQ's default concurrency.
  With two workers `NoLooseBilling` does not hold: two links read that nothing is
  linked yet, and the first external stays loose.
- `Contracts` begins five operations or expiry jobs: enough to create, pay, cancel, create
  again and pay, or to let a trial become paid while a job works from its list. Its manual
  emission has a grace of -1 day, the one that the other runs do not have.
- `Access`: one request is enough for each property but `TrialOnce`, where the
  caller's commands come between; the theorem has any number of requests. `TTL` 0 is
  an answer that is kept until the end of the day.
- `AdvisoryLock`: two connections per instance are the least for which lock and
  unlock may meet different sessions; two runs per instance let a job overlap with
  another that shares its lock. `MaxDepth` 2 lets a session take a lock again.
- `Customers`: two addresses may be given the same synthetic document at the first
  attempt; three rows leave one for each address and one for a document.
- `Checkout`: two clicks are the least that overlap; `Window` 1 within three moments
  has rows within a window, at its end and beyond it.
- `Panel`: seven gestures are a login, a load, a typed key, a save, a registration
  and a logout or a second login meanwhile; choosing a gateway is not counted. Less does not
  reach all of the sequences the mutants need; more takes more than a run's five minutes.
- Deadlock is checked where somebody can always do something: the licence and lock jobs, access,
  customers, LivePix. It is off elsewhere: once every notice is sent, every event
  delivered and every bounded operation or gesture done nothing is left to do.

Symmetry (of callers, subscriptions, clicks, requesters, tabs) is used only in runs
that check no liveness.

### Fairness

`FairSpec` asks for what the runtime does by itself: an event loop that goes on
with what has been started, BullMQ workers that take waiting jobs, and cron jobs
that start again and again, each as weak fairness of one process. `AdvisoryLock` asks that
runs of jobs end (their batches are finite) and that the connections of a pool do
not live for ever, which is what frees a lock left behind. Nothing is
asked of customers, administrators, gateways or satellites: nobody has to call,
pay or answer. `PendingIsNoticed` and `PaidGetsAccessUnlessCut` suppose that LivePix does
not limit the client again and again for ever (`<>[] ~ limited`), which is nobody's to
schedule. Failures are bounded by `MaxFailures` and not fair.

### What the passing runs show

- **Licences and contracts.** The look-up of `emit` does not prevent two live licences,
  the index does (`OneLiveLicence`): without it TLC finds two. No interleaving tears
  a row's columns apart (`ColumnsAgree`), though renewals write back values read
  earlier. The sweeps, working from old lists, turn nothing but trials into expired
  (`OnlyTrialsExpire`), suspend nothing in its grace that has not been renewed
  between read and write (`GraceHonoured`), and get to every overdue licence
  (`OverdueIsSwept`). A customer has one contract per product (`OneContract`) and, while
  it is shown as paid, a licence for exactly the term that was paid last (`TermKept`), through
  changes of plan, cancellations, expiry jobs and suspensions. What was revoked is revived
  only by a write of somebody who had found it before, or by the administrator's
  suspend or reactivate (`RevokedStays`); no later event of a subscription does it. Each with
  the overlap it excuses.
- **Access.** The four decisions agree but over a grace period (`DecisionsAgree`). Who is
  let in had a licence for it, and was not blocked, at some moment since the request
  arrived; who is let in by the cache, at some moment of the request that stored the
  answer, which ended at most `TTL` ago (`GrantIsFounded`). It is not said that this
  licence was still there when the answer was stored, or is now. An answer that is out of
  date is about to be dropped, unless it is in another process's cache or was stored by an
  overtaken read (`StaleIsDropped`). Asking for access gives one trial (`TrialOnce`).
- **Locks.** The session locks implement one lock per job id (`ImplementsJobLock`), and
  only a connection that closes takes a lock from under a run (`OnlyClosingLoses`). An
  unlock that ran elsewhere leaves a lock behind, and it is freed in the end (`LeakIsFreed`).
- **Customers.** Everybody who asks for an address is told the same customer until
  it changes hands (`SameAnswer`); an upsert that loses its INSERT to another
  answers with the other's row (`UpsertIsAnswered`).
- **LivePix.** Token and method are the client's own, unless they came late
  (`OwnTokenUnlessLate`). While a limit lasts that LivePix told it of in full, no payment
  gets past its test, whatever shorter limits other answers tell
  (`LimitTurnsPaymentsAway`). Payments that are past the test already, and limits cut or
  guessed too short, are excused.
- **Checkout.** What is paid has a row (`PaidIsKnown`), LivePix's link is given out again
  (`SameLinkWithinWindow`), and Mercado Pago's Pix is paid once (`PixPaidOnce`).
- **Panel.** The secret that is kept is that of the endpoint the Hub made at Stripe
  (`HookVerifies`), what was typed and not saved outlives what the page fetches again,
  unless another page's save came between (`TypedIsKept`), and nobody is served with a
  token that somebody had logged out with, unless it was stored again (`ServedInSession`).
- **Settlement.** Whatever events are attributed to whatever charge, a charge is paid,
  and a licence granted, only for a payment that its gateway confirmed: approved it, or, of a
  session of Stripe's, said that it was completed (`PaidIsConfirmed`). A paid charge has its
  payment row, or a handler about to write it, or lost it to a rejected await
  (`PaymentRecorded`). A delivered approval ends in a licence, although attempts
  fail (`DeliveredIsGranted`), and the satellite hears of it afterwards
  (`ToldAfterGrant`). A lost webhook is noticed, but at Asaas (`PendingIsNoticed`), and who paid
  on a page of Stripe's or LivePix's gets access, unless an await rejected
  (`PaidGetsAccessUnlessCut`); at LivePix only within the day and the fifty payments its job
  looks at.
- **Outbox.** Delivered means received, and no retry, failure or dead worker takes
  back what has been delivered (`ImplementsDelivery`). What is delivered is not
  posted again by the hourly job (`DeliveredIsSilent`), and a saved event
  is delivered or its attempts are used up, even if `dispatch` died before the job
  was added (`SavedIsTried`).
- **Inbox.** One run of the handler per event, and at most one more for each failure, however
  often and at once it is sent (`HandledOnce`); acknowledged means handled in the end
  (`AckedIsHandled`), except for the row whose request died before `queue.add`.
- **Subscriptions.** Whoever pays in two checkouts is billed once: the external
  that is replaced is cancelled, unless the gateway refuses or the link was never queued
  (`NoLooseBilling`). A
  subscription shown as cancelled is not billed (`CanceledIsNotBilled`) and one shown
  as paid has its licence (`InForceIsLicensed`), unless a cancellation overlaps with a
  handler. What Stripe has collected is credited even if the invoice's attempts are
  used up before the link exists (`PaidIsCredited`), unless the invoice or the link was lost
  before the queue.

### Disagreements met that no run shows

Places where the code does not do what a comment, a document or a page of the
repository says of it, met while modelling. The properties excuse them where they
would otherwise not hold, and say so.

*Licences and subscriptions*

- `suspend` decides by a row it read (`licenses.service.ts:130`) and overtakes a
  renewal: a grace period just given is cut, despite "Respeita grace_until antes de
  suspender" (line 136).
- `invoice.payment_failed` of a declined card is tried again until the link exists and
  then sets a subscription to overdue that another card has paid since
  (`subscriptions.service.ts:129`): the recurring checkout is open again, despite
  "Já pago e dentro do período" (`subscriptions.controller.ts:152`).
- Cancelling one of two subscriptions at once revokes the licence they share; two exist when
  creations overlap or a payment or a refused card is heard of after the cancellation.
- `changePlan` writes back the expiry it read and sets `grace_until` to NULL: overlapping
  with a payment it takes back the paid term, and `findExpiredAfterGrace` never selects
  the licence again. Neither `create` nor `changePlan` looks at a plan's status.
- A revoked licence is revived by the administrator's `reactivate` and `suspend`, neither of
  which tests for it, and by a renewal or an expiry job that read it before, though
  `licenses.controller.ts:110` says "definitivamente".
- A paid licence that began as a trial keeps that origin: `expireTrial` takes it to expired
  when the job's list is older than the payment (`licenses.service.ts:173-184`), though the
  contract is shown as paid; and when its term is over the job for trials gives it no grace.
- A manual emission takes negative `graceDays` (`licenses.controller.ts:19`), whose grace
  period is over before the licence is.

*Settlement, webhooks and events*

- Webhook worker and sync both read a charge that is not paid and both insert a
  payment row (`invoices.service.ts:43`); the schema says "um por charge
  bem-sucedido" (`001_initial_schema.sql:311`).
- The sync marks a charge as paid first; when a later await rejects, no sync finds it
  again (`payments.repository.ts:160` lists pending ones only), and with the webhook lost
  who paid gets nothing, despite `payments-sync.scheduler.ts:48` and lines 80-83.
- The hourly job requeues a failed event under the id of the failed job the queue
  still keeps, which does nothing (`scheduler.service.ts:49`, "reprocessa
  internal_events falhos" in line 30).
- Mercado Pago's `payment.updated` has the key of its `payment.created` and is dropped as
  a duplicate (`webhooks.service.ts:272`), the fault that lines 367-372 describe as
  repaired for Stripe.
- A chargeback "Suspende a licença imediatamente" (`invoices.service.ts:202`), but
  `suspend` waits for the grace period; and Mercado Pago's chargebacks and refunds
  arrive as `payment.failed` (`webhooks.service.ts:386`), which suspends nothing.
- An acknowledged webhook can be lost between the insert and the job, despite
  "garante que não se perde" (`webhooks.service.ts:35`).
- `pix-expiry` cancels a charge that is paid at the gateway; if the webhook is
  lost too, no sync asks about it.
- The sync takes the newest twenty pending charges, so that older ones may starve. LivePix's
  lists none of more than a day (`payments.repository.ts:190`), asks for the newest fifty
  payments only (`payments.service.ts:376`) and waits while the client is limited: a LivePix
  payment with its webhook lost that is not among these stays pending for ever. No job
  asks Asaas. A sync by origin from the API is not among the safety nets either, as
  somebody has to call it.
- Asaas's own notices have names and fields that `receive` does not look for; the model
  has those that it does.

*Locks*

- The licence sweep and the LivePix sync default to the same lock id, 918273647
  (`licenses-expiry.scheduler.ts:29`, `payments-sync.scheduler.ts:93`, "Lock separado").
- A lock whose unlock runs on another pooled connection stays held, and the job is
  skipped until that connection closes; one that closes under a run lets a second
  instance work beside it ("evitar concorrência", `payments-sync.scheduler.ts:25`).
  `POST /payments/sync-pending` takes no lock.

*Access and customers*

- The sweep suspends at the end of the grace period, so that the branch of `resolve` and
  `status` for a suspended licence in its grace is practically never met: an expired licence
  in its grace is refused there and let in by `validate`, against
  `access.controller.ts:107-109`. `getEntitlements` looks at no date.
- A request that reads "no licence" and then finds a trial started meanwhile answers
  "trial_expired", which is cached for a minute. A resolve that overlaps with a payment
  may renew the paid licence to the length of a trial, without grace.
- `subscriptions.create`'s trial may be a second one, despite "Trial é concedido apenas
  uma vez" (`access.controller.ts:72`). `customers.block` drops no cached answer.
- `resolveAccess` falls back to the document, so that a new address with a known
  document gets another's customer, though migration 008 makes the e-mail the identity
  and documents may repeat; `access.controller.ts:73` and `customers.controller.ts:28` still
  describe the old rule. `resolve` and `create` do not handle the index's refusal.
- A synthetic document may collide with another address's, whose comment in
  `document.util.ts` says it never does; the upsert uses the first attempt without a look.

*Checkout and LivePix*

- The second month's Pix of a subscription has the idempotency key of the first and may
  be answered with its approved or cancelled payment.
- A charge is made for `plan.amount`, its invoice for `contractedAmount`; an order without a
  plan can never be checked out; orders that are paid or cancelled can. The last
  UPDATE of `orders.create` overwrites a cancellation, and of two rows for one payment
  the older stays pending.
- Stripe's completed session counts as paid even if unpaid (`stripe.gateway.ts:270-271`,
  `webhooks.service.ts:342-344`), so that a boleto that nobody pays gives a licence. A boleto at
  Mercado Pago makes a Pix; `gatewayRequiresPayerDocument` is not enforced for Stripe and
  LivePix; Asaas may be sent a synthetic document.
- LivePix: a token issued for old credentials is used for up to an hour after new ones
  were set, and the method it came by stays preferred, although the comment at
  `livepix.gateway.ts:131-134` says otherwise; only `createPayment` tests the cooldown,
  before the token is asked for, so that a payment that waits at the OAuth server is sent
  into a limit another answer told of meanwhile; a `Retry-After` above 120 s is cut; a 401
  from the API does not drop the token; requests that start together each ask for a token.

*Panel*

- After a change of password the token still says that it has to be changed: the guard
  answers 403 to every call until the next login, though the page goes on to the
  dashboard.
- A mistyped login (401), or one late 401, empties `localStorage` and ends the newer session
  of another tab; a tab goes on showing one administrator while it sends another's
  token, and a late change of password stores the wrong name.
- Every save sends the active gateway and the other plain fields the page was loaded with, so
  that a page that is out of date sets them back; what is typed while a save is under way is
  lost, and when another page has saved, a fetch after a registration or a reconnection
  empties typed fields (only focus is turned off, `page.tsx:157-158`).
- Stripe tells a secret only when the endpoint is made: of one that exists already the Hub
  never learns it and cannot verify its notices, though the answer says that it is
  registered (`stripe.gateway.ts:242-251`); a crash before the secret is saved
  loses it, overlapping registrations make two endpoints, and a new key keeps the old
  account's secret. `getMercadoPagoPublicKey` stores a key fetched with an old token over a
  newly saved one.

## 4. Proofs

For every value of the constants that the named assumptions allow, and for
`Spec`, without fairness:

| Theorem | Statement |
|---|---|
| `LicensesProofs!SpecTypeOK`, `SpecOneLiveLicence`, `SpecColumnsAgree`, `SpecOnlyTrialsExpire` | `Spec => []...` |
| `LicensesProofs!SpecGraceHonoured` | `Spec => GraceHonoured`, an action property |
| `SettlementProofs!SpecTypeOK`, `SpecPaidIsConfirmed`, `SpecPaymentRecorded`, `SpecToldAfterGrant` | `Spec => []...` |
| `SubscriptionsProofs!SpecTypeOK`, `SpecInForceIsLicensed` | `Spec => []...` |
| `SubscriptionsProofs!SpecNoLooseBilling`, `SpecCanceledIsNotBilled` | `Spec => []...`, assuming `OneWorker` and `AttemptsLast` |
| `AccessProofs!UsesLicences` | `AccessSpec => Spec`: what is proved of licences holds here |
| `AccessProofs!Typed`, `FourAgree`, `StaleGoes`, `OneTrial` | `AccessSpec => []...` |
| `AccessProofs!GrantsFounded` | `AccessSpec => GrantIsFounded`, an action property |
| `CheckoutProofs!Typed`, `PaidHasRow`, `SameLink`, `PixOnce` | `Spec => []...` |
| `CheckoutProofs!CustomerTypes`, `EverybodyIsToldTheSame` | `CustomersSpec => []...` |
| `CheckoutProofs!UpsertsAreAnswered` | `CustomersSpec => UpsertIsAnswered`, an action property |
| `CheckoutProofs!LivePixTypes`, `OwnToken` | `ClientSpec => []...` |
| `CheckoutProofs!PaymentsWaitOutLimits` | `ClientSpec => LimitTurnsPaymentsAway`, an action property |
| `RuntimeProofs!LocksImplement` | `Spec => JL!Spec`, a refinement |
| `RuntimeProofs!Typed`, `OneInstanceWorks` | `Spec => []...` |
| `RuntimeProofs!NothingElseLoses` | `Spec => OnlyClosingLoses`, an action property |
| `RuntimeProofs!InboxTypes`, `EventsHandledOnce` | `InboxSpec => []...` |
| `RuntimeProofs!OutboxDelivers` | `OutboxSpec => DL!Spec`, a refinement |
| `RuntimeProofs!OutboxTypes`, `DeliveredWasReceived` | `OutboxSpec => []...` |
| `RuntimeProofs!DeliveredStaysSilent` | `OutboxSpec => DeliveredIsSilent`, an action property |
| `ContractsProofs!ContractsTypes`, `ContractsOneLiveLicence`, `ContractsColumnsAgree`, `OneContractHolds`, `TermIsKept` | `ContractsSpec => []...` |
| `ContractsProofs!RevokedStaysRevoked` | `ContractsSpec => RevokedStays`, an action property |
| `PanelProofs!PanelHasSessions` | `Spec => SessionSpec`: the settings page changes nothing of the sessions |
| `PanelProofs!Typed`, `HooksVerify` | `Spec => []...` |
| `PanelProofs!OnlyOwnIsServed`, `TypedStays` | `Spec => ServedInSession`, `Spec => TypedIsKept`, action properties |

A proof module extends the module it is about; that one's `Spec` is meant. Where a
proof module covers several components they have no variable in common.

*Licenses.* `OneLiveLicence` is not inductive by itself: an INSERT adds a row whose
pair the index has checked, but two INSERTs could be for one and the same row.
`IInv` adds that calls insert into different rows (`InsertsApart`), that a row not yet
inserted is blank (`AbsentIsBlank`), and what each call relies on between its
steps (`CallOK`): its row exists or is still absent, its parameters have a
grace only with an expiry, a trial job's list holds only trials, and a suspension
about to be written was decided on a grace period that is over. Time only
moves forward, so the last one stays true; with it `GraceHonoured` follows for
every step. The lemmas follow the operators (`ReturnedOK`, `LoadedOK`,
`UpdatedOK`, `OffersOK`) and then the kinds of steps: those that change one
call (`CallStep`) and those that change one row (`RowStep`).

*Settlement.* `PaidIsConfirmed` needs to know, of every event that is queued
(`QueuedConfirmed`), held by a call (`CallsOK`, `HeldJobs`) or already told, that
the gateway confirmed its payment, and that a charge is paid only through
such an event (`PaidAccounted`). `PaymentRecorded` needs that a handler that saw a
paid charge was not the one to write its payment. One lemma per action shows
that the action keeps `IInv`; `OthersOK` carries what the other processes rely on.

*Subscriptions.* `InForceIsLicensed` needs `AccessInv`: an administrator and a handler
that are under way at once have overlapped, and who is about to revoke has cancelled the
row. `NoLooseBilling` and `CanceledIsNotBilled` need `LinkInv`, and with it one worker and
`MaxFailures < Attempts`, so that the job of a link is never given up (`LinkedRetried`); a
job that is never queued has not been tried yet, and is no checkout that is linked already
(`FreshLinks`). `LinkInv` says what an event implies at the gateway (`EventOK`), what a
handler and a cancellation rely on between their awaits (`WorkOK`, `AdminOK`) and replaces
`CanceledIsNotBilled` by `CanceledRelinks`: it is the link's own activation, not any, that
will make the row active again. What never gets undone at the gateway is collected in
`Grows`.

*Access.* The invariant `AInv` is that of the licence service (`IInv`), since each step
here is one of a licence operation or leaves the licences alone (`StepIsNext`), together
with the types, `StaleIsDropped`, what a request that has read something relies on
(`Founded`), what an entry of the cache that lets in was stored with (`KeptFounded`), and
a count of trials against requests that are past their look-up (`TrialsCounted`), from
which `TrialOnce` follows.

*Locks.* A run at work whose lock is backed by a session of its own instance excludes
the sessions of the others. The refinement takes each step of the sessions to one of
`JobLock`: a `TryLock` to `Enter`, an `Unlock` or its failure to `Leave`, `Close` to `Lose`, and
what frees a leaked lock to a stutter or `Recover`.

*Customers.* Rows are named apart (the index), and every address that has been told
is still told the row that holds it; a request remembers only rows that exist.

*LivePix.* The token is that of the client unless `late`; the cooldown is at least the
limit as long as the client has been informed, which `Minute` keeps since both count down.

*Checkout.* What is linked has a row; a click that has looked has not been overtaken
within its window by a row it does not know of, unless it overlapped; all of Mercado
Pago's payments for an order are one (`Kept`).

*Inbox.* `HandledOnce` needs to know where a key is (`InboxFlow`): with the request that saved
its row and has not added the job yet (`OneRequest`, `RequestAhead`), or in one job (`OneJob`)
with at most one worker (`WorkApart`). A handler's run that no failure accounts for is
in the hands of the worker about to mark it (`RunIsMarked`): to run again, that worker must
fail first.

*Outbox.* A failed job the queue keeps is there once and is failed (`KeptAreFailed`), so
that forgetting the oldest never takes away a job at work; then an event is with
one worker at a time (`BusyIsActive`, `DeliverersApart`), and what a worker read of the
row before its POST is still so after it (`DelivererKnows`). The refinement needs besides
that only saved events are queued or listed (`QueuedIsSaved`) and only those with
an address posted (`PostsReach`). `Save` is a step of the same name, a POST that gets through
`Receive`, `Record` and `Skip` are `Deliver`, all others stutter.

*Contracts.* Each step is one of the licence service or leaves the licences alone, so that
`IInv` of `LicensesProofs` holds here, and with it all that is proved of licences. `Frame` adds
what an operation and a run of an expiry job rely on (`Shape`), that a revocation noted who
had the licence in hand, but for the administrator (`SeenWithIt`), that no two rows are in
force unless creations overlapped (`Single`) and that nobody is at a licence beside a
payment, and no expiry job runs, unless one crossed (`Alone`). Where nothing of this
kind happened and no await failed, `Termly` follows the paid term on its way from the
UPDATE of the subscription to that of the licence (`TermComes`): the payment in between holds
that term (`PayingBy`), a change of plan holds the expiry that it is about to write
back (`PlannedBy`), and neither a trial, an immediate cancellation, an emission or a
revocation by others (`UnpaidBy`) nor what an expiry job takes for the end of a trial
(`SweptBy`) concerns anybody who pays.

*Panel.* Every step is one of the sessions or leaves them alone, and so for the settings.
A token that need not change its password belongs to somebody who has their own
(`OwnToken`), and a login's answer is a token nobody has seen, let alone logged out with
((`Fresh`). A page that nobody has overtaken shows the gateway that is stored, and so does
what it fetches (`Told`), which is why it takes no values anew. Undisturbed, one
registration at a time works on the account that is stored, makes an endpoint only where
there is none, and holds the secret of the one it made until that is stored (`Orderly`).

What is only model-checked: the liveness properties (`OverdueIsSwept`,
`DeliveredIsGranted`, `PendingIsNoticed`, `PaidGetsAccessUnlessCut`, `SavedIsTried`,
`AckedIsHandled`, `PaidIsCredited`, `LeakIsFreed`), as fairness and ENABLED are outside of what
TLAPS proves. Every other property of every run is a theorem.

## 5. Not modelled

- Plans and products, integrations and their API keys, the reports and the audit log of
  the admin API, health: single statements, or read-only.
- The other pages of the panel: lists, and forms that send one request.
- The payloads, signatures and amounts of the gateways; logging and texts.
- `markFailed`'s last-attempt branch, which no caller reaches; a sync of one origin from
  the API; `getMercadoPagoPublicKey`; the pauses of the sync; the masks of the settings, which
  no page keeps or sends back; the roles of administrators.
- Liveness with two charges, and the settlement composed with `Licenses`: too large for
  a run; `Grant` and `Confirm` are one step where another module has the steps.

## 6. Plan

1. An abstract queue that handles at least once what it has acknowledged, which
   `WebhookInbox` implements as `EventOutbox` does `Delivery`.
2. The right to access as a function of payments and days, which `Settlement` over
   `Licenses` implements.
