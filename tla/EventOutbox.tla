---------------------------- MODULE EventOutbox -----------------------------
(***************************************************************************)
(* How an internal event reaches the satellite system of its product:      *)
(* InternalEventsService, the BullMQ queue it fills and the hourly job     *)
(* that looks for events that were never delivered.                        *)
(*                                                                         *)
(* dispatch inserts a row and then adds a job, in two awaits.  The job's   *)
(* id is the event's id: adding a job whose id the queue still knows, be   *)
(* it waiting, running or kept after it failed, does nothing.  A worker    *)
(* posts the event and then records the answer, again in two awaits.       *)
(***************************************************************************)
EXTENDS Integers, FiniteSets, Sequences

CONSTANTS
  Events,            \* the rows internal_events may come to hold
  Senders,           \* queue workers
  DispatchAttempts,  \* 5 in the code: attempts of a job added by dispatch
  RetryAttempts,     \* 3: attempts of a job added by the hourly job
  MaxTries,          \* 10: retry_count at which the hourly job gives an event up
  Limit,             \* 50: events the hourly job takes at once
  KeepFailed,        \* 100: failed jobs the queue keeps
  MaxErrors          \* bound: processes that die, awaits that reject

ASSUME OutboxAssumption ==
  /\ Events # {}
  /\ {DispatchAttempts, RetryAttempts, MaxTries, Limit} \subseteq Nat \ {0}
  /\ {KeepFailed, MaxErrors} \subseteq Nat

VARIABLES
  url,       \* does the product have a webhook_url
  event,     \* event[e]: row e of internal_events
  adding,    \* events that were inserted and whose job dispatch is about to add
  job,       \* job[e]: the state of the job whose id is e
  failed,    \* the failed jobs the queue keeps, oldest first
  sending,   \* sending[w]: what worker w is doing
  listed,    \* events the hourly job is still to enqueue
  received,  \* events the satellite has received
  errors     \* processes that died, awaits that rejected

outboxVars == <<url, event, adding, job, failed, sending, listed, received, errors>>

\* tries is retry_count, tried says whether last_attempt_at is set, and recent
\* whether that was less than an hour ago.
Event == [saved: BOOLEAN, delivered: BOOLEAN, tries: Nat, tried: BOOLEAN, recent: BOOLEAN]
NoEvent == [saved |-> FALSE, delivered |-> FALSE, tries |-> 0,
            tried |-> FALSE, recent |-> FALSE]

QueuedJob == [state: {"none", "waiting", "active", "failed"}, left: Nat]
NotQueued == [state |-> "none", left |-> 0]

Idle == [pc |-> "free", event |-> CHOOSE e \in Events : TRUE]

OutboxTypeOK ==
  /\ url \in BOOLEAN
  /\ event \in [Events -> Event]
  /\ adding \subseteq Events
  /\ job \in [Events -> QueuedJob]
  /\ failed \in Seq(Events) /\ Len(failed) <= KeepFailed
  /\ sending \in [Senders -> [pc: {"free", "load", "skip", "post", "record", "miss"},
                              event: Events]]
  /\ listed \subseteq Events
  /\ received \subseteq Events
  /\ errors \in Nat

OutboxInit ==
  /\ url \in BOOLEAN
  /\ event = [e \in Events |-> NoEvent]
  /\ adding = {}
  /\ job = [e \in Events |-> NotQueued]
  /\ failed = <<>>
  /\ sending = [w \in Senders |-> Idle]
  /\ listed = {}
  /\ received = {}
  /\ errors = 0

-----------------------------------------------------------------------------
(* dispatch.                                                               *)

\* A bug for the run to catch: the job id is left out.
AddedAnyway(e, n) == [job EXCEPT ![e] = [state |-> "waiting", left |-> n]]

\* queue.add with a job id: nothing happens while the queue knows that id.
Added(e, n) == IF job[e].state = "none"
               THEN [job EXCEPT ![e] = [state |-> "waiting", left |-> n]]
               ELSE job

Save(e) ==
  /\ ~ event[e].saved
  /\ event' = [event EXCEPT ![e].saved = TRUE]
  /\ adding' = adding \cup {e}
  /\ UNCHANGED <<url, job, failed, sending, listed, received, errors>>

AddJob(e) ==
  /\ e \in adding
  /\ job' = Added(e, DispatchAttempts)
  /\ adding' = adding \ {e}
  /\ UNCHANGED <<url, event, failed, sending, listed, received, errors>>

\* The process dies, or Redis is away: the row has no job.
AddJobFails(e) ==
  /\ e \in adding
  /\ errors < MaxErrors
  /\ errors' = errors + 1
  /\ adding' = adding \ {e}
  /\ UNCHANGED <<url, event, job, failed, sending, listed, received>>

-----------------------------------------------------------------------------
(* deliver, run by a worker.                                               *)

Turns(w, pc) == sending' = [sending EXCEPT ![w].pc = pc]

TakeEvent(w, e) ==
  /\ sending[w].pc = "free"
  /\ job[e].state = "waiting"
  /\ job' = [job EXCEPT ![e].state = "active"]
  /\ sending' = [sending EXCEPT ![w] = [pc |-> "load", event |-> e]]
  /\ UNCHANGED <<url, event, adding, failed, listed, received, errors>>

\* A finished job is removed, and its id with it.
Finishes(w) ==
  /\ job' = [job EXCEPT ![sending[w].event] = NotQueued]
  /\ sending' = [sending EXCEPT ![w] = Idle]

\* A bug for the run to catch: deliver has no early return for what is delivered.
RouteAnyway(e) == IF url THEN "post" ELSE "skip"

\* Where the row sends the worker that has read it.
Route(e) == IF event[e].delivered THEN "free" ELSE IF url THEN "post" ELSE "skip"

LoadEvent(w) ==
  LET route == Route(sending[w].event) IN
  /\ sending[w].pc = "load"
  /\ \/ route = "free" /\ Finishes(w)
     \/ route # "free" /\ Turns(w, route) /\ UNCHANGED job
  /\ UNCHANGED <<url, event, adding, failed, listed, received, errors>>

\* A product without a webhook_url: the event counts as delivered.
Skip(w) ==
  /\ sending[w].pc = "skip"
  /\ event' = [event EXCEPT ![sending[w].event].delivered = TRUE]
  /\ Finishes(w)
  /\ UNCHANGED <<url, adding, failed, listed, received, errors>>

\* The POST: accepted, refused, or accepted with the answer lost.
Post(w) ==
  /\ sending[w].pc = "post"
  /\ \/ /\ received' = received \cup {sending[w].event}
        /\ Turns(w, "record") \/ Turns(w, "miss")
     \/ Turns(w, "miss") /\ UNCHANGED received
  /\ UNCHANGED <<url, event, adding, job, failed, listed, errors>>

\* A bug for the run to catch: an attempt delivers, whatever the answer.
CountedDelivered(row, delivered) ==
  [row EXCEPT !.delivered = TRUE, !.tries = @ + 1, !.tried = TRUE, !.recent = TRUE]

\* Every attempt is counted and dated; only an accepted one delivers.
Counted(row, delivered) ==
  [row EXCEPT !.delivered = row.delivered \/ delivered, !.tries = row.tries + 1,
              !.tried = TRUE, !.recent = TRUE]

Record(w) ==
  /\ sending[w].pc = "record"
  /\ event' = [event EXCEPT ![sending[w].event] = Counted(@, TRUE)]
  /\ Finishes(w)
  /\ UNCHANGED <<url, adding, failed, listed, received, errors>>

\* The UPDATE after the POST is inside the try: when it rejects, the catch
\* block records a failed attempt.
RecordFails(w) ==
  /\ sending[w].pc = "record"
  /\ errors < MaxErrors
  /\ errors' = errors + 1
  /\ Turns(w, "miss")
  /\ UNCHANGED <<url, event, adding, job, failed, listed, received>>

\* removeOnFail: the queue keeps the last failed jobs.
TooMany(kept) == Len(kept) > KeepFailed

\* deliver throws: the job loses an attempt.  Of too many failed jobs the queue
\* forgets the oldest, id and all.
Throws(w) ==
  LET e == sending[w].event
      left == job[e].left - 1
      kept == Append(failed, e)
  IN
  /\ sending' = [sending EXCEPT ![w] = Idle]
  /\ \/ /\ left > 0
        /\ job' = [job EXCEPT ![e] = [state |-> "waiting", left |-> left]]
        /\ UNCHANGED failed
     \/ /\ left = 0
        /\ ~ TooMany(kept)
        /\ job' = [job EXCEPT ![e] = [state |-> "failed", left |-> 0]]
        /\ failed' = kept
     \/ /\ left = 0
        /\ TooMany(kept)
        /\ job' = [[job EXCEPT ![e] = [state |-> "failed", left |-> 0]]
                    EXCEPT ![Head(kept)] = NotQueued]
        /\ failed' = Tail(kept)

\* The catch block.
Miss(w) ==
  /\ sending[w].pc = "miss"
  /\ event' = [event EXCEPT ![sending[w].event] = Counted(@, FALSE)]
  /\ Throws(w)
  /\ UNCHANGED <<url, adding, listed, received, errors>>

\* An await outside the try rejects: the attempt is lost and nobody counts it.
DeliverRejects(w) ==
  /\ sending[w].pc \in {"load", "skip", "miss"}
  /\ errors < MaxErrors
  /\ errors' = errors + 1
  /\ Throws(w)
  /\ UNCHANGED <<url, event, adding, listed, received>>

\* The process dies: BullMQ finds the job stalled and puts it back (once per
\* job, which is what MaxErrors allows in the runs).
SenderDies(w) ==
  /\ sending[w].pc # "free"
  /\ errors < MaxErrors
  /\ errors' = errors + 1
  /\ job' = [job EXCEPT ![sending[w].event].state = "waiting"]
  /\ sending' = [sending EXCEPT ![w] = Idle]
  /\ UNCHANGED <<url, event, adding, failed, listed, received>>

-----------------------------------------------------------------------------
(* retryFailedInternalEvents, every hour.                                  *)

\* A bug for the run to catch: NULL < NOW() - INTERVAL '1 hour' is not true.
DueIfTried == {e \in Events : /\ event[e].saved /\ ~ event[e].delivered
                              /\ event[e].tries < MaxTries
                              /\ event[e].tried /\ ~ event[e].recent}

Due == {e \in Events : /\ event[e].saved /\ ~ event[e].delivered
                       /\ event[e].tries < MaxTries
                       /\ ~ event[e].tried \/ ~ event[e].recent}

\* An hour goes by without another attempt.
AnHourPasses ==
  /\ event' = [e \in Events |-> [event[e] EXCEPT !.recent = FALSE]]
  /\ UNCHANGED <<url, adding, job, failed, sending, listed, received, errors>>

\* The SELECT does not say which events LIMIT takes when there are more.
List(E) ==
  /\ listed = {}
  /\ E # {} /\ E \subseteq Due
  /\ Cardinality(E) <= Limit
  /\ E = Due \/ Cardinality(E) = Limit
  /\ listed' = E
  /\ UNCHANGED <<url, event, adding, job, failed, sending, received, errors>>

Requeue(e) ==
  /\ e \in listed
  /\ job' = Added(e, RetryAttempts)
  /\ listed' = listed \ {e}
  /\ UNCHANGED <<url, event, adding, failed, sending, received, errors>>

\* queue.add rejects: the rest of the list is left for the next hour.
RequeueFails ==
  /\ listed # {}
  /\ errors < MaxErrors
  /\ errors' = errors + 1
  /\ listed' = {}
  /\ UNCHANGED <<url, event, adding, job, failed, sending, received>>

-----------------------------------------------------------------------------

Deliver(w) ==
  \/ \E e \in Events : TakeEvent(w, e)
  \/ LoadEvent(w) \/ Skip(w) \/ Post(w) \/ Record(w) \/ Miss(w)

Hourly == (\E E \in SUBSET Events : List(E)) \/ \E e \in Events : Requeue(e)

OutboxNext ==
  \/ \E e \in Events : Save(e) \/ AddJob(e) \/ AddJobFails(e)
  \/ \E w \in Senders : Deliver(w) \/ RecordFails(w) \/ DeliverRejects(w) \/ SenderDies(w)
  \/ Hourly \/ RequeueFails
  \/ AnHourPasses

OutboxSpec == OutboxInit /\ [][OutboxNext]_outboxVars

\* dispatch goes on to add the job it has a row for, workers work, hours pass
\* and cron starts the hourly job.  The satellite may refuse every POST.
OutboxFairSpec ==
  /\ OutboxSpec
  /\ \A e \in Events : WF_outboxVars(AddJob(e))
  /\ \A w \in Senders : WF_outboxVars(Deliver(w))
  /\ WF_outboxVars(Hourly)
  /\ WF_outboxVars(AnHourPasses)

-----------------------------------------------------------------------------

SavedEvents     == {e \in Events : event[e].saved}
DeliveredEvents == {e \in Events : event[e].delivered}

DL == INSTANCE Delivery WITH saved <- SavedEvents, delivered <- DeliveredEvents

\* An event is marked as delivered only if the satellite has it, or there is
\* no satellite to have it.
DeliveredIsReceived == \A e \in Events : event[e].delivered /\ url => e \in received

\* Step by step: only what was saved is received and delivered, only what was received
\* is delivered, and a late failure of another attempt, an hour that passes or a
\* worker that dies takes back none of it.
ImplementsDelivery == DL!Spec

\* An event that is marked as delivered is not posted again, although the
\* hourly job works from an old list and jobs of dispatch are still around: one
\* job at a time and the early return of deliver see to that together.
DeliveredIsSilent ==
  [][\A w \in Senders :
       sending[w].pc = "post" /\ sending'[w].pc \in {"record", "miss"}
         => ~ event[sending[w].event].delivered]_outboxVars

\* No saved event is forgotten, even when its dispatch died before the job was
\* added: it is delivered, or all attempts of a job were used up.
UsedUp(e) == job[e].state = "failed" \/ event[e].tries >= DispatchAttempts
SavedIsTried == \A e \in Events : event[e].saved ~> event[e].delivered \/ UsedUp(e)

=============================================================================
