------------------------------- MODULE Outbox -------------------------------
(***************************************************************************)
(* The durable outbox: OutboxEvent rows written with the business change,  *)
(* polled under leases and published to BullMQ by any number of workers,   *)
(* handled, retried with a backoff and finally processed or dead-lettered  *)
(* (apps/worker/src).                                                      *)
(*                                                                         *)
(* Time is left out.  A lease is held until it expires, which it may do at *)
(* any moment after it was granted, however slow or dead its holder is; a  *)
(* backoff is over some time after it began.  Every transaction locks the  *)
(* rows of its event before it reads them and is one step; provider and    *)
(* storage calls lie between transactions.                                 *)
(***************************************************************************)
EXTENDS Integers, Sequences, FiniteSets, FiniteSetsExt

CONSTANTS
    Workers,       \* worker processes, each with one poller and one handler
    Notifications, \* notification.dispatch.requested events
    Cleanups,      \* media.object.delete.requested events
    Sweeps,        \* inventory.reservations.expire.requested events
    Objects,       \* the stored objects of one media cleanup
    Muted,         \* workers configured with the channel's provider disabled
    MaxAttempts,   \* OUTBOX_MAX_ATTEMPTS
    BatchSize,     \* OUTBOX_BATCH_SIZE
    MaxEvents,     \* bound on the events written
    MaxFaults,     \* bound on crashes, stalls and losses of jobs
    None           \* SQL NULL

Events == Notifications \cup Cleanups \cup Sweeps

ASSUME OutboxAssumption ==
    /\ MaxAttempts \in Nat \ {0} /\ BatchSize \in Nat \ {0}
    /\ MaxEvents \in Nat /\ MaxFaults \in Nat
    /\ None \notin Workers \cup Events
ASSUME KindsAssumption ==
    /\ Notifications \cap (Cleanups \cup Sweeps) = {}
    /\ Cleanups \cap Sweeps = {}

VARIABLES
    event,    \* OutboxEvent
    notif,    \* Notification.status
    tries,    \* NotificationDeliveryAttempt.status by attemptNumber
    deleted,  \* objects gone from the media store
    sweeps,   \* how often a sweep's reservations were expired
    job,      \* the BullMQ job of each event
    holder,   \* the worker that holds the lock of an active job
    poller,   \* OutboxPublisher.pollOnce: the events it claimed and has left
    handler,  \* OutboxProcessor.process
    faults    \* faults so far

ledger == <<event, notif, tries, deleted, sweeps>>
queue == <<job, holder>>
vars == <<ledger, queue, poller, handler, faults>>

-----------------------------------------------------------------------------
(* Rows *)

\* The columns that steer an OutboxEvent.  due says that availableAt has come.
Row(status, attemptCount, leaseOwner, lease, due) ==
    [status |-> status, attemptCount |-> attemptCount, leaseOwner |-> leaseOwner,
     lease |-> lease, due |-> due]

Closed(e, status) == Row(status, event[e].attemptCount, None, "none", event[e].due)
\* Mutant: the lease is granted without an expiry.
LeaseUnset(e, status, w) == Row(status, event[e].attemptCount, w, "none", event[e].due)
Leased(e, status, w) == Row(status, event[e].attemptCount, w, "held", event[e].due)

Terminal(e) == event[e].status \in {"PROCESSED", "DEAD_LETTER"}
Exhausted(e) == event[e].attemptCount >= MaxAttempts

\* scheduleRetry, and the event's part of a failed notification: back off, or
\* give up after the last attempt.  The lease owner is not asked for.
Deferred(e) ==
    IF Exhausted(e) THEN Closed(e, "DEAD_LETTER")
                    ELSE Row("RETRY", event[e].attemptCount, None, "none", FALSE)
ScheduleRetry(e) ==
    event' = IF Terminal(e) THEN event ELSE [event EXCEPT ![e] = Deferred(e)]

NoPoll == [todo |-> {}, current |-> None]
Handler(e, stage, try, left) == [event |-> e, stage |-> stage, try |-> try, left |-> left]
NoJob == Handler(None, "idle", 0, {})

-----------------------------------------------------------------------------
(* Sources *)

\* The event is created with its notification, deleted image or time bucket;
\* creating it again (upsert, legacy bridge) leaves the existing row alone.
Enqueue(e) ==
    /\ event[e].status = "NONE"
    /\ Cardinality({f \in Events : event[f].status # "NONE"}) < MaxEvents
    /\ \E due \in BOOLEAN : event' = [event EXCEPT ![e] = Row("PENDING", 0, None, "none", due)]
    /\ notif' = IF e \in Notifications THEN [notif EXCEPT ![e] = "QUEUED"] ELSE notif
    /\ UNCHANGED <<tries, deleted, sweeps, queue, poller, handler, faults>>

-----------------------------------------------------------------------------
(* Time *)

BecomeDue(e) ==
    /\ event[e].status \in {"PENDING", "RETRY"} /\ ~event[e].due
    /\ event' = [event EXCEPT ![e] = Row(event[e].status, event[e].attemptCount, None, "none", TRUE)]
    /\ UNCHANGED <<notif, tries, deleted, sweeps, queue, poller, handler, faults>>

ExpireLease(e) ==
    /\ event[e].lease = "held"
    /\ event' = [event EXCEPT ![e] =
          Row(event[e].status, event[e].attemptCount, event[e].leaseOwner, "expired", event[e].due)]
    /\ UNCHANGED <<notif, tries, deleted, sweeps, queue, poller, handler, faults>>

-----------------------------------------------------------------------------
(* Publication *)

\* Unfinished events out of attempts, whoever holds their lease.
Spent == {e \in Events : event[e].status \notin {"NONE", "PROCESSED", "DEAD_LETTER"} /\ Exhausted(e)}

\* Mutant: expired leases are not recovered.
ClaimableFresh ==
    {e \in Events : ~Exhausted(e) /\ event[e].status \in {"PENDING", "RETRY"} /\ event[e].due}
\* Due events, and events whose lease ran out.
Claimable ==
    {e \in Events :
        /\ ~Exhausted(e)
        /\ \/ event[e].status \in {"PENDING", "RETRY"} /\ event[e].due
           \/ event[e].status \in {"LEASED", "PUBLISHED", "PROCESSING"} /\ event[e].lease = "expired"}

\* claimAvailable: bury what is spent, lease a batch of what is available.
Claim(w) ==
    /\ poller[w] = NoPoll
    /\ Spent \cup Claimable # {}
    /\ \E S \in kSubset(Min({BatchSize, Cardinality(Claimable)}), Claimable) :
          /\ event' = [e \in Events |->
                IF e \in Spent THEN Closed(e, "DEAD_LETTER")
                ELSE IF e \in S THEN Row("LEASED", event[e].attemptCount + 1, w, "held", event[e].due)
                ELSE event[e]]
          /\ poller' = [poller EXCEPT ![w] = [todo |-> S, current |-> None]]
    /\ UNCHANGED <<notif, tries, deleted, sweeps, queue, handler, faults>>

\* queue.add under the deterministic job id: a no-op while that job exists.
AddJob(w, e) ==
    /\ e \in poller[w].todo /\ poller[w].current = None
    /\ job' = IF job[e] = "absent" THEN [job EXCEPT ![e] = "waiting"] ELSE job
    /\ poller' = [poller EXCEPT ![w] = [todo |-> poller[w].todo \ {e}, current |-> e]]
    /\ UNCHANGED <<ledger, holder, handler, faults>>

\* Only the lease this worker still owns is extended.
StillLeased(e, w) == event[e].status = "LEASED" /\ event[e].leaseOwner = w
MarkPublished(w) ==
    LET e == poller[w].current
    IN  /\ e # None
        /\ event' = IF StillLeased(e, w) THEN [event EXCEPT ![e] = Leased(e, "PUBLISHED", w)] ELSE event
        /\ poller' = [poller EXCEPT ![w] = [todo |-> poller[w].todo, current |-> None]]
        /\ UNCHANGED <<notif, tries, deleted, sweeps, queue, handler, faults>>

\* Redis or the database fails, before or after the job was added.
PublishFails(w, e) ==
    /\ \/ e = poller[w].current
       \/ e \in poller[w].todo /\ poller[w].current = None
    /\ ScheduleRetry(e)
    /\ poller' = [poller EXCEPT ![w] = [todo |-> poller[w].todo \ {e}, current |-> None]]
    /\ UNCHANGED <<notif, tries, deleted, sweeps, queue, handler, faults>>

-----------------------------------------------------------------------------
(* The queue *)

Take(w, e) ==
    /\ job[e] = "waiting" /\ handler[w] = NoJob
    /\ job' = [job EXCEPT ![e] = "active"]
    /\ holder' = [holder EXCEPT ![e] = w]
    /\ handler' = [handler EXCEPT ![w] = Handler(e, "start", 0, {})]
    /\ UNCHANGED <<ledger, poller, faults>>

Goto(w, stage) ==
    handler' = [handler EXCEPT ![w] = Handler(handler[w].event, stage, handler[w].try, handler[w].left)]

\* The handler returned or threw: the job is removed if its lock is still held.
Finish(w) ==
    LET e == handler[w].event
    IN  /\ handler[w].stage = "done"
        /\ job' = IF holder[e] = w THEN [job EXCEPT ![e] = "absent"] ELSE job
        /\ holder' = IF holder[e] = w THEN [holder EXCEPT ![e] = None] ELSE holder
        /\ handler' = [handler EXCEPT ![w] = NoJob]
        /\ UNCHANGED <<ledger, poller, faults>>

Running(w, e) == handler[w].event = e /\ holder[e] = w

\* A job whose lock was not renewed goes back to the queue, or fails for good
\* when it stalled too often.  The handler, if alive, does not notice.
Stall(e, to) ==
    /\ job[e] = "active"
    /\ job' = [job EXCEPT ![e] = to]
    /\ holder' = [holder EXCEPT ![e] = None]
    /\ UNCHANGED <<ledger, poller, handler>>
\* Its worker is gone: the stalled check finds the job sooner or later.
StallAfterCrash(e) ==
    /\ \A w \in Workers : ~Running(w, e)
    /\ \E to \in {"waiting", "absent"} : Stall(e, to)
    /\ UNCHANGED faults

Fault == faults < MaxFaults /\ faults' = faults + 1

StallWhileRunning(e) ==
    /\ Fault
    /\ \E w \in Workers : Running(w, e)
    /\ \E to \in {"waiting", "absent"} : Stall(e, to)

\* Redis loses the job: MySQL remains the durable authority.
LoseJob(e) ==
    /\ Fault
    /\ job[e] # "absent"
    /\ job' = [job EXCEPT ![e] = "absent"]
    /\ holder' = [holder EXCEPT ![e] = None]
    /\ UNCHANGED <<ledger, poller, handler>>

\* Not even the retry could be stored: the rest of the batch stays leased.
PollAborts(w) ==
    /\ Fault
    /\ poller[w] # NoPoll
    /\ poller' = [poller EXCEPT ![w] = NoPoll]
    /\ UNCHANGED <<ledger, queue, handler>>

Crash(w) ==
    /\ Fault
    /\ poller[w] # NoPoll \/ handler[w] # NoJob
    /\ poller' = [poller EXCEPT ![w] = NoPoll]
    /\ handler' = [handler EXCEPT ![w] = NoJob]
    /\ UNCHANGED <<ledger, queue>>

=============================================================================
