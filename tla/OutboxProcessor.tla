-------------------------- MODULE OutboxProcessor --------------------------
(***************************************************************************)
(* What a worker does with a job (outbox-processor.ts).  A reservation     *)
(* sweep is one transaction.  A notification and a media cleanup are       *)
(* claimed in one transaction, performed without any lock, and finalized   *)
(* in another; meanwhile the lease may expire and a second handler may     *)
(* take the same event.                                                    *)
(***************************************************************************)
EXTENDS Outbox

\* The job that worker w handles is at the given stage and of the given kind.
At(w, stage, Kind) == handler[w].stage = stage /\ handler[w].event \in Kind

Close(e, status) == event' = [event EXCEPT ![e] = Closed(e, status)]

\* A transaction failed: the event is deferred by a transaction of its own.
Fails(w, stage, Kind, next) ==
    /\ At(w, stage, Kind)
    /\ Goto(w, next)
    /\ UNCHANGED <<ledger, queue, poller, faults>>

\* Mutant: an event that is already closed is retried.
DeferAny(w) ==
    /\ At(w, "defer", Events)
    /\ event' = [event EXCEPT ![handler[w].event] = Deferred(handler[w].event)]
    /\ Goto(w, "done")
    /\ UNCHANGED <<notif, tries, deleted, sweeps, queue, poller, faults>>
Defer(w) ==
    /\ At(w, "defer", Events)
    /\ ScheduleRetry(handler[w].event)
    /\ Goto(w, "done")
    /\ UNCHANGED <<notif, tries, deleted, sweeps, queue, poller, faults>>

\* A job for a closed event has nothing to do.
AlreadyClosed(w) ==
    /\ At(w, "start", Events)
    /\ Terminal(handler[w].event)
    /\ Goto(w, "done")
    /\ UNCHANGED <<ledger, queue, poller, faults>>

\* Starts on the job's open event.
Opens(w, Kind) == At(w, "start", Kind) /\ ~Terminal(handler[w].event)

-----------------------------------------------------------------------------
(* Reservation sweeps *)

\* processTransaction: the reservations and the event in one transaction.
ProcessSweep(w) ==
    LET e == handler[w].event
    IN  /\ Opens(w, Sweeps)
        /\ sweeps' = [sweeps EXCEPT ![e] = @ + 1]
        /\ Close(e, "PROCESSED")
        /\ Goto(w, "done")
        /\ UNCHANGED <<notif, tries, deleted, queue, poller, faults>>

-----------------------------------------------------------------------------
(* Media cleanup *)

ClaimMediaDeletion(w) ==
    LET e == handler[w].event
    IN  /\ Opens(w, Cleanups)
        /\ event' = [event EXCEPT ![e] = Leased(e, "PROCESSING", w)]
        /\ handler' = [handler EXCEPT ![w] = Handler(e, "delete", 0, Objects)]
        /\ UNCHANGED <<notif, tries, deleted, sweeps, queue, poller, faults>>

\* One object after the other; one that is already gone counts as deleted.
DeleteObject(w, x) ==
    LET h == handler[w]
    IN  /\ At(w, "delete", Cleanups)
        /\ x \in h.left
        /\ deleted' = [deleted EXCEPT ![h.event] = @ \cup {x}]
        /\ handler' = [handler EXCEPT ![w] = Handler(h.event, "delete", 0, h.left \ {x})]
        /\ UNCHANGED <<event, notif, tries, sweeps, queue, poller, faults>>

\* Mutant: the first failure ends the loop as if it were done.
SomeDeleted(w) == At(w, "delete", Cleanups)
AllDeleted(w) == At(w, "delete", Cleanups) /\ handler[w].left = {}

\* The event is closed even if it was dead-lettered meanwhile.
CompleteMediaDeletion(w) ==
    /\ AllDeleted(w)
    /\ Close(handler[w].event, "PROCESSED")
    /\ Goto(w, "done")
    /\ UNCHANGED <<notif, tries, deleted, sweeps, queue, poller, faults>>

-----------------------------------------------------------------------------
(* Notifications *)

\* Mutant: attempts left over from another handler stay open.
LeftAlone(ts) == ts
\* The lease of an attempt left over from another handler is presumed expired.
Superseded(ts) == [i \in DOMAIN ts |-> IF ts[i] = "PROCESSING" THEN "FAILED" ELSE ts[i]]

\* An open event has an undecided notification (ProcessedMeansDone), so the
\* branch of claimNotification that settles the event from an outcome recorded
\* without it never runs.
Undecided(w) ==
    /\ Opens(w, Notifications)
    /\ notif[handler[w].event] \in {"QUEUED", "PROCESSING", "FAILED"}

\* The provider of the channel is disabled in this worker's configuration.
SkipDisabled(w) ==
    LET e == handler[w].event
    IN  /\ Undecided(w) /\ w \in Muted
        /\ tries' = [tries EXCEPT ![e] = Append(Superseded(tries[e]), "CANCELLED")]
        /\ notif' = [notif EXCEPT ![e] = "CANCELLED"]
        /\ Close(e, "PROCESSED")
        /\ Goto(w, "done")
        /\ UNCHANGED <<deleted, sweeps, queue, poller, faults>>

ClaimNotification(w) ==
    LET e == handler[w].event
    IN  /\ Undecided(w) /\ w \notin Muted
        /\ tries' = [tries EXCEPT ![e] = Append(Superseded(tries[e]), "PROCESSING")]
        /\ notif' = [notif EXCEPT ![e] = "PROCESSING"]
        /\ event' = [event EXCEPT ![e] = Leased(e, "PROCESSING", w)]
        /\ handler' = [handler EXCEPT ![w] = Handler(e, "send", Len(tries[e]) + 1, {})]
        /\ UNCHANGED <<deleted, sweeps, queue, poller, faults>>

\* The provider accepts the message, or the call fails or times out.
Send(w) ==
    /\ At(w, "send", Notifications)
    /\ Goto(w, "sent") \/ Goto(w, "failed")
    /\ UNCHANGED <<ledger, queue, poller, faults>>

Try(w) == tries[handler[w].event][handler[w].try]
SetTry(w, status) ==
    tries' = [tries EXCEPT ![handler[w].event] =
                [tries[handler[w].event] EXCEPT ![handler[w].try] = status]]

\* finalizeNotificationSuccess; the caller may see it fail after it committed.
RecordDelivery(w) ==
    LET e == handler[w].event
    IN  /\ At(w, "sent", Notifications)
        /\ \/ notif[e] \in {"DELIVERED", "CANCELLED"} /\ UNCHANGED notif
           \/ /\ notif[e] \notin {"DELIVERED", "CANCELLED"} /\ Try(w) = "PROCESSING"
              /\ notif' = [notif EXCEPT ![e] = "DELIVERED"]
        /\ SetTry(w, "DELIVERED")
        /\ Close(e, "PROCESSED")
        /\ Goto(w, "done") \/ Goto(w, "failed")
        /\ UNCHANGED <<deleted, sweeps, queue, poller, faults>>

Decided(e) == Terminal(e) \/ notif[e] \in {"DELIVERED", "CANCELLED"}

\* finalizeNotificationFailure when the outcome is decided: the attempt fails.
RecordLateFailure(w) ==
    LET e == handler[w].event
    IN  /\ At(w, "failed", Notifications)
        /\ Decided(e)
        /\ SetTry(w, "FAILED")
        /\ IF notif[e] = "DELIVERED" THEN Close(e, "PROCESSED") ELSE UNCHANGED event
        /\ Goto(w, "done")
        /\ UNCHANGED <<notif, deleted, sweeps, queue, poller, faults>>

\* finalizeNotificationFailure otherwise: attempt, notification and event are
\* deferred or given up together.
RecordFailure(w) ==
    LET e == handler[w].event
        dead == Exhausted(e)
    IN  /\ At(w, "failed", Notifications)
        /\ ~Decided(e) /\ Try(w) = "PROCESSING"
        /\ SetTry(w, IF dead THEN "DEAD_LETTER" ELSE "FAILED")
        /\ notif' = [notif EXCEPT ![e] = IF dead THEN "DEAD_LETTER" ELSE "FAILED"]
        /\ event' = [event EXCEPT ![e] = Deferred(e)]
        /\ Goto(w, "done")
        /\ UNCHANGED <<deleted, sweeps, queue, poller, faults>>

-----------------------------------------------------------------------------

\* A transaction or an outside call fails, or refuses because its attempt was
\* superseded; a deferral that fails leaves the event to its lease.
HandlerFails(w) ==
    \/ Fails(w, "start", Events, "defer")
    \/ Fails(w, "delete", Cleanups, "defer")
    \/ Fails(w, "sent", Notifications, "failed")
    \/ Fails(w, "failed", Notifications, "defer")
    \/ Fails(w, "defer", Events, "done")

=============================================================================
