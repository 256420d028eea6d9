------------------------------- MODULE Worker -------------------------------
(***************************************************************************)
(* The worker processes over one database and one queue.                   *)
(***************************************************************************)
EXTENDS OutboxProcessor

Init ==
    /\ event = [e \in Events |-> Row("NONE", 0, None, "none", FALSE)]
    /\ notif = [e \in Notifications |-> "NONE"]
    /\ tries = [e \in Notifications |-> <<>>]
    /\ deleted = [e \in Cleanups |-> {}]
    /\ sweeps = [e \in Sweeps |-> 0]
    /\ job = [e \in Events |-> "absent"]
    /\ holder = [e \in Events |-> None]
    /\ poller = [w \in Workers |-> NoPoll]
    /\ handler = [w \in Workers |-> NoJob]
    /\ faults = 0

PollerStep(w) ==
    \/ Claim(w)
    \/ \E e \in Events : AddJob(w, e)
    \/ MarkPublished(w)
    \/ \E e \in Events : PublishFails(w, e)

HandlerStep(w) ==
    \/ \E e \in Events : Take(w, e)
    \/ AlreadyClosed(w)
    \/ ProcessSweep(w)
    \/ ClaimMediaDeletion(w)
    \/ \E x \in Objects : DeleteObject(w, x)
    \/ CompleteMediaDeletion(w)
    \/ SkipDisabled(w)
    \/ ClaimNotification(w)
    \/ Send(w)
    \/ RecordDelivery(w)
    \/ RecordLateFailure(w)
    \/ RecordFailure(w)
    \/ HandlerFails(w)
    \/ Defer(w)
    \/ Finish(w)

QueueStep(e) == StallAfterCrash(e) \/ StallWhileRunning(e) \/ LoseJob(e)

TimeStep(e) == BecomeDue(e) \/ ExpireLease(e)

Next ==
    \/ \E e \in Events : Enqueue(e)
    \/ \E e \in Events : TimeStep(e)
    \/ \E e \in Events : QueueStep(e)
    \/ \E w \in Workers : PollerStep(w)
    \/ \E w \in Workers : HandlerStep(w)
    \/ \E w \in Workers : Crash(w) \/ PollAborts(w)

Spec == Init /\ [][Next]_vars

\* Time passes, the stalled check runs, a live worker keeps polling and its
\* handler keeps going: every await in the two loops has a timeout.
FairSpec ==
    /\ Spec
    /\ \A e \in Events : WF_vars(TimeStep(e)) /\ WF_vars(StallAfterCrash(e))
    /\ \A w \in Workers : WF_vars(PollerStep(w)) /\ WF_vars(HandlerStep(w))

-----------------------------------------------------------------------------
(* Invariants *)

EventRow ==
    [status : {"NONE", "PENDING", "LEASED", "PUBLISHED", "PROCESSING", "RETRY", "PROCESSED",
               "DEAD_LETTER"},
     attemptCount : 0 .. MaxAttempts, leaseOwner : Workers \cup {None},
     lease : {"none", "held", "expired"}, due : BOOLEAN]

NotificationStatus == {"NONE", "QUEUED", "PROCESSING", "DELIVERED", "FAILED", "CANCELLED", "DEAD_LETTER"}

HandlerRecord ==
    [event : Events \cup {None},
     stage : {"idle", "start", "send", "sent", "failed", "delete", "defer", "done"},
     try : Nat, left : SUBSET Objects]

\* Rows, jobs and the state of every worker have their columns' types; an
\* event is never claimed more often than its attempts allow.
WorkerTypeOK ==
    /\ event \in [Events -> EventRow]
    /\ notif \in [Notifications -> NotificationStatus]
    /\ tries \in [Notifications -> Seq(NotificationStatus)]
    /\ deleted \in [Cleanups -> SUBSET Objects]
    /\ sweeps \in [Sweeps -> Nat]
    /\ job \in [Events -> {"absent", "waiting", "active"}]
    /\ holder \in [Events -> Workers \cup {None}]
    /\ poller \in [Workers -> [todo : SUBSET Events, current : Events \cup {None}]]
    /\ handler \in [Workers -> HandlerRecord]
    /\ faults \in 0 .. MaxFaults

\* However jobs are duplicated, lost or run late, an event is leased, by a
\* worker that is known, exactly while it is neither waiting for a poller nor
\* closed: an unfinished event can always be claimed or has a lease that will
\* expire, so none is stranded, and a closed one is held by nobody.
NothingStranded ==
    \A e \in Events :
        /\ event[e].lease # "none" <=> event[e].status \in {"LEASED", "PUBLISHED", "PROCESSING"}
        /\ event[e].lease # "none" <=> event[e].leaseOwner # None

\* However many handlers work on a notification, at most one of its delivery
\* attempts is open, it is the newest one, and the notification says so.
OneOpenAttempt ==
    \A n \in Notifications : \A i \in DOMAIN tries[n] :
        tries[n][i] = "PROCESSING" => i = Len(tries[n]) /\ notif[n] = "PROCESSING"

\* What pollers, jobs and handlers remember stays true while others run: the
\* events they are about were written, a handler's attempt exists, and the
\* objects it has ticked off are gone.
HandlersInformed ==
    /\ \A e \in Events :
          event[e].status = "NONE" =>
              /\ job[e] = "absent"
              /\ \A w \in Workers : e \notin poller[w].todo /\ poller[w].current # e /\ handler[w].event # e
              /\ e \in Notifications => notif[e] = "NONE" /\ tries[e] = <<>>
    /\ \A w \in Workers :
          LET h == handler[w]
          IN  /\ h.stage # "idle" => h.event \in Events
              /\ h.stage \in {"send", "sent", "failed"} =>
                    h.event \in Notifications /\ h.try \in DOMAIN tries[h.event]
              /\ h.stage = "delete" => h.event \in Cleanups /\ Objects \ h.left \subseteq deleted[h.event]

\* A processed event has done its work, once: the notification is delivered
\* or cancelled, every object is gone, the reservations were swept one time.
\* And no outcome outruns its event: a notification with one has no open event.
ProcessedMeansDone ==
    /\ \A n \in Notifications :
          /\ event[n].status = "PROCESSED" <=> notif[n] \in {"DELIVERED", "CANCELLED"}
          /\ notif[n] = "DEAD_LETTER" => event[n].status = "DEAD_LETTER"
    /\ \A c \in Cleanups : event[c].status = "PROCESSED" => deleted[c] = Objects
    /\ \A s \in Sweeps : sweeps[s] = (IF event[s].status = "PROCESSED" THEN 1 ELSE 0)

-----------------------------------------------------------------------------
(* Action properties *)

\* A late handler never reopens what another one closed: an outcome of a
\* notification and a processed event are final, and an event that was given
\* up only ever becomes processed.
OutcomesFinal ==
    [][/\ \A n \in Notifications :
             notif[n] \in {"DELIVERED", "CANCELLED", "DEAD_LETTER"} => notif'[n] = notif[n]
       /\ \A e \in Events :
             /\ event[e].status = "PROCESSED" => event'[e] = event[e]
             /\ event[e].status = "DEAD_LETTER" => event'[e].status \in {"DEAD_LETTER", "PROCESSED"}]_vars

-----------------------------------------------------------------------------
(* Liveness *)

\* Every event that was written is finished or given up, although workers
\* crash, jobs stall and Redis forgets.
EventsSettle ==
    \A e \in Events :
        event[e].status # "NONE" ~> event[e].status \in {"PROCESSED", "DEAD_LETTER"}

=============================================================================
