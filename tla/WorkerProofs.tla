---------------------------- MODULE WorkerProofs ----------------------------
(***************************************************************************)
(* The safety of the outbox, for any number of workers, events and faults. *)
(***************************************************************************)
EXTENDS Worker, SequenceTheorems, TLAPS

\* The inductive invariant.  That outcomes are final needs all of it: a
\* delivery is recorded over a dead letter unless no attempt of a dead
\* notification is open, and a sweep runs twice unless closed means swept.
WorkerInv ==
    /\ WorkerTypeOK
    /\ NothingStranded
    /\ OneOpenAttempt
    /\ HandlersInformed
    /\ ProcessedMeansDone

-----------------------------------------------------------------------------
(* Rows *)

\* The rows the operators build are rows of the table.
LEMMA RowTypes ==
    ASSUME WorkerTypeOK, NEW e \in Events, NEW w \in Workers
    PROVE  /\ \A s \in {"PROCESSED", "DEAD_LETTER"} : Closed(e, s) \in EventRow
           /\ \A s \in {"PUBLISHED", "PROCESSING"} : Leased(e, s, w) \in EventRow
           /\ Deferred(e) \in EventRow
BY OutboxAssumption DEF WorkerTypeOK, EventRow, Closed, Leased, Deferred, Row, Exhausted

\* Attempts left over from other handlers are failed, the others are kept.
LEMMA SupersededSeq ==
    ASSUME NEW ts \in Seq(NotificationStatus)
    PROVE  /\ Superseded(ts) \in Seq(NotificationStatus)
           /\ Len(Superseded(ts)) = Len(ts)
           /\ \A i \in 1 .. Len(ts) : Superseded(ts)[i] # "PROCESSING"
<1>1. Len(ts) \in Nat /\ DOMAIN ts = 1 .. Len(ts) /\ \A i \in 1 .. Len(ts) : ts[i] \in NotificationStatus
    BY LenProperties, ElementOfSeq
<1>2. Superseded(ts) \in [1 .. Len(ts) -> NotificationStatus]
    BY <1>1 DEF Superseded, NotificationStatus
<1>3. Superseded(ts) \in Seq(NotificationStatus)
    BY <1>1, <1>2, SeqDef
<1>4. Len(Superseded(ts)) = Len(ts)
    BY <1>1, <1>2, <1>3, LenProperties
<1> QED
    BY <1>1, <1>3, <1>4 DEF Superseded

\* A new attempt is the only one that may be open.
LEMMA NewAttempt ==
    ASSUME NEW ts \in Seq(NotificationStatus), NEW s \in NotificationStatus
    PROVE  LET us == Append(Superseded(ts), s)
           IN  /\ us \in Seq(NotificationStatus)
               /\ Len(us) = Len(ts) + 1 /\ DOMAIN us = 1 .. Len(ts) + 1 /\ Len(ts) \in Nat
               /\ us[Len(ts) + 1] = s
               /\ \A i \in 1 .. Len(ts) : us[i] # "PROCESSING"
<1>1. /\ Superseded(ts) \in Seq(NotificationStatus) /\ Len(Superseded(ts)) = Len(ts)
      /\ \A i \in 1 .. Len(ts) : Superseded(ts)[i] # "PROCESSING"
    BY SupersededSeq
<1>2. Len(ts) \in Nat
    BY LenProperties
<1> HIDE DEF Superseded
<1> QED
    BY <1>1, <1>2, AppendProperties, LenProperties

\* Recording a result changes that attempt alone.
LEMMA RecordedAttempt ==
    ASSUME NEW ts \in Seq(NotificationStatus), NEW i \in DOMAIN ts, NEW s \in NotificationStatus
    PROVE  LET us == [ts EXCEPT ![i] = s]
           IN  /\ us \in Seq(NotificationStatus)
               /\ Len(us) = Len(ts) /\ DOMAIN us = DOMAIN ts
               /\ us[i] = s
               /\ \A j \in DOMAIN ts : j # i => us[j] = ts[j]
BY LenProperties, ExceptSeq

-----------------------------------------------------------------------------
(* What a step leaves alone *)

\* Three conjuncts speak of the database alone.
LEMMA LedgerKept ==
    ASSUME WorkerInv, UNCHANGED ledger
    PROVE  NothingStranded' /\ OneOpenAttempt' /\ ProcessedMeansDone'
BY DEF WorkerInv, NothingStranded, OneOpenAttempt, ProcessedMeansDone, ledger

\* Going on to another stage, a handler keeps its event, attempt and objects,
\* and does not touch the other handlers.
LEMMA HandlerMoves ==
    ASSUME WorkerInv, NEW w \in Workers, NEW stage \in {"sent", "failed", "defer", "done"}, Goto(w, stage)
    PROVE  /\ handler' \in [Workers -> HandlerRecord]
           /\ handler'[w].stage = stage
           /\ \A v \in Workers :
                 /\ handler'[v].event = handler[v].event /\ handler'[v].try = handler[v].try
                 /\ v # w => handler'[v] = handler[v]
BY DEF WorkerInv, WorkerTypeOK, HandlerRecord, Goto, Handler

\* Handlers stay informed when rows, attempts and deleted objects only grow
\* and one of them goes on to a stage its event allows.
LEMMA StaysInformed ==
    ASSUME WorkerInv, NEW w \in Workers, NEW stage \in {"sent", "failed", "defer", "done"}, Goto(w, stage),
           handler[w].stage # "idle",
           stage \in {"sent", "failed"} => handler[w].stage \in {"send", "sent", "failed"},
           UNCHANGED <<queue, poller>>,
           \A e \in Events : event'[e].status = "NONE" => event[e].status = "NONE",
           \A n \in Notifications :
              /\ DOMAIN tries[n] \subseteq DOMAIN tries'[n]
              /\ event'[n].status = "NONE" => notif'[n] = notif[n] /\ tries'[n] = tries[n],
           \A c \in Cleanups : deleted[c] \subseteq deleted'[c]
    PROVE  HandlersInformed'
<1>1. /\ handler'[w].stage = stage
      /\ \A v \in Workers :
            /\ handler'[v].event = handler[v].event /\ handler'[v].try = handler[v].try
            /\ v # w => handler'[v] = handler[v]
    BY HandlerMoves
<1>2. ASSUME NEW e \in Events, event'[e].status = "NONE"
      PROVE  /\ job'[e] = "absent"
             /\ \A v \in Workers : e \notin poller'[v].todo /\ poller'[v].current # e /\ handler'[v].event # e
             /\ e \in Notifications => notif'[e] = "NONE" /\ tries'[e] = <<>>
    BY <1>1, <1>2 DEF WorkerInv, HandlersInformed, queue
<1>3. ASSUME NEW v \in Workers
      PROVE  /\ handler'[v].stage # "idle" => handler'[v].event \in Events
             /\ handler'[v].stage \in {"send", "sent", "failed"} =>
                   handler'[v].event \in Notifications /\ handler'[v].try \in DOMAIN tries'[handler'[v].event]
             /\ handler'[v].stage = "delete" =>
                   handler'[v].event \in Cleanups /\ Objects \ handler'[v].left \subseteq deleted'[handler'[v].event]
    <2>1. CASE v = w
        BY <1>1, <2>1 DEF WorkerInv, HandlersInformed
    <2>2. CASE v # w
        BY <1>1, <2>2 DEF WorkerInv, HandlersInformed
    <2> QED
        BY <2>1, <2>2
<1> QED
    BY <1>2, <1>3 DEF HandlersInformed

\* A step of a handler that only changes its stage.
LEMMA StageKeeps ==
    ASSUME WorkerInv, NEW w \in Workers, NEW stage \in {"sent", "failed", "defer", "done"}, Goto(w, stage),
           handler[w].stage # "idle",
           stage \in {"sent", "failed"} => handler[w].stage \in {"send", "sent", "failed"},
           UNCHANGED <<ledger, queue, poller, faults>>
    PROVE  WorkerInv'
<1>1. WorkerTypeOK'
    BY HandlerMoves DEF WorkerInv, WorkerTypeOK, ledger, queue
<1>2. HandlersInformed'
    BY StaysInformed DEF ledger
<1> QED
    BY <1>1, <1>2, LedgerKept DEF WorkerInv

-----------------------------------------------------------------------------
(* The poller *)

\* Burying and leasing: only unfinished events are touched.
LEMMA ClaimKeeps ==
    ASSUME WorkerInv, NEW w \in Workers, Claim(w)
    PROVE  WorkerInv'
<1>1. PICK S \in SUBSET Claimable :
          /\ event' = [e \in Events |->
                IF e \in Spent THEN Closed(e, "DEAD_LETTER")
                ELSE IF e \in S THEN Row("LEASED", event[e].attemptCount + 1, w, "held", event[e].due)
                ELSE event[e]]
          /\ poller' = [poller EXCEPT ![w] = [todo |-> S, current |-> None]]
    BY DEF Claim, kSubset
<1>2. /\ S \subseteq Events
      /\ \A e \in S : event[e].status \notin {"NONE", "PROCESSED", "DEAD_LETTER"} /\ ~Exhausted(e)
    BY <1>1 DEF Claimable
<1>3. UNCHANGED <<notif, tries, deleted, sweeps, queue, handler, faults>>
    BY DEF Claim
<1>4. WorkerTypeOK'
    <2>1. event' \in [Events -> EventRow]
        BY <1>1, <1>2, OutboxAssumption
            DEF WorkerInv, WorkerTypeOK, EventRow, Closed, Row, Exhausted
    <2> QED
        BY <1>1, <1>2, <1>3, <2>1 DEF WorkerInv, WorkerTypeOK, queue
<1>5. NothingStranded'
    BY <1>1, <1>2, OutboxAssumption
        DEF WorkerInv, WorkerTypeOK, EventRow, NothingStranded, Closed, Row
<1>6. OneOpenAttempt'
    BY <1>3 DEF WorkerInv, OneOpenAttempt
<1>7. HandlersInformed'
    <2>1. \A e \in Events : event'[e].status = "NONE" => event[e].status = "NONE" /\ e \notin S
        BY <1>1, <1>2 DEF Closed, Row
    <2>2. \A e \in Events, v \in Workers :
             /\ e \in poller'[v].todo => e \in poller[v].todo \/ e \in S
             /\ poller'[v].current = e => poller[v].current = e
        BY <1>1, OutboxAssumption DEF WorkerInv, WorkerTypeOK
    <2> QED
        BY <1>3, <2>1, <2>2 DEF WorkerInv, HandlersInformed, queue
<1>8. ProcessedMeansDone'
    BY <1>1, <1>2, <1>3 DEF WorkerInv, WorkerTypeOK, ProcessedMeansDone, Closed, Row, Events, Spent
<1> QED
    BY <1>4, <1>5, <1>6, <1>7, <1>8 DEF WorkerInv

\* The job exists from now on; the database is not touched.
LEMMA AddJobKeeps ==
    ASSUME WorkerInv, NEW w \in Workers, NEW e \in Events, AddJob(w, e)
    PROVE  WorkerInv'
<1>1. WorkerTypeOK'
    BY OutboxAssumption DEF WorkerInv, AddJob, WorkerTypeOK, ledger, queue
<1>2. HandlersInformed'
    BY OutboxAssumption DEF WorkerInv, AddJob, WorkerTypeOK, HandlersInformed, ledger, queue
<1>3. NothingStranded' /\ OneOpenAttempt' /\ ProcessedMeansDone'
    BY LedgerKept DEF AddJob
<1> QED
    BY <1>1, <1>2, <1>3 DEF WorkerInv

\* A lease that is still owned is extended; a lost one is left alone.
LEMMA MarkPublishedKeeps ==
    ASSUME WorkerInv, NEW w \in Workers, MarkPublished(w)
    PROVE  WorkerInv'
<1>1. WorkerTypeOK'
    BY OutboxAssumption
        DEF WorkerInv, MarkPublished, StillLeased, Leased, Row, WorkerTypeOK, EventRow, queue
<1>2. NothingStranded'
    BY OutboxAssumption
        DEF WorkerInv, MarkPublished, StillLeased, Leased, Row, WorkerTypeOK, EventRow,
            NothingStranded
<1>3. OneOpenAttempt'
    BY DEF WorkerInv, MarkPublished, OneOpenAttempt
<1>4. HandlersInformed'
    BY OutboxAssumption, KindsAssumption
        DEF WorkerInv, MarkPublished, StillLeased, Leased, Row, WorkerTypeOK, HandlersInformed,
            queue, Events
<1>5. ProcessedMeansDone'
    BY KindsAssumption
        DEF WorkerInv, MarkPublished, StillLeased, Leased, Row, WorkerTypeOK, ProcessedMeansDone,
            Events
<1> QED
    BY <1>1, <1>2, <1>3, <1>4, <1>5 DEF WorkerInv

\* Only an unfinished event is deferred.
LEMMA PublishFailsKeeps ==
    ASSUME WorkerInv, NEW w \in Workers, NEW e \in Events, PublishFails(w, e)
    PROVE  WorkerInv'
<1>1. WorkerTypeOK'
    BY OutboxAssumption
        DEF WorkerInv, PublishFails, ScheduleRetry, Terminal, Deferred, Exhausted, Closed, Row,
            WorkerTypeOK, EventRow, queue
<1>2. NothingStranded'
    BY OutboxAssumption
        DEF WorkerInv, PublishFails, ScheduleRetry, Terminal, Deferred, Exhausted, Closed, Row,
            WorkerTypeOK, EventRow, NothingStranded
<1>3. OneOpenAttempt'
    BY DEF WorkerInv, PublishFails, OneOpenAttempt
<1>4. HandlersInformed'
    BY OutboxAssumption, KindsAssumption
        DEF WorkerInv, PublishFails, ScheduleRetry, Terminal, Deferred, Exhausted, Closed, Row,
            WorkerTypeOK, HandlersInformed, queue, Events
<1>5. ProcessedMeansDone'
    BY KindsAssumption
        DEF WorkerInv, PublishFails, ScheduleRetry, Terminal, Deferred, Exhausted, Closed, Row,
            WorkerTypeOK, ProcessedMeansDone, Events
<1> QED
    BY <1>1, <1>2, <1>3, <1>4, <1>5 DEF WorkerInv

\* The poller forgets its batch.
LEMMA PollAbortsKeeps ==
    ASSUME WorkerInv, NEW w \in Workers, PollAborts(w)
    PROVE  WorkerInv'
<1>1. WorkerTypeOK'
    BY OutboxAssumption DEF WorkerInv, PollAborts, Fault, NoPoll, WorkerTypeOK, ledger, queue
<1>2. HandlersInformed'
    BY OutboxAssumption
        DEF WorkerInv, PollAborts, NoPoll, WorkerTypeOK, HandlersInformed, ledger, queue
<1>3. NothingStranded' /\ OneOpenAttempt' /\ ProcessedMeansDone'
    BY LedgerKept DEF PollAborts
<1> QED
    BY <1>1, <1>2, <1>3 DEF WorkerInv

-----------------------------------------------------------------------------
(* The queue *)

\* The job becomes active and its worker the holder of its lock.
LEMMA TakeKeeps ==
    ASSUME WorkerInv, NEW w \in Workers, NEW e \in Events, Take(w, e)
    PROVE  WorkerInv'
<1>1. WorkerTypeOK'
    BY OutboxAssumption DEF WorkerInv, Take, Handler, HandlerRecord, WorkerTypeOK, ledger, queue
<1>2. HandlersInformed'
    BY OutboxAssumption
        DEF WorkerInv, Take, Handler, NoJob, WorkerTypeOK, HandlersInformed, ledger, queue
<1>3. NothingStranded' /\ OneOpenAttempt' /\ ProcessedMeansDone'
    BY LedgerKept DEF Take
<1> QED
    BY <1>1, <1>2, <1>3 DEF WorkerInv

\* The handler forgets its event; another holder's job stays.
LEMMA FinishKeeps ==
    ASSUME WorkerInv, NEW w \in Workers, Finish(w)
    PROVE  WorkerInv'
<1>1. WorkerTypeOK'
    BY OutboxAssumption
        DEF WorkerInv, Finish, Handler, NoJob, HandlerRecord, HandlersInformed, WorkerTypeOK,
            ledger, queue
<1>2. HandlersInformed'
    BY OutboxAssumption
        DEF WorkerInv, Finish, Handler, NoJob, WorkerTypeOK, HandlersInformed, ledger, queue
<1>3. NothingStranded' /\ OneOpenAttempt' /\ ProcessedMeansDone'
    BY LedgerKept DEF Finish
<1> QED
    BY <1>1, <1>2, <1>3 DEF WorkerInv

\* The queue takes a job back from a dead worker.
LEMMA StallAfterCrashKeeps ==
    ASSUME WorkerInv, NEW e \in Events, StallAfterCrash(e)
    PROVE  WorkerInv'
<1>1. WorkerTypeOK'
    BY OutboxAssumption DEF WorkerInv, StallAfterCrash, Stall, WorkerTypeOK, ledger, queue
<1>2. HandlersInformed'
    BY OutboxAssumption
        DEF WorkerInv, StallAfterCrash, Stall, WorkerTypeOK, HandlersInformed, ledger, queue
<1>3. NothingStranded' /\ OneOpenAttempt' /\ ProcessedMeansDone'
    BY LedgerKept DEF StallAfterCrash, Stall
<1> QED
    BY <1>1, <1>2, <1>3 DEF WorkerInv

\* The queue takes a job back from a living worker.
LEMMA StallWhileRunningKeeps ==
    ASSUME WorkerInv, NEW e \in Events, StallWhileRunning(e)
    PROVE  WorkerInv'
<1>1. WorkerTypeOK'
    BY OutboxAssumption DEF WorkerInv, StallWhileRunning, Stall, Fault, WorkerTypeOK, ledger, queue
<1>2. HandlersInformed'
    BY OutboxAssumption
        DEF WorkerInv, StallWhileRunning, Stall, WorkerTypeOK, HandlersInformed, ledger, queue
<1>3. NothingStranded' /\ OneOpenAttempt' /\ ProcessedMeansDone'
    BY LedgerKept DEF StallWhileRunning, Stall
<1> QED
    BY <1>1, <1>2, <1>3 DEF WorkerInv

\* The queue forgets a job.
LEMMA LoseJobKeeps ==
    ASSUME WorkerInv, NEW e \in Events, LoseJob(e)
    PROVE  WorkerInv'
<1>1. WorkerTypeOK'
    BY OutboxAssumption DEF WorkerInv, LoseJob, Fault, WorkerTypeOK, ledger, queue
<1>2. HandlersInformed'
    BY OutboxAssumption DEF WorkerInv, LoseJob, WorkerTypeOK, HandlersInformed, ledger, queue
<1>3. NothingStranded' /\ OneOpenAttempt' /\ ProcessedMeansDone'
    BY LedgerKept DEF LoseJob
<1> QED
    BY <1>1, <1>2, <1>3 DEF WorkerInv

\* The worker forgets everything.
LEMMA CrashKeeps ==
    ASSUME WorkerInv, NEW w \in Workers, Crash(w)
    PROVE  WorkerInv'
<1>1. WorkerTypeOK'
    BY OutboxAssumption
        DEF WorkerInv, Crash, Fault, NoPoll, NoJob, Handler, HandlerRecord, WorkerTypeOK, ledger,
            queue
<1>2. HandlersInformed'
    BY OutboxAssumption
        DEF WorkerInv, Crash, NoPoll, NoJob, Handler, WorkerTypeOK, HandlersInformed, ledger, queue
<1>3. NothingStranded' /\ OneOpenAttempt' /\ ProcessedMeansDone'
    BY LedgerKept DEF Crash
<1> QED
    BY <1>1, <1>2, <1>3 DEF WorkerInv

-----------------------------------------------------------------------------
(* Sources and time *)

\* A new event starts with a queued notification without attempts.
LEMMA EnqueueKeeps ==
    ASSUME WorkerInv, NEW e \in Events, Enqueue(e)
    PROVE  WorkerInv'
<1>1. WorkerTypeOK'
    BY OutboxAssumption
        DEF WorkerInv, Enqueue, Row, NotificationStatus, WorkerTypeOK, EventRow, queue
<1>2. NothingStranded'
    BY OutboxAssumption DEF WorkerInv, Enqueue, Row, WorkerTypeOK, EventRow, NothingStranded
<1>3. OneOpenAttempt'
    BY DEF WorkerInv, Enqueue, OneOpenAttempt, WorkerTypeOK, HandlersInformed
<1>4. HandlersInformed'
    BY OutboxAssumption, KindsAssumption
        DEF WorkerInv, Enqueue, Row, WorkerTypeOK, HandlersInformed, queue, Events
<1>5. ProcessedMeansDone'
    BY KindsAssumption DEF WorkerInv, Enqueue, Row, WorkerTypeOK, ProcessedMeansDone, Events
<1> QED
    BY <1>1, <1>2, <1>3, <1>4, <1>5 DEF WorkerInv

\* A waiting event becomes due.
LEMMA BecomeDueKeeps ==
    ASSUME WorkerInv, NEW e \in Events, BecomeDue(e)
    PROVE  WorkerInv'
<1>1. WorkerTypeOK'
    BY OutboxAssumption DEF WorkerInv, BecomeDue, Row, WorkerTypeOK, EventRow, queue
<1>2. NothingStranded'
    BY OutboxAssumption DEF WorkerInv, BecomeDue, Row, WorkerTypeOK, EventRow, NothingStranded
<1>3. OneOpenAttempt'
    BY DEF WorkerInv, BecomeDue, OneOpenAttempt
<1>4. HandlersInformed'
    BY OutboxAssumption, KindsAssumption
        DEF WorkerInv, BecomeDue, Row, WorkerTypeOK, HandlersInformed, queue, Events
<1>5. ProcessedMeansDone'
    BY KindsAssumption DEF WorkerInv, BecomeDue, Row, WorkerTypeOK, ProcessedMeansDone, Events
<1> QED
    BY <1>1, <1>2, <1>3, <1>4, <1>5 DEF WorkerInv

\* A lease runs out and stays recorded.
LEMMA ExpireLeaseKeeps ==
    ASSUME WorkerInv, NEW e \in Events, ExpireLease(e)
    PROVE  WorkerInv'
<1>1. WorkerTypeOK'
    BY OutboxAssumption DEF WorkerInv, ExpireLease, Row, WorkerTypeOK, EventRow, queue
<1>2. NothingStranded'
    BY OutboxAssumption DEF WorkerInv, ExpireLease, Row, WorkerTypeOK, EventRow, NothingStranded
<1>3. OneOpenAttempt'
    BY DEF WorkerInv, ExpireLease, OneOpenAttempt
<1>4. HandlersInformed'
    BY OutboxAssumption, KindsAssumption
        DEF WorkerInv, ExpireLease, Row, WorkerTypeOK, HandlersInformed, queue, Events
<1>5. ProcessedMeansDone'
    BY KindsAssumption DEF WorkerInv, ExpireLease, Row, WorkerTypeOK, ProcessedMeansDone, Events
<1> QED
    BY <1>1, <1>2, <1>3, <1>4, <1>5 DEF WorkerInv

-----------------------------------------------------------------------------
(* The handler *)

\* Nothing to do, a provider that answered, a step that failed: only the stage.
LEMMA StagesKeep ==
    ASSUME WorkerInv, NEW w \in Workers, AlreadyClosed(w) \/ Send(w) \/ HandlerFails(w)
    PROVE  WorkerInv'
<1>1. UNCHANGED <<ledger, queue, poller, faults>>
    BY DEF AlreadyClosed, Send, HandlerFails, Fails
<1>2. PICK stage \in {"sent", "failed", "defer", "done"} :
          /\ Goto(w, stage) /\ handler[w].stage # "idle"
          /\ stage \in {"sent", "failed"} => handler[w].stage \in {"send", "sent", "failed"}
    BY DEF AlreadyClosed, Send, HandlerFails, Fails, At
<1> QED
    BY <1>1, <1>2, StageKeeps

\* An open sweep is swept for the first time and closed.
LEMMA ProcessSweepKeeps ==
    ASSUME WorkerInv, NEW w \in Workers, ProcessSweep(w)
    PROVE  WorkerInv'
<1>1. WorkerTypeOK'
    BY HandlerMoves, RowTypes
        DEF WorkerInv, ProcessSweep, Opens, At, Close, WorkerTypeOK, Events, queue
<1>2. NothingStranded'
    BY OutboxAssumption
        DEF WorkerInv, ProcessSweep, Opens, At, Close, Closed, Row, WorkerTypeOK, EventRow,
            NothingStranded
<1>3. OneOpenAttempt'
    BY DEF WorkerInv, ProcessSweep, OneOpenAttempt
<1>4. HandlersInformed'
    BY StaysInformed DEF WorkerInv, ProcessSweep, Opens, At, Close, Closed, Row, WorkerTypeOK
<1>5. ProcessedMeansDone'
    BY KindsAssumption
        DEF WorkerInv, ProcessSweep, Opens, At, Terminal, Close, Closed, Row, WorkerTypeOK,
            ProcessedMeansDone, Events
<1> QED
    BY <1>1, <1>2, <1>3, <1>4, <1>5 DEF WorkerInv

\* An open cleanup is leased, none of its objects ticked off.
LEMMA ClaimMediaDeletionKeeps ==
    ASSUME WorkerInv, NEW w \in Workers, ClaimMediaDeletion(w)
    PROVE  WorkerInv'
<1>1. WorkerTypeOK'
    BY RowTypes
        DEF WorkerInv, ClaimMediaDeletion, Opens, At, Handler, HandlerRecord, WorkerTypeOK, Events,
            queue
<1>2. NothingStranded'
    BY OutboxAssumption
        DEF WorkerInv, ClaimMediaDeletion, Opens, At, Leased, Row, WorkerTypeOK, EventRow,
            NothingStranded
<1>3. OneOpenAttempt'
    BY DEF WorkerInv, ClaimMediaDeletion, OneOpenAttempt
<1>4. HandlersInformed'
    BY KindsAssumption
        DEF WorkerInv, ClaimMediaDeletion, Opens, At, Handler, Leased, Row, WorkerTypeOK,
            HandlersInformed, Events, queue
<1>5. ProcessedMeansDone'
    BY KindsAssumption
        DEF WorkerInv, ClaimMediaDeletion, Opens, At, Leased, Row, WorkerTypeOK, ProcessedMeansDone,
            Events
<1> QED
    BY <1>1, <1>2, <1>3, <1>4, <1>5 DEF WorkerInv

\* An object is ticked off when it is gone.
LEMMA DeleteObjectKeeps ==
    ASSUME WorkerInv, NEW w \in Workers, NEW x \in Objects, DeleteObject(w, x)
    PROVE  WorkerInv'
<1>1. WorkerTypeOK'
    BY DEF WorkerInv, DeleteObject, At, Handler, HandlerRecord, WorkerTypeOK, Events, queue
<1>2. NothingStranded' /\ OneOpenAttempt'
    BY DEF WorkerInv, DeleteObject, NothingStranded, OneOpenAttempt
<1>3. HandlersInformed'
    BY DEF WorkerInv, DeleteObject, At, Handler, WorkerTypeOK, HandlersInformed, Events, queue
<1>4. ProcessedMeansDone'
    BY DEF WorkerInv, DeleteObject, At, WorkerTypeOK, ProcessedMeansDone
<1> QED
    BY <1>1, <1>2, <1>3, <1>4 DEF WorkerInv

\* All objects of the cleanup are gone when its event is closed.
LEMMA CompleteMediaDeletionKeeps ==
    ASSUME WorkerInv, NEW w \in Workers, CompleteMediaDeletion(w)
    PROVE  WorkerInv'
<1> DEFINE c == handler[w].event
<1>1. c \in Cleanups /\ deleted[c] = Objects
    BY DEF WorkerInv, WorkerTypeOK, HandlersInformed, CompleteMediaDeletion, AllDeleted, At
<1>2. /\ event' = [event EXCEPT ![c] = Closed(c, "PROCESSED")] /\ Goto(w, "done")
      /\ handler[w].stage = "delete" /\ UNCHANGED <<notif, tries, deleted, sweeps, queue, poller, faults>>
    BY DEF CompleteMediaDeletion, AllDeleted, At, Close
<1> HIDE DEF c
<1>3. WorkerTypeOK'
    BY <1>1, <1>2, HandlerMoves, RowTypes DEF WorkerInv, WorkerTypeOK, Events, queue
<1>4. NothingStranded'
    BY <1>1, <1>2, OutboxAssumption
        DEF WorkerInv, WorkerTypeOK, EventRow, NothingStranded, Closed, Row
<1>5. OneOpenAttempt'
    BY <1>2 DEF WorkerInv, OneOpenAttempt
<1>6. HandlersInformed'
    BY <1>1, <1>2, StaysInformed DEF WorkerInv, WorkerTypeOK, Closed, Row
<1>7. ProcessedMeansDone'
    BY <1>1, <1>2, KindsAssumption
        DEF WorkerInv, WorkerTypeOK, ProcessedMeansDone, Closed, Row, Events
<1> QED
    BY <1>3, <1>4, <1>5, <1>6, <1>7 DEF WorkerInv

\* A cancelled attempt, a cancelled notification and a processed event.
LEMMA SkipDisabledKeeps ==
    ASSUME WorkerInv, NEW w \in Workers, SkipDisabled(w)
    PROVE  WorkerInv'
<1> DEFINE n == handler[w].event
           ts == tries[n]
           us == Append(Superseded(ts), "CANCELLED")
<1>1. /\ n \in Notifications /\ ~Terminal(n) /\ Goto(w, "done") /\ handler[w].stage = "start"
      /\ tries' = [tries EXCEPT ![n] = us] /\ notif' = [notif EXCEPT ![n] = "CANCELLED"]
      /\ event' = [event EXCEPT ![n] = Closed(n, "PROCESSED")]
      /\ UNCHANGED <<deleted, sweeps, queue, poller, faults>>
    BY DEF SkipDisabled, Undecided, Opens, At, Close
<1>2. ts \in Seq(NotificationStatus) /\ DOMAIN ts = 1 .. Len(ts)
    BY <1>1, LenProperties DEF WorkerInv, WorkerTypeOK
<1>3. /\ us \in Seq(NotificationStatus) /\ DOMAIN us = 1 .. Len(ts) + 1 /\ Len(ts) \in Nat
      /\ \A i \in DOMAIN us : us[i] # "PROCESSING"
    BY <1>2, NewAttempt DEF NotificationStatus
<1> HIDE DEF n, ts, us
<1>4. WorkerTypeOK'
    BY <1>1, <1>3, HandlerMoves, RowTypes
        DEF WorkerInv, WorkerTypeOK, NotificationStatus, Events, queue
<1>5. NothingStranded'
    BY <1>1, OutboxAssumption DEF WorkerInv, WorkerTypeOK, EventRow, NothingStranded, Closed, Row
<1>6. OneOpenAttempt'
    BY <1>1, <1>3 DEF WorkerInv, WorkerTypeOK, OneOpenAttempt
<1>7. HandlersInformed'
    <2>1. \A m \in Notifications : DOMAIN tries[m] \subseteq DOMAIN tries'[m]
        BY <1>1, <1>2, <1>3 DEF WorkerInv, WorkerTypeOK, ts
    <2>2. \A e \in Events : event'[e].status = "NONE" => event[e].status = "NONE" /\ e # n
        BY <1>1 DEF WorkerInv, WorkerTypeOK, Closed, Row
    <2>3. \A m \in Notifications : m # n => notif'[m] = notif[m] /\ tries'[m] = tries[m]
        BY <1>1 DEF WorkerInv, WorkerTypeOK
    <2> QED
        BY <1>1, <2>1, <2>2, <2>3, StaysInformed DEF Events
<1>8. ProcessedMeansDone'
    BY <1>1, KindsAssumption DEF WorkerInv, WorkerTypeOK, ProcessedMeansDone, Closed, Row, Events
<1> QED
    BY <1>4, <1>5, <1>6, <1>7, <1>8 DEF WorkerInv

\* The new attempt is the only open one and its handler knows its number.
LEMMA ClaimNotificationKeeps ==
    ASSUME WorkerInv, NEW w \in Workers, ClaimNotification(w)
    PROVE  WorkerInv'
<1> DEFINE n == handler[w].event
           ts == tries[n]
           us == Append(Superseded(ts), "PROCESSING")
<1>1. /\ n \in Notifications /\ ~Terminal(n) /\ handler[w].stage = "start"
      /\ tries' = [tries EXCEPT ![n] = us] /\ notif' = [notif EXCEPT ![n] = "PROCESSING"]
      /\ event' = [event EXCEPT ![n] = Leased(n, "PROCESSING", w)]
      /\ handler' = [handler EXCEPT ![w] = Handler(n, "send", Len(ts) + 1, {})]
      /\ UNCHANGED <<deleted, sweeps, queue, poller, faults>>
    BY DEF ClaimNotification, Undecided, Opens, At
<1>2. ts \in Seq(NotificationStatus) /\ DOMAIN ts = 1 .. Len(ts)
    BY <1>1, LenProperties DEF WorkerInv, WorkerTypeOK
<1>3. /\ us \in Seq(NotificationStatus) /\ DOMAIN us = 1 .. Len(ts) + 1 /\ Len(ts) \in Nat
      /\ Len(us) = Len(ts) + 1 /\ \A i \in DOMAIN us : us[i] = "PROCESSING" => i = Len(us)
    BY <1>2, NewAttempt DEF NotificationStatus
<1> HIDE DEF us
<1>4. WorkerTypeOK'
    BY <1>1, <1>3, RowTypes
        DEF WorkerInv, WorkerTypeOK, NotificationStatus, Handler, HandlerRecord, Events, queue
<1>5. NothingStranded'
    BY <1>1, OutboxAssumption DEF WorkerInv, WorkerTypeOK, EventRow, NothingStranded, Leased, Row
<1>6. OneOpenAttempt'
    <2> SUFFICES ASSUME NEW m \in Notifications, NEW i \in DOMAIN tries'[m], tries'[m][i] = "PROCESSING"
                 PROVE  i = Len(tries'[m]) /\ notif'[m] = "PROCESSING"
        BY DEF OneOpenAttempt
    <2>1. CASE m = n
        BY <1>1, <1>3, <2>1 DEF WorkerInv, WorkerTypeOK
    <2>2. CASE m # n
        BY <1>1, <2>2 DEF WorkerInv, WorkerTypeOK, OneOpenAttempt
    <2> QED
        BY <2>1, <2>2
<1>7. HandlersInformed'
    <2>1. \A m \in Notifications : DOMAIN tries[m] \subseteq DOMAIN tries'[m]
        BY <1>1, <1>2, <1>3 DEF WorkerInv, WorkerTypeOK
    <2>2. \A v \in Workers : v # w => handler'[v] = handler[v]
        BY <1>1 DEF WorkerInv, WorkerTypeOK
    <2>3. handler'[w] = Handler(n, "send", Len(ts) + 1, {}) /\ Len(ts) + 1 \in DOMAIN tries'[n]
        BY <1>1, <1>3 DEF WorkerInv, WorkerTypeOK
    <2>4. \A e \in Events : event'[e].status = "NONE" => event[e].status = "NONE" /\ e # n
        BY <1>1 DEF WorkerInv, WorkerTypeOK, Leased, Row
    <2>5. \A m \in Notifications : m # n => notif'[m] = notif[m] /\ tries'[m] = tries[m]
        BY <1>1 DEF WorkerInv, WorkerTypeOK
    <2> HIDE DEF n, ts
    <2>6. ASSUME NEW e \in Events, event'[e].status = "NONE"
          PROVE  /\ job'[e] = "absent"
                 /\ \A v \in Workers : e \notin poller'[v].todo /\ poller'[v].current # e /\ handler'[v].event # e
                 /\ e \in Notifications => notif'[e] = "NONE" /\ tries'[e] = <<>>
        BY <1>1, <2>2, <2>3, <2>4, <2>5, <2>6 DEF WorkerInv, HandlersInformed, Handler, queue
    <2>7. ASSUME NEW v \in Workers
          PROVE  /\ handler'[v].stage # "idle" => handler'[v].event \in Events
                 /\ handler'[v].stage \in {"send", "sent", "failed"} =>
                       handler'[v].event \in Notifications /\ handler'[v].try \in DOMAIN tries'[handler'[v].event]
                 /\ handler'[v].stage = "delete" =>
                       handler'[v].event \in Cleanups /\ Objects \ handler'[v].left \subseteq deleted'[handler'[v].event]
        <3>1. CASE v = w
            BY <1>1, <2>3, <3>1 DEF Handler, Events
        <3>2. CASE v # w
            BY <1>1, <2>1, <2>2, <3>2 DEF WorkerInv, HandlersInformed
        <3> QED
            BY <3>1, <3>2
    <2> QED
        BY <2>6, <2>7 DEF HandlersInformed
<1>8. ProcessedMeansDone'
    BY <1>1, KindsAssumption DEF WorkerInv, WorkerTypeOK, ProcessedMeansDone, Leased, Row, Events
<1> QED
    BY <1>4, <1>5, <1>6, <1>7, <1>8 DEF WorkerInv

\* An event's row and its notification's status agree on the outcome.
Agree(r, x) ==
    /\ r \in EventRow /\ r.status # "NONE"
    /\ r.lease # "none" <=> r.status \in {"LEASED", "PUBLISHED", "PROCESSING"}
    /\ r.lease # "none" <=> r.leaseOwner # None
    /\ r.status = "PROCESSED" <=> x \in {"DELIVERED", "CANCELLED"}
    /\ x = "DEAD_LETTER" => r.status = "DEAD_LETTER"

\* Recording the result of an attempt, in general: the notification changes
\* only if the attempt was open, and the event is closed with its outcome.
LEMMA RecordKeeps ==
    ASSUME WorkerInv, NEW w \in Workers, NEW n \in Notifications, handler[w].event = n,
           handler[w].stage \in {"sent", "failed"},
           NEW stage \in {"failed", "done"}, Goto(w, stage),
           NEW s \in NotificationStatus \ {"PROCESSING"}, SetTry(w, s),
           NEW x \in NotificationStatus, notif' = [notif EXCEPT ![n] = x],
           x # notif[n] => Try(w) = "PROCESSING",
           NEW r, event' = [event EXCEPT ![n] = r], Agree(r, x),
           UNCHANGED <<deleted, sweeps, queue, poller, faults>>
    PROVE  WorkerInv'
<1> DEFINE i == handler[w].try
           us == [tries[n] EXCEPT ![i] = s]
<1>1. tries[n] \in Seq(NotificationStatus) /\ i \in DOMAIN tries[n]
    BY DEF WorkerInv, WorkerTypeOK, HandlersInformed
<1>2. /\ us \in Seq(NotificationStatus) /\ Len(us) = Len(tries[n]) /\ DOMAIN us = DOMAIN tries[n]
      /\ us[i] = s /\ \A j \in DOMAIN tries[n] : j # i => us[j] = tries[n][j]
    BY <1>1, RecordedAttempt
<1>3. tries' = [tries EXCEPT ![n] = us] /\ Try(w) = tries[n][i]
    BY DEF SetTry, Try
<1> HIDE DEF us, i
<1>4. WorkerTypeOK'
    BY <1>2, <1>3, HandlerMoves DEF WorkerInv, WorkerTypeOK, Events, queue, Agree
<1>5. NothingStranded'
    BY DEF WorkerInv, WorkerTypeOK, NothingStranded, Agree
<1>6. OneOpenAttempt'
    <2> SUFFICES ASSUME NEW m \in Notifications, NEW j \in DOMAIN tries'[m], tries'[m][j] = "PROCESSING"
                 PROVE  j = Len(tries'[m]) /\ notif'[m] = "PROCESSING"
        BY DEF OneOpenAttempt
    <2>1. CASE m # n
        BY <1>3, <2>1 DEF WorkerInv, WorkerTypeOK, OneOpenAttempt
    <2>2. CASE m = n
        <3>1. tries'[n] = us /\ notif'[n] = x
            BY <1>3 DEF WorkerInv, WorkerTypeOK
        <3>2. j \in DOMAIN tries[n] /\ j # i /\ tries[n][j] = "PROCESSING"
            BY <1>2, <2>2, <3>1
        <3>3. j = Len(tries[n]) /\ notif[n] = "PROCESSING"
            BY <3>2 DEF WorkerInv, OneOpenAttempt
        <3>4. Try(w) # "PROCESSING"
            BY <1>1, <1>3, <3>2, <3>3 DEF WorkerInv, OneOpenAttempt
        <3> QED
            BY <1>2, <2>2, <3>1, <3>3, <3>4
    <2> QED
        BY <2>1, <2>2
<1>7. HandlersInformed'
    <2>1. \A m \in Notifications : DOMAIN tries[m] \subseteq DOMAIN tries'[m]
        BY <1>2, <1>3 DEF WorkerInv, WorkerTypeOK
    <2>2. \A e \in Events : event'[e].status = "NONE" => event[e].status = "NONE" /\ e # n
        BY DEF WorkerInv, WorkerTypeOK, Events, Agree
    <2>3. \A m \in Notifications : m # n => notif'[m] = notif[m] /\ tries'[m] = tries[m]
        BY <1>3 DEF WorkerInv, WorkerTypeOK
    <2> QED
        BY <2>1, <2>2, <2>3, StaysInformed DEF Events
<1>8. ProcessedMeansDone'
    BY KindsAssumption DEF WorkerInv, WorkerTypeOK, ProcessedMeansDone, Events, Agree
<1> QED
    BY <1>4, <1>5, <1>6, <1>7, <1>8 DEF WorkerInv

\* The three ways a result is recorded.
LEMMA ResultsKeep ==
    ASSUME WorkerInv, NEW w \in Workers,
           RecordDelivery(w) \/ RecordLateFailure(w) \/ RecordFailure(w)
    PROVE  WorkerInv'
<1> DEFINE n == handler[w].event
<1>1. /\ n \in Notifications /\ handler[w].event = n /\ handler[w].stage \in {"sent", "failed"}
      /\ UNCHANGED <<deleted, sweeps, queue, poller, faults>>
    BY DEF RecordDelivery, RecordLateFailure, RecordFailure, At
<1>2. /\ event[n] \in EventRow /\ event[n].status # "NONE" /\ notif[n] \in NotificationStatus
      /\ event = [event EXCEPT ![n] = event[n]] /\ notif = [notif EXCEPT ![n] = notif[n]]
    BY <1>1 DEF WorkerInv, WorkerTypeOK, HandlersInformed, Events
<1>3. /\ Closed(n, "PROCESSED") \in EventRow /\ Deferred(n) \in EventRow
      /\ Closed(n, "PROCESSED").status = "PROCESSED" /\ Closed(n, "PROCESSED").lease = "none"
      /\ Closed(n, "PROCESSED").leaseOwner = None
      /\ Deferred(n).status \in {"RETRY", "DEAD_LETTER"} /\ Deferred(n).lease = "none"
      /\ Deferred(n).leaseOwner = None
    BY <1>1, RowTypes DEF WorkerInv, Closed, Deferred, Row, Events
<1> HIDE DEF n
<1>4. CASE RecordDelivery(w)
    <2>1. PICK stage \in {"failed", "done"} : Goto(w, stage)
        BY <1>4 DEF RecordDelivery
    <2>2. SetTry(w, "DELIVERED")
        BY <1>4 DEF RecordDelivery
    <2>3. PICK x \in {"DELIVERED", "CANCELLED"} :
              notif' = [notif EXCEPT ![n] = x] /\ (x # notif[n] => Try(w) = "PROCESSING")
        BY <1>2, <1>4 DEF RecordDelivery, n
    <2>4. "DELIVERED" \in NotificationStatus \ {"PROCESSING"} /\ x \in NotificationStatus
        BY DEF NotificationStatus
    <2>5. event' = [event EXCEPT ![n] = Closed(n, "PROCESSED")]
        BY <1>4 DEF RecordDelivery, Close, n
    <2>6. Agree(Closed(n, "PROCESSED"), x)
        BY <1>3 DEF Agree
    <2> QED
        BY <1>1, <2>1, <2>2, <2>3, <2>4, <2>5, <2>6, RecordKeeps
<1>5. CASE RecordLateFailure(w)
    <2>1. SetTry(w, "FAILED") /\ Goto(w, "done") /\ notif' = [notif EXCEPT ![n] = notif[n]]
        BY <1>2, <1>5 DEF RecordLateFailure
    <2>2. PICK r \in {event[n], Closed(n, "PROCESSED")} :
              event' = [event EXCEPT ![n] = r] /\ (r # event[n] => notif[n] = "DELIVERED")
        BY <1>2, <1>5 DEF RecordLateFailure, Close, n
    <2>3. r.status = "PROCESSED" <=> notif[n] \in {"DELIVERED", "CANCELLED"}
        BY <1>1, <1>2, <1>3, <2>2 DEF WorkerInv, ProcessedMeansDone
    <2>4. Agree(r, notif[n])
        BY <1>1, <1>2, <1>3, <2>2, <2>3 DEF WorkerInv, NothingStranded, ProcessedMeansDone, Events, Agree
    <2>5. "FAILED" \in NotificationStatus \ {"PROCESSING"}
        BY DEF NotificationStatus
    <2> QED
        BY <1>1, <1>2, <2>1, <2>2, <2>4, <2>5, RecordKeeps
<1>6. CASE RecordFailure(w)
    <2>1. PICK s \in {"DEAD_LETTER", "FAILED"} :
              SetTry(w, s) /\ notif' = [notif EXCEPT ![n] = s] /\ (s = "DEAD_LETTER" => Exhausted(n))
        BY <1>6 DEF RecordFailure, n
    <2>2. Try(w) = "PROCESSING" /\ event' = [event EXCEPT ![n] = Deferred(n)] /\ Goto(w, "done")
        BY <1>6 DEF RecordFailure, n
    <2>3. s = "DEAD_LETTER" => Deferred(n).status = "DEAD_LETTER"
        BY <2>1 DEF Deferred, Closed, Row
    <2>4. Agree(Deferred(n), s)
        BY <1>3, <2>3 DEF Agree
    <2>5. s \in NotificationStatus \ {"PROCESSING"}
        BY DEF NotificationStatus
    <2> QED
        BY <1>1, <2>1, <2>2, <2>4, <2>5, RecordKeeps
<1> QED
    BY <1>4, <1>5, <1>6

\* Only an unfinished event is deferred.
LEMMA DeferKeeps ==
    ASSUME WorkerInv, NEW w \in Workers, Defer(w)
    PROVE  WorkerInv'
<1>1. WorkerTypeOK'
    BY HandlerMoves, RowTypes DEF WorkerInv, Defer, At, ScheduleRetry, WorkerTypeOK, Events, queue
<1>2. NothingStranded'
    BY OutboxAssumption
        DEF WorkerInv, Defer, At, ScheduleRetry, Deferred, Closed, Row, WorkerTypeOK,
            NothingStranded
<1>3. OneOpenAttempt'
    BY DEF WorkerInv, Defer, OneOpenAttempt
<1>4. HandlersInformed'
    BY StaysInformed DEF WorkerInv, Defer, At, ScheduleRetry, Deferred, Closed, Row, WorkerTypeOK
<1>5. ProcessedMeansDone'
    BY KindsAssumption
        DEF WorkerInv, Defer, At, ScheduleRetry, Terminal, Deferred, Closed, Row, WorkerTypeOK,
            ProcessedMeansDone, Events
<1> QED
    BY <1>1, <1>2, <1>3, <1>4, <1>5 DEF WorkerInv

-----------------------------------------------------------------------------
(* The invariant *)

\* The empty database satisfies the invariant.
LEMMA InvInit ==
    Init => WorkerInv
<1> SUFFICES ASSUME Init PROVE WorkerInv
    OBVIOUS
<1>1. WorkerTypeOK
    BY OutboxAssumption, EmptySeq
        DEF Init, WorkerTypeOK, EventRow, NotificationStatus, HandlerRecord, Row, NoPoll, NoJob, Handler
<1>2. NothingStranded
    BY DEF Init, NothingStranded, Row
<1>3. OneOpenAttempt
    BY DEF Init, OneOpenAttempt
<1>4. HandlersInformed
    BY OutboxAssumption DEF Init, HandlersInformed, Row, NoPoll, NoJob, Handler, Events
<1>5. ProcessedMeansDone
    BY DEF Init, ProcessedMeansDone, Row, Events
<1> QED
    BY <1>1, <1>2, <1>3, <1>4, <1>5 DEF WorkerInv

\* Every step of every worker, of the queue and of time keeps it.
LEMMA InvNext ==
    WorkerInv /\ [Next]_vars => WorkerInv'
<1> SUFFICES ASSUME WorkerInv, [Next]_vars PROVE WorkerInv'
    OBVIOUS
<1>1. ASSUME NEW e \in Events, Enqueue(e) \/ TimeStep(e) \/ QueueStep(e) PROVE WorkerInv'
    BY <1>1, EnqueueKeeps, BecomeDueKeeps, ExpireLeaseKeeps, StallAfterCrashKeeps,
       StallWhileRunningKeeps, LoseJobKeeps DEF TimeStep, QueueStep
<1>2. ASSUME NEW w \in Workers, PollerStep(w) PROVE WorkerInv'
    BY <1>2, ClaimKeeps, AddJobKeeps, MarkPublishedKeeps, PublishFailsKeeps DEF PollerStep
<1>3. ASSUME NEW w \in Workers, HandlerStep(w) PROVE WorkerInv'
    BY <1>3, TakeKeeps, StagesKeep, ProcessSweepKeeps, ClaimMediaDeletionKeeps, DeleteObjectKeeps,
       CompleteMediaDeletionKeeps, SkipDisabledKeeps,
       ClaimNotificationKeeps, ResultsKeep, DeferKeeps, FinishKeeps DEF HandlerStep
<1>4. ASSUME NEW w \in Workers, Crash(w) \/ PollAborts(w) PROVE WorkerInv'
    BY <1>4, CrashKeeps, PollAbortsKeeps
<1>5. CASE UNCHANGED vars
    BY <1>5 DEF vars, ledger, queue, WorkerInv, WorkerTypeOK, NothingStranded, OneOpenAttempt,
                HandlersInformed, ProcessedMeansDone
<1> QED
    BY <1>1, <1>2, <1>3, <1>4, <1>5 DEF Next

\* The invariant holds throughout.
THEOREM WorkerInvariant ==
    Spec => []WorkerInv
BY InvInit, InvNext, PTL DEF Spec

\* Rows, jobs and workers keep their types, and no event is claimed more often
\* than OUTBOX_MAX_ATTEMPTS allows (claimAvailable).
THEOREM WorkerTypeCorrect ==
    Spec => []WorkerTypeOK
<1>1. WorkerInv => WorkerTypeOK
    BY DEF WorkerInv
<1> QED
    BY <1>1, WorkerInvariant, PTL

\* No interleaving of pollers, handlers, stalls, losses and crashes strands an
\* event: what is neither waiting nor closed has a lease that will expire.
THEOREM NothingEverStranded ==
    Spec => []NothingStranded
<1>1. WorkerInv => NothingStranded
    BY DEF WorkerInv
<1> QED
    BY <1>1, WorkerInvariant, PTL

\* At most one delivery attempt of a notification is open, the newest, however
\* many handlers a duplicated job or an expired lease brings up.
THEOREM AtMostOneOpenAttempt ==
    Spec => []OneOpenAttempt
<1>1. WorkerInv => OneOpenAttempt
    BY DEF WorkerInv
<1> QED
    BY <1>1, WorkerInvariant, PTL

\* An event is marked PROCESSED only when its work is done, and a sweep of the
\* reservations only once.
THEOREM ProcessedOnlyWhenDone ==
    Spec => []ProcessedMeansDone
<1>1. WorkerInv => ProcessedMeansDone
    BY DEF WorkerInv
<1> QED
    BY <1>1, WorkerInvariant, PTL

-----------------------------------------------------------------------------
(* Outcomes *)

\* The step of OutcomesFinal.
KeepsOutcomes ==
    /\ \A n \in Notifications :
          notif[n] \in {"DELIVERED", "CANCELLED", "DEAD_LETTER"} => notif'[n] = notif[n]
    /\ \A e \in Events :
          /\ event[e].status = "PROCESSED" => event'[e] = event[e]
          /\ event[e].status = "DEAD_LETTER" => event'[e].status \in {"DEAD_LETTER", "PROCESSED"}

\* Closing a processed event again changes nothing.
LEMMA ClosedAgain ==
    ASSUME WorkerInv, NEW e \in Events, event[e].status = "PROCESSED"
    PROVE  Closed(e, "PROCESSED") = event[e]
<1>1. event[e] \in EventRow /\ event[e].lease = "none" /\ event[e].leaseOwner = None
    BY DEF WorkerInv, WorkerTypeOK, NothingStranded, EventRow
<1> QED
    BY <1>1 DEF EventRow, Closed, Row

\* A step that changes one event keeps the outcomes if that event is open, or
\* is closed as processed.
LEMMA OneEvent ==
    ASSUME WorkerInv, NEW e \in Events, NEW r, event' = [event EXCEPT ![e] = r], UNCHANGED notif,
           Terminal(e) => r = Closed(e, "PROCESSED")
    PROVE  KeepsOutcomes
BY ClosedAgain DEF WorkerInv, WorkerTypeOK, KeepsOutcomes, Terminal, Closed, Row

\* Pollers and time only touch open events.
LEMMA PollerKeepsOutcomes ==
    ASSUME WorkerInv, NEW w \in Workers, PollerStep(w)
    PROVE  KeepsOutcomes
<1>1. CASE Claim(w)
    BY <1>1 DEF Claim, kSubset, Claimable, Spent, KeepsOutcomes
<1>2. ASSUME NEW e \in Events, AddJob(w, e) PROVE KeepsOutcomes
    BY <1>2 DEF AddJob, ledger, KeepsOutcomes
<1>3. CASE MarkPublished(w)
    <2>1. poller[w].current \in Events
        BY <1>3 DEF MarkPublished, WorkerInv, WorkerTypeOK
    <2> QED
        BY <1>3, <2>1, OneEvent DEF MarkPublished, StillLeased, Terminal, KeepsOutcomes
<1>4. ASSUME NEW e \in Events, PublishFails(w, e) PROVE KeepsOutcomes
    BY <1>4, OneEvent DEF PublishFails, ScheduleRetry, KeepsOutcomes
<1> QED
    BY <1>1, <1>2, <1>3, <1>4 DEF PollerStep

\* A handler changes a notification only while its outcome is open.
LEMMA HandlerKeepsOutcomes ==
    ASSUME WorkerInv, NEW w \in Workers, HandlerStep(w)
    PROVE  KeepsOutcomes
<1> DEFINE e == handler[w].event
<1>1. CASE UNCHANGED <<event, notif>>
    BY <1>1 DEF KeepsOutcomes
<1>2. CASE ProcessSweep(w) \/ ClaimMediaDeletion(w)
    <2>1. e \in Events /\ ~Terminal(e) /\ UNCHANGED notif
        BY <1>2 DEF ProcessSweep, ClaimMediaDeletion, Opens, At, Events
    <2>2. PICK r : event' = [event EXCEPT ![e] = r]
        BY <1>2 DEF ProcessSweep, ClaimMediaDeletion, Close
    <2> QED
        BY <2>1, <2>2, OneEvent
<1>3. CASE CompleteMediaDeletion(w)
    BY <1>3, OneEvent DEF CompleteMediaDeletion, AllDeleted, At, Close, Events
<1>4. CASE Defer(w)
    BY <1>4, OneEvent DEF Defer, At, ScheduleRetry, KeepsOutcomes
<1>5. CASE RecordLateFailure(w)
    BY <1>5, OneEvent DEF RecordLateFailure, At, Close, KeepsOutcomes, Events
<1>6. CASE SkipDisabled(w) \/ ClaimNotification(w) \/ RecordFailure(w)
    <2>1. e \in Notifications /\ ~Terminal(e)
        BY <1>6 DEF SkipDisabled, ClaimNotification, RecordFailure, Undecided, Opens, Decided, At
    <2>2. notif[e] \notin {"DELIVERED", "CANCELLED", "DEAD_LETTER"}
        <3>1. CASE RecordFailure(w)
            BY <3>1 DEF RecordFailure, At, Try, WorkerInv, HandlersInformed, OneOpenAttempt
        <3>2. CASE SkipDisabled(w) \/ ClaimNotification(w)
            BY <3>2 DEF SkipDisabled, ClaimNotification, Undecided
        <3> QED
            BY <1>6, <3>1, <3>2
    <2>3. PICK r, x : event' = [event EXCEPT ![e] = r] /\ notif' = [notif EXCEPT ![e] = x]
        BY <1>6 DEF SkipDisabled, ClaimNotification, RecordFailure, Close
    <2> HIDE DEF e
    <2> QED
        BY <2>1, <2>2, <2>3 DEF WorkerInv, WorkerTypeOK, KeepsOutcomes, Terminal, Events
<1>7. CASE RecordDelivery(w)
    <2>1. e \in Notifications /\ event' = [event EXCEPT ![e] = Closed(e, "PROCESSED")]
        BY <1>7 DEF RecordDelivery, At, Close
    <2>2. \/ UNCHANGED notif
          \/ \E x : notif' = [notif EXCEPT ![e] = x] /\ notif[e] = "PROCESSING"
        BY <1>7 DEF RecordDelivery, At, Try, WorkerInv, HandlersInformed, OneOpenAttempt
    <2> HIDE DEF e
    <2> QED
        BY <2>1, <2>2, ClosedAgain DEF WorkerInv, WorkerTypeOK, KeepsOutcomes, Closed, Row, Events
<1> QED
    BY <1>1, <1>2, <1>3, <1>4, <1>5, <1>6, <1>7
        DEF HandlerStep, Take, AlreadyClosed, DeleteObject, Send, HandlerFails, Fails, Finish, ledger

\* Every step keeps the outcomes.
LEMMA OutcomesKept ==
    WorkerInv /\ [Next]_vars => KeepsOutcomes
<1> SUFFICES ASSUME WorkerInv, [Next]_vars PROVE KeepsOutcomes
    OBVIOUS
<1>1. ASSUME NEW e \in Events, Enqueue(e) PROVE KeepsOutcomes
    BY <1>1 DEF Enqueue, KeepsOutcomes, WorkerInv, WorkerTypeOK, HandlersInformed
<1>2. ASSUME NEW e \in Events, TimeStep(e) PROVE KeepsOutcomes
    <2>1. ~Terminal(e) /\ UNCHANGED notif
        BY <1>2 DEF TimeStep, BecomeDue, ExpireLease, Terminal, WorkerInv, NothingStranded
    <2>2. PICK r : event' = [event EXCEPT ![e] = r]
        BY <1>2 DEF TimeStep, BecomeDue, ExpireLease
    <2> QED
        BY <2>1, <2>2, OneEvent
<1>3. CASE UNCHANGED <<event, notif>>
    BY <1>3 DEF KeepsOutcomes
<1> QED
    BY <1>1, <1>2, <1>3, PollerKeepsOutcomes, HandlerKeepsOutcomes
        DEF Next, QueueStep, StallAfterCrash, StallWhileRunning, Stall, LoseJob, Crash, PollAborts,
            vars, ledger

\* A late handler, a duplicated job or a claim after a crash never reopens an
\* outcome that was recorded (finalizeNotificationSuccess and -Failure,
\* completeMediaDeletion, scheduleRetry).
THEOREM OutcomesAreFinal ==
    Spec => OutcomesFinal
<1>1. WorkerInv /\ [Next]_vars => [KeepsOutcomes]_vars
    BY OutcomesKept
<1> QED
    BY <1>1, WorkerInvariant, PTL DEF Spec, OutcomesFinal, KeepsOutcomes

=============================================================================
