----------------------------- MODULE Delivery -----------------------------
(***************************************************************************)
(* Delivery operations of administrators: assignment to couriers, status   *)
(* transitions, attempts and completion (AdminDeliveriesService), courier  *)
(* records, dispatch manifests and status CSV imports                      *)
(* (AdminDeliveryOperationsService), and the order transitions that move a *)
(* delivery (AdminOrdersService).                                          *)
(***************************************************************************)
EXTENDS FulfilmentDb

Mirrored(d) == db.ord[d].status = db.del[d].status

\* lockDelivery reads the delivery before it locks order and delivery, so
\* the handlers below work on the versions of that read view.
DeliveryBegin(s, op, d, arg) ==
    Begin(s, op, d, arg, {d}, {d})

\* A handler whose only update is conditional on the delivery's version.
UpdateDelivery(s, row) ==
    /\ SameDelivery(s, tx[s].on)
    /\ db' = [db EXCEPT !.del[tx[s].on] = row]
    /\ Increment(s, {tx[s].on}, {})

\* Mutant: both updates without their version conditions.
UpdateMirroredStatusUnversioned(s, target, age) ==
    LET d == tx[s].on IN
    /\ db' = [db EXCEPT !.del[d] = [db.del[d] EXCEPT !.status = target, !.age = age],
                        !.ord[d] = [db.ord[d] EXCEPT !.status = target]]
    /\ Increment(s, {d}, {d})

UpdateMirroredStatus(s, target, age) ==
    LET d == tx[s].on IN
    /\ SameDelivery(s, d)
    /\ SameOrder(s, d)
    /\ db' = [db EXCEPT !.del[d] = [db.del[d] EXCEPT !.status = target, !.age = age],
                        !.ord[d] = [db.ord[d] EXCEPT !.status = target]]
    /\ Increment(s, {d}, {d})

-----------------------------------------------------------------------------
(* Assignment *)

DELIVERY_ASSIGNMENT_STATUSES == {"CONFIRMED", "PREPARING", "ASSIGNED_TO_COURIER"}

\* assign and reassign: the courier is locked, but its row is read from the
\* view taken before.  Warnings about zone and capacity are acknowledged.
AssignmentBegin(s, d, c) ==
    /\ ~ db.ord[d].pickup
    /\ db.del[d].status \in DELIVERY_ASSIGNMENT_STATUSES
    /\ Mirrored(d)
    /\ db.del[d].courier # c
    /\ db.cour[c] = "AVAILABLE"
    /\ DeliveryBegin(s, "assignment", d, c)

AssignmentCommit(s) ==
    /\ Working(s, "assignment")
    /\ ~ CourierLocked(tx[s].arg)
    /\ UpdateDelivery(s, [db.del[tx[s].on] EXCEPT !.courier = tx[s].arg])

ActiveManifests(d) ==
    {m \in Manifests : d \in db.man[m].items /\ db.man[m].status \in {"DRAFT", "SEALED", "HANDED_OVER"}}

UnassignBegin(s, d) ==
    /\ db.del[d].courier # None
    /\ db.del[d].status \in {"CONFIRMED", "PREPARING"}
    /\ Mirrored(d)
    /\ ActiveManifests(d) = {}
    /\ DeliveryBegin(s, "unassign", d, None)

UnassignCommit(s) ==
    /\ Working(s, "unassign")
    /\ UpdateDelivery(s, [db.del[tx[s].on] EXCEPT !.courier = None])

\* updateInternalNotes and recordCourierWhatsAppContact: the text is not
\* modelled, the new version is.
AnnotateBegin(s, d) == DeliveryBegin(s, "annotate", d, None)

AnnotateCommit(s) ==
    /\ Working(s, "annotate")
    /\ UpdateDelivery(s, db.del[tx[s].on])

-----------------------------------------------------------------------------
(* The life of a delivery *)

TransitionAllowed(d, target) ==
    /\ target \in OPERATIONAL_DELIVERY_TARGETS
    /\ canTransitionDelivery(db.del[d].status, target)
    /\ Mirrored(d)
    /\ target \in COURIER_REQUIRED_TARGETS => db.del[d].courier # None

TransitionBegin(s, d, target) ==
    /\ TransitionAllowed(d, target)
    /\ DeliveryBegin(s, "transition", d, target)

TransitionCommit(s) ==
    /\ Working(s, "transition")
    /\ UpdateMirroredStatus(s, tx[s].arg, db.del[tx[s].on].age)

ATTEMPT_OUTCOME_STATUS ==
    [CUSTOMER_UNAVAILABLE |-> "DELIVERY_ATTEMPTED", ADDRESS_NOT_FOUND |-> "FAILED",
     CUSTOMER_REFUSED |-> "REFUSED", FAILED_AGE_VERIFICATION |-> "FAILED",
     PARTIAL_CASH_NOT_ALLOWED |-> "FAILED", RESCHEDULED |-> "RESCHEDULED",
     OTHER_FAILED |-> "FAILED"]

RecordAttemptBegin(s, d, outcome) ==
    /\ db.del[d].status = "OUT_FOR_DELIVERY"
    /\ Mirrored(d)
    /\ canTransitionDelivery(db.del[d].status, ATTEMPT_OUTCOME_STATUS[outcome])
    /\ DeliveryBegin(s, "recordAttempt", d,
           [to |-> ATTEMPT_OUTCOME_STATUS[outcome],
            age |-> IF outcome = "FAILED_AGE_VERIFICATION" THEN "FAILED" ELSE db.del[d].age])

RecordAttemptCommit(s) ==
    /\ Working(s, "recordAttempt")
    /\ UpdateMirroredStatus(s, tx[s].arg.to, tx[s].arg.age)

\* accountableCashForDeliveryCompletion: an amount below the order's when
\* the handler refuses the completion.
CashForCompletion(d) ==
    LET col == db.col[d] IN
    IF col.status \notin {"COLLECTED", "REMITTED"} THEN 0
    ELSE CASE col.disc = "NONE" -> col.collected
           [] col.disc = "RESOLVED" -> db.ord[d].cod
           [] OTHER -> 0

\* Mutant: an open or written-off discrepancy does not stop the completion.
CompleteBeginInDispute(s, d) ==
    /\ db.del[d].status = IF db.ord[d].pickup THEN "READY_FOR_PICKUP" ELSE "OUT_FOR_DELIVERY"
    /\ Mirrored(d)
    /\ db.del[d].age # "FAILED"
    /\ db.col[d].collected > 0
    /\ DeliveryBegin(s, "complete", d, "PASSED")

CompleteBegin(s, d) ==
    /\ db.del[d].status = IF db.ord[d].pickup THEN "READY_FOR_PICKUP" ELSE "OUT_FOR_DELIVERY"
    /\ Mirrored(d)
    /\ ~ db.ord[d].pickup => db.del[d].courier # None
    /\ db.del[d].age # "FAILED"
    /\ CashForCompletion(d) = db.ord[d].cod
    /\ db.ord[d].pay \in {"CASH_COLLECTED_BY_COURIER", "CASH_COLLECTED_AT_STORE", "CASH_REMITTED"}
    /\ DeliveryBegin(s, "complete", d, "PASSED")

CompleteCommit(s) ==
    /\ Working(s, "complete")
    /\ UpdateMirroredStatus(s, "DELIVERED", tx[s].arg)

CompleteReturnBegin(s, d) ==
    /\ db.del[d].status = "RETURN_TO_SENDER"
    /\ Mirrored(d)
    /\ DeliveryBegin(s, "completeReturn", d, None)

CompleteReturnCommit(s) ==
    /\ Working(s, "completeReturn")
    /\ UpdateMirroredStatus(s, "RETURNED", db.del[tx[s].on].age)

\* AdminOrdersService locks the order before its first read: one step.
\* The row locks of createManifest and reconcileRemittance are not the
\* order's until their commit.
PrepareOrder(d) ==
    /\ "orders" \in ops
    /\ db.ord[d].status = "CONFIRMED" /\ Mirrored(d)
    /\ db' = Mirror(db, [x \in {d} |-> "PREPARING"])
    /\ Increment(None, {d}, {d})

ReadyForPickup(d) ==
    /\ "orders" \in ops
    /\ db.ord[d].status = "PREPARING" /\ Mirrored(d)
    /\ db.ord[d].pickup
    /\ db' = Mirror(db, [x \in {d} |-> "READY_FOR_PICKUP"])
    /\ Increment(None, {d}, {d})

\* terminate: an expected collection is voided with the order.
CancelOrder(d) ==
    /\ "orders" \in ops
    /\ db.ord[d].status \in EARLY_CANCELLATION_STATUSES /\ Mirrored(d)
    /\ db.col[d].status \in {"EXPECTED", "VOIDED"}
    /\ db.ord[d].pay = "CASH_EXPECTED"
    /\ db' = [db EXCEPT
                !.del[d] = [db.del[d] EXCEPT !.status = "CANCELLED"],
                !.ord[d] = [db.ord[d] EXCEPT !.status = "CANCELLED", !.pay = "CANCELLED"],
                !.col[d] = [db.col[d] EXCEPT !.status =
                               IF db.col[d].status = "EXPECTED" THEN "VOIDED" ELSE db.col[d].status]]
    /\ Increment(None, {d}, {d})

-----------------------------------------------------------------------------
(* Couriers *)

\* updateManualCourier locks the courier first.  A courier is suspended
\* only when it has no delivery under way and no active manifest.
UpdateManualCourier(c, to) ==
    /\ "couriers" \in ops
    /\ ~ CourierLocked(c)
    /\ to # db.cour[c]
    /\ to = "SUSPENDED" =>
         /\ \A d \in Deliveries : db.del[d].courier = c => db.del[d].status \in TERMINAL_DELIVERY_STATUSES
         /\ \A m \in Manifests : db.man[m].courier = c => db.man[m].status \in {"FREE", "CLOSED", "CANCELLED"}
    /\ db' = [db EXCEPT !.cour[c] = to]
    /\ UNCHANGED tx

-----------------------------------------------------------------------------
(* Manifests *)

\* The courier is locked before the view is taken, the deliveries after it.
CreateManifestBegin(s, m, c, D) ==
    /\ db.man[m].status = "FREE"
    /\ D # {}
    /\ ~ CourierLocked(c)
    /\ db.cour[c] # "SUSPENDED"
    /\ \A d \in D :
         /\ ~ db.ord[d].pickup
         /\ db.del[d].courier = c
         /\ db.del[d].status = "ASSIGNED_TO_COURIER" /\ Mirrored(d)
         /\ ActiveManifests(d) = {}
    /\ Begin(s, "createManifest", m, [courier |-> c, items |-> D], {}, {})

\* No row of the view is rewritten, so nothing shows that it is outdated.
CreateManifestCommit(s) ==
    /\ Working(s, "createManifest")
    /\ db.man[tx[s].on].status = "FREE"
    /\ db' = [db EXCEPT !.man[tx[s].on] =
                [status |-> "DRAFT", courier |-> tx[s].arg.courier, items |-> tx[s].arg.items]]
    /\ Increment(s, {}, {})

canTransitionManifest(from, to) ==
    \/ from = "DRAFT" /\ to \in {"SEALED", "CANCELLED"}
    \/ from = "SEALED" /\ to \in {"HANDED_OVER", "CANCELLED"}
    \/ from = "HANDED_OVER" /\ to = "CLOSED"

ManifestAssigned(m) ==
    \A d \in db.man[m].items :
        db.del[d].courier = db.man[m].courier /\ db.del[d].status = "ASSIGNED_TO_COURIER" /\ Mirrored(d)

TransitionManifestBegin(s, m, target) ==
    /\ ~ ManifestLocked(m)
    /\ canTransitionManifest(db.man[m].status, target)
    /\ target = "SEALED" => db.cour[db.man[m].courier] # "SUSPENDED"
    /\ target \in {"SEALED", "HANDED_OVER"} => ManifestAssigned(m)
    /\ target = "CLOSED" => \A d \in db.man[m].items : db.del[d].status \in TERMINAL_DELIVERY_STATUSES
    /\ Begin(s, "transitionManifest", m, target, db.man[m].items, db.man[m].items)

\* Mutant: the items are moved without their version conditions.
TransitionManifestUnversioned(s) ==
    /\ Working(s, "transitionManifest")
    /\ LET m == tx[s].on
           items == IF tx[s].arg = "HANDED_OVER" THEN db.man[m].items ELSE {}
       IN /\ db' = [Mirror(db, [d \in items |-> "HANDED_TO_COURIER"])
                      EXCEPT !.man[m] = [db.man[m] EXCEPT !.status = tx[s].arg]]
          /\ Increment(s, items, items)

\* A handover moves every item and its order with the manifest.
TransitionManifestCommit(s) ==
    /\ Working(s, "transitionManifest")
    /\ LET m == tx[s].on
           items == IF tx[s].arg = "HANDED_OVER" THEN db.man[m].items ELSE {}
       IN /\ \A d \in items : SameDelivery(s, d) /\ SameOrder(s, d)
          /\ db' = [Mirror(db, [d \in items |-> "HANDED_TO_COURIER"])
                      EXCEPT !.man[m] = [db.man[m] EXCEPT !.status = tx[s].arg]]
          /\ Increment(s, items, items)

-----------------------------------------------------------------------------
(* Status CSV *)

\* importStatusCsv: rows is a target per delivery.  One invalid row rejects
\* the file; its key is used up either way.
ImportBegin(s, key, rows) ==
    /\ key \notin db.imports
    /\ LET valid == \A d \in DOMAIN rows : TransitionAllowed(d, rows[d])
           D == IF valid THEN DOMAIN rows ELSE {}
       IN Begin(s, "import", key, [d \in D |-> rows[d]], D, D)

ImportCommit(s) ==
    /\ Working(s, "import")
    /\ tx[s].on \notin db.imports
    /\ \A d \in DOMAIN tx[s].arg : SameDelivery(s, d) /\ SameOrder(s, d)
    /\ db' = [Mirror(db, tx[s].arg) EXCEPT !.imports = db.imports \cup {tx[s].on}]
    /\ Increment(s, DOMAIN tx[s].arg, DOMAIN tx[s].arg)
=============================================================================
