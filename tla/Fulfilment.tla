---------------------------- MODULE Fulfilment ----------------------------
(***************************************************************************)
(* Delivery operations and cash reconciliation over the same orders.       *)
(***************************************************************************)
EXTENDS Delivery, Cash

NoRemittance ==
    [status |-> "FREE", courier |-> None, items |-> [d \in Deliveries |-> 0],
     receiver |-> None, verifier |-> None, disc |-> "NONE"]

\* Instances begin with orders confirmed or further on their way, paid at
\* the door or not yet; a cancelled order expects nothing.
StartOrder(o) ==
    [status |-> o.status, pickup |-> o.pickup, cod |-> o.cod,
     pay |-> CASE o.status = "CANCELLED" -> "CANCELLED"
               [] o.paid -> "CASH_COLLECTED_BY_COURIER"
               [] OTHER -> "CASH_EXPECTED"]

StartCollection(o, u) ==
    IF o.paid
    THEN [status |-> "COLLECTED", collected |-> o.cod, courier |-> o.courier,
          by |-> u, disc |-> "NONE"]
    ELSE [status |-> IF o.status = "CANCELLED" THEN "VOIDED" ELSE "EXPECTED",
          collected |-> 0, courier |-> None, by |-> None, disc |-> "NONE"]

FulfilmentInit ==
    \E sc \in Scenarios, u \in Admins :
        /\ ops = sc.ops
        /\ tx = [s \in Sessions |-> None]
        /\ db = [ord |-> [d \in Deliveries |-> StartOrder(sc.start[d])],
                 del |-> [d \in Deliveries |->
                            [status |-> sc.start[d].status, courier |-> sc.start[d].courier,
                             age |-> "NOT_PERFORMED"]],
                 col |-> [d \in Deliveries |-> StartCollection(sc.start[d], u)],
                 rem |-> [r \in Remittances |-> NoRemittance],
                 man |-> [m \in Manifests |-> [status |-> "FREE", courier |-> None, items |-> {}]],
                 cour |-> [c \in Couriers |-> "AVAILABLE"],
                 imports |-> {}]

DeliveryStep(s) ==
    \/ \E d \in Deliveries, c \in Couriers : AssignmentBegin(s, d, c)
    \/ AssignmentCommit(s)
    \/ \E d \in Deliveries : UnassignBegin(s, d)
    \/ UnassignCommit(s)
    \/ \E d \in Deliveries : AnnotateBegin(s, d)
    \/ AnnotateCommit(s)
    \/ \E d \in Deliveries, t \in OPERATIONAL_DELIVERY_TARGETS : TransitionBegin(s, d, t)
    \/ TransitionCommit(s)
    \/ \E d \in Deliveries, o \in DOMAIN ATTEMPT_OUTCOME_STATUS : RecordAttemptBegin(s, d, o)
    \/ RecordAttemptCommit(s)
    \/ \E d \in Deliveries : CompleteBegin(s, d)
    \/ CompleteCommit(s)
    \/ \E d \in Deliveries : CompleteReturnBegin(s, d)
    \/ CompleteReturnCommit(s)
    \/ \E m \in Manifests, c \in Couriers, D \in SUBSET Deliveries : CreateManifestBegin(s, m, c, D)
    \/ CreateManifestCommit(s)
    \/ \E m \in Manifests, t \in {"SEALED", "HANDED_OVER", "CLOSED", "CANCELLED"} :
           TransitionManifestBegin(s, m, t)
    \/ TransitionManifestCommit(s)
    \/ \E k \in ImportKeys, D \in SUBSET Deliveries :
           \E rows \in [D -> CsvTargets] : ImportBegin(s, k, rows)
    \/ ImportCommit(s)

CashStep(s) ==
    \/ \E u \in Admins, d \in Deliveries, a \in 1..MaxAmount : RecordCollectionBegin(s, u, d, a)
    \/ RecordCollectionCommit(s)
    \/ \E u \in Admins, d \in Deliveries, x \in {"RESOLVED", "WRITTEN_OFF"} :
           ResolveCollectionBegin(s, u, d, x)
    \/ ResolveCollectionExact(s) \/ ResolveCollectionWriteOff(s)
    \/ \E r \in Remittances, c \in Couriers, items \in [Deliveries -> 0..MaxAmount] :
           CreateRemittanceBegin(s, r, c, items)
    \/ CreateRemittanceCommit(s)
    \/ \E u \in Admins, r \in Remittances, v \in 0..MaxAmount : ReconcileBegin(s, u, r, v)
    \/ ReconcileExact(s) \/ ReconcileDiscrepancy(s)
    \/ \E u \in Admins, r \in Remittances, x \in {"RESOLVED", "WRITTEN_OFF"} :
           ResolveRemittanceBegin(s, u, r, x)
    \/ ResolveRemittanceExact(s) \/ ResolveRemittanceWriteOff(s)

OneStep ==
    \/ \E d \in Deliveries : PrepareOrder(d) \/ ReadyForPickup(d) \/ CancelOrder(d)
    \/ \E c \in Couriers, to \in CourierRow : UpdateManualCourier(c, to)
    \/ \E u \in Admins, r \in Remittances : SubmitRemittance(u, r)

FulfilmentNext ==
    /\ \/ \E s \in Sessions : DeliveryStep(s) \/ CashStep(s) \/ Abort(s)
       \/ OneStep
    /\ UNCHANGED ops

FulfilmentSpec == FulfilmentInit /\ [][FulfilmentNext]_vars

-----------------------------------------------------------------------------
(* Properties *)

\* Every row has its declared type.
FulfilmentTypeOK == db \in Rows

\* A delivery and its order move together and only along the transition
\* table or into an early cancellation, whatever two handlers of different
\* services decide on outdated views (updateMirroredStatus,
\* applyDeliveryTransition, transitionIntake, terminate).
OnlyLegalMoves ==
    [][\A d \in Deliveries :
         LET from == db.del[d].status
             to   == db'.del[d].status
         IN /\ db'.ord[d].status = to
            /\ to # from => \/ canTransitionDelivery(from, to)
                            \/ to = "CANCELLED" /\ from \in EARLY_CANCELLATION_STATUSES]_vars

\* The deliveries on a manifest that was handed over are in its courier's
\* hands or finished: no reassignment, import or cancellation slips between
\* the check of transitionManifest and its updates.
HandedOverInCustody ==
    \A m \in Manifests : db.man[m].status \in {"HANDED_OVER", "CLOSED"} =>
        \A d \in db.man[m].items :
            /\ db.del[d].courier = db.man[m].courier
            /\ db.del[d].status \notin EARLY_CANCELLATION_STATUSES \cup {"CANCELLED"}

\* A delivered order is paid, its collection complete or settled by an exact
\* second count and the age check passed (complete), and no cash is taken for
\* one that is cancelled, although the store may record a collection while an
\* administrator cancels (recordCollection, terminate).
PaymentFollowsDelivery ==
    \A d \in Deliveries :
        /\ db.del[d].status = "DELIVERED" =>
            /\ db.col[d].status \in {"COLLECTED", "REMITTED"}
            /\ Settled(d) /\ Accountable(d) = db.ord[d].cod
            /\ db.del[d].age = "PASSED"
        /\ db.ord[d].status = "CANCELLED" =>
            /\ db.col[d].status = "VOIDED" /\ db.col[d].collected = 0
            /\ db.ord[d].pay = "CANCELLED"

\* No collection is handed over more than once: what remittances allocate of
\* it never exceeds its balance (createRemittance).
NoOverAllocation ==
    \A d \in Deliveries : Allocated(d, Remittances) <=
        IF Settled(d) THEN Accountable(d) ELSE 0

\* A collection counts as remitted only when verified remittances cover it,
\* and an order only when its collection does (applyVerifiedAllocations).
RemittedIsVerified ==
    \A d \in Deliveries :
        /\ db.col[d].status = "REMITTED" =>
             Allocated(d, {r \in Remittances : db.rem[r].status = "VERIFIED"}) = Accountable(d)
        /\ db.ord[d].pay = "CASH_REMITTED" <=>
             db.col[d].status = "REMITTED" /\ Accountable(d) = db.ord[d].cod

\* Recorded cash is not rewritten: a collected amount stands, and what is
\* remitted or verified stays so.
CashRecordsStand ==
    [][/\ \A d \in Deliveries :
            /\ db.col[d].collected > 0 => db'.col[d].collected = db.col[d].collected
            /\ db.col[d].status = "REMITTED" => db'.col[d].status = "REMITTED"
       /\ \A r \in Remittances :
            /\ db.rem[r].status = "VERIFIED" => db'.rem[r] = db.rem[r]
            /\ db.rem[r].status # "FREE" => db'.rem[r].items = db.rem[r].items]_vars

\* Once verified remittances cover a collection, it is remitted
\* (applyVerifiedAllocations).
VerifiedIsRemitted ==
    \A d \in Deliveries :
        (Allocated(d, {r \in Remittances : db.rem[r].status = "VERIFIED"}) = Accountable(d)
            /\ db.col[d].collected > 0)
        => db.col[d].status = "REMITTED"

\* An attempt that met nobody is rescheduled or returned.
AttemptedGoesOn ==
    \A d \in Deliveries :
        db.del[d].status = "DELIVERY_ATTEMPTED" ~> db.del[d].status # "DELIVERY_ATTEMPTED"

\* Administrators finish what they begin and keep working on a delivery.
FairFulfilmentSpec ==
    /\ FulfilmentSpec
    /\ \A s \in Sessions : WF_vars(DeliveryStep(s) /\ UNCHANGED ops)
    /\ WF_vars(OneStep /\ UNCHANGED ops)

-----------------------------------------------------------------------------
(* The inductive invariant behind the theorems about Fulfilment.  A request *)
(* that works on the version of a row it has read knows that row while its *)
(* version is unchanged; what it knows is all that its commit relies on.   *)

\* A collection that holds cash.
Banked(d) == db.col[d].status \in {"COLLECTED", "PARTIALLY_COLLECTED", "REMITTED"}

\* A delivery and its order have one status, a collection with cash has an
\* amount, and one without has no amount and no discrepancy.
RowsOK ==
    \A d \in Deliveries :
        /\ Mirrored(d)
        /\ Banked(d) => db.col[d].collected > 0
        /\ ~Banked(d) => db.col[d].collected = 0 /\ db.col[d].disc = "NONE"

\* A remittance that is not there yet allocates nothing, and an open
\* discrepancy is that of a remittance in discrepancy.
RemittancesOK ==
    \A r \in Remittances :
        /\ db.rem[r].status = "FREE" => \A d \in Deliveries : db.rem[r].items[d] = 0
        /\ db.rem[r].disc = "OPEN" => db.rem[r].status = "DISCREPANCY"

\* The version of both rows of a delivery is that of the view.
Known(t, d) == d \in t.dels /\ d \in t.ords

\* What the requests on one delivery know about it.
DeliveryTxOK(t) ==
    /\ t.op \in {"assignment", "unassign", "annotate", "transition", "recordAttempt", "complete",
                 "completeReturn", "recordCollection", "resolveCollection"} => t.on \in Deliveries
    /\ t.op \in {"assignment", "unassign"} /\ t.on \in t.dels =>
          db.del[t.on].status \in EARLY_CANCELLATION_STATUSES
    /\ t.op = "assignment" => t.arg \in Couriers
    /\ t.op = "transition" =>
          /\ t.arg \in OPERATIONAL_DELIVERY_TARGETS
          /\ Known(t, t.on) => canTransitionDelivery(db.del[t.on].status, t.arg)
    /\ t.op = "recordAttempt" =>
          /\ t.arg.to \in {"DELIVERY_ATTEMPTED", "FAILED", "REFUSED", "RESCHEDULED"}
          /\ t.arg.age \in {"NOT_PERFORMED", "PASSED", "FAILED"}
          /\ Known(t, t.on) => canTransitionDelivery(db.del[t.on].status, t.arg.to)
    /\ t.op = "complete" =>
          /\ t.arg = "PASSED"
          /\ Known(t, t.on) => /\ db.del[t.on].status \in {"READY_FOR_PICKUP", "OUT_FOR_DELIVERY"}
                               /\ CashForCompletion(t.on) = db.ord[t.on].cod
    /\ t.op = "completeReturn" /\ Known(t, t.on) => db.del[t.on].status = "RETURN_TO_SENDER"

\* What the requests on several deliveries know about them.
BatchTxOK(t) ==
    /\ t.op = "createManifest" =>
          t.on \in Manifests /\ t.arg.courier \in Couriers /\ t.arg.items \in SUBSET Deliveries
    /\ t.op = "transitionManifest" =>
          /\ t.on \in Manifests
          /\ canTransitionManifest(db.man[t.on].status, t.arg)
          /\ t.arg = "HANDED_OVER" =>
                \A d \in db.man[t.on].items : d \in t.dels =>
                    /\ db.del[d].courier = db.man[t.on].courier
                    /\ db.del[d].status = "ASSIGNED_TO_COURIER"
    /\ t.op = "import" =>
          /\ t.on \in ImportKeys /\ DOMAIN t.arg \in SUBSET Deliveries
          /\ \A d \in DOMAIN t.arg :
                /\ t.arg[d] \in OPERATIONAL_DELIVERY_TARGETS
                /\ Known(t, d) => canTransitionDelivery(db.del[d].status, t.arg[d])

\* The collections a verification covers stay covered: nothing can be
\* allocated of them beyond their balance, and their balance is settled.
ViewOK(t) ==
    LET v == t.arg.view IN
    /\ v.covered \in SUBSET Deliveries
    /\ v.paid = {d \in v.covered : Accountable(d) = db.ord[d].cod}
    /\ \A d \in v.covered :
          /\ Settled(d) /\ Banked(d)
          /\ VerifiedWith(d, t.on) = Accountable(d)

\* What the requests about cash know.
CashTxOK(t) ==
    /\ t.op = "recordCollection" =>
          /\ t.arg.amount \in 1..MaxAmount /\ t.arg.by \in Admins
          /\ t.arg.courier \in Couriers \cup {None}
    /\ t.op = "resolveCollection" => t.arg.status \in REMITTABLE_COLLECTION_STATUSES
    /\ t.op = "createRemittance" =>
          /\ t.on \in Remittances /\ t.arg.courier \in Couriers
          /\ t.arg.items \in [Deliveries -> 0..MaxAmount]
          /\ \A d \in Deliveries : t.arg.items[d] > 0 =>
                Settled(d) /\ Banked(d) /\ t.arg.limit[d] = Accountable(d)
    /\ t.op \in {"reconcileRemittance", "resolveRemittance"} =>
          t.on \in Remittances /\ t.arg.by \in Admins /\ ViewOK(t)
    /\ t.op = "reconcileRemittance" =>
          /\ db.rem[t.on].status = "SUBMITTED"
          /\ \A d \in Deliveries : d \in t.ords => db.ord[d].pay # "CASH_REMITTED"

\* A manifest and a remittance are locked by one request at a time.
LocksExclusive ==
    \A s, q \in Sessions : \A op \in {"transitionManifest", "reconcileRemittance"} :
        Working(s, op) /\ Working(q, op) /\ tx[s].on = tx[q].on => s = q

TxOK == \A s \in Sessions :
    tx[s] # None => DeliveryTxOK(tx[s]) /\ BatchTxOK(tx[s]) /\ CashTxOK(tx[s])

FulfilmentInv ==
    /\ FulfilmentTypeOK
    /\ DOMAIN tx = Sessions
    /\ RowsOK
    /\ RemittancesOK
    /\ LocksExclusive
    /\ TxOK
    /\ HandedOverInCustody
    /\ PaymentFollowsDelivery
    /\ NoOverAllocation
    /\ RemittedIsVerified

=============================================================================
