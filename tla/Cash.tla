------------------------------- MODULE Cash -------------------------------
(***************************************************************************)
(* Cash on delivery (AdminCashService): recording what a courier or the    *)
(* store collected, allocating collections to a courier's remittance,      *)
(* its independent verification, and discrepancies of both.                *)
(***************************************************************************)
EXTENDS FulfilmentDb

REMITTABLE_COLLECTION_STATUSES == {"COLLECTED", "PARTIALLY_COLLECTED"}

cashDifference(expected, actual) == actual - expected

\* accountableCollectionMillimes is defined once a discrepancy is settled.
Accountable(d) ==
    IF db.col[d].disc = "RESOLVED" THEN db.ord[d].cod ELSE db.col[d].collected

Settled(d) ==
    IF db.col[d].disc = "NONE" THEN cashDifference(db.ord[d].cod, db.col[d].collected) = 0
                               ELSE db.col[d].disc \in {"RESOLVED", "WRITTEN_OFF"}

Allocated(d, R) == Total([r \in Remittances |-> db.rem[r].items[d]], R)

sumMillimes(items) == Total(items, Deliveries)

CollectedStatus(d) ==
    IF db.ord[d].pickup THEN "CASH_COLLECTED_AT_STORE" ELSE "CASH_COLLECTED_BY_COURIER"

-----------------------------------------------------------------------------
(* Collections *)

\* The idempotency key of a repeated request finds the collection recorded
\* and changes nothing, so a request counts once it is the first.
RecordCollectionBegin(s, u, d, amount) ==
    /\ db.col[d].status = "EXPECTED"
    /\ db.ord[d].status = db.del[d].status
    /\ db.ord[d].pay = "CASH_EXPECTED"
    /\ db.del[d].status = IF db.ord[d].pickup THEN "READY_FOR_PICKUP" ELSE "OUT_FOR_DELIVERY"
    /\ amount > 0
    /\ ~ db.ord[d].pickup => db.del[d].courier # None
    /\ Begin(s, "recordCollection", d,
             [by |-> u, amount |-> amount, courier |-> IF db.ord[d].pickup THEN None ELSE db.del[d].courier], {d}, {d})

\* Mutant: the updates without their conditions.
RecordCollectionBlindly(s) ==
    /\ Working(s, "recordCollection")
    /\ LET d == tx[s].on
           a == tx[s].arg
       IN /\ db' = [db EXCEPT
                !.col[d] = [status |-> "COLLECTED", collected |-> a.amount, courier |-> a.courier,
                            by |-> a.by, disc |-> IF a.amount = db.ord[d].cod THEN "NONE" ELSE "OPEN"],
                !.ord[d] = [db.ord[d] EXCEPT !.pay = CollectedStatus(d)]]
          /\ Increment(s, {d}, {d})

RecordCollectionCommit(s) ==
    /\ Working(s, "recordCollection")
    /\ LET d == tx[s].on
           a == tx[s].arg
           difference == cashDifference(db.ord[d].cod, a.amount)
       IN /\ db.col[d].status = "EXPECTED"
          /\ SameOrder(s, d) /\ db.ord[d].pay = "CASH_EXPECTED"
          /\ SameDelivery(s, d)
          /\ db' = [db EXCEPT
                !.col[d] = [status |-> IF difference < 0 THEN "PARTIALLY_COLLECTED" ELSE "COLLECTED",
                            collected |-> a.amount, courier |-> a.courier, by |-> a.by,
                            disc |-> IF difference = 0 THEN "NONE" ELSE "OPEN"],
                !.ord[d] = [db.ord[d] EXCEPT !.pay =
                    IF difference = 0 THEN CollectedStatus(d) ELSE "RECONCILIATION_DISCREPANCY"]]
          /\ Increment(s, {d}, {d})

\* resolveDiscrepancy reads the discrepancy, then resolveCollectionDiscrepancy
\* locks order, delivery and collection.
ResolveCollectionBegin(s, u, d, resolution) ==
    /\ db.col[d].disc = "OPEN"
    /\ db.col[d].status \in REMITTABLE_COLLECTION_STATUSES
    /\ db.ord[d].pay = "RECONCILIATION_DISCREPANCY"
    /\ db.col[d].by # u
    /\ \A r \in Remittances : db.rem[r].items[d] = 0
    /\ Begin(s, "resolveCollection", d, [resolution |-> resolution, status |-> db.col[d].status], {d}, {d})

\* An exact second count settles the collection, the only one of its order.
ResolveCollectionExact(s) ==
    LET d == tx[s].on IN
    /\ Working(s, "resolveCollection")
    /\ tx[s].arg.resolution = "RESOLVED"
    /\ db.col[d].disc = "OPEN"
    /\ db.col[d].status = tx[s].arg.status
    /\ SameOrder(s, d) /\ db.ord[d].pay = "RECONCILIATION_DISCREPANCY"
    /\ SameDelivery(s, d)
    /\ db' = [db EXCEPT !.col[d] = [db.col[d] EXCEPT !.status = "COLLECTED", !.disc = "RESOLVED"],
                        !.ord[d] = [db.ord[d] EXCEPT !.pay = CollectedStatus(d)]]
    /\ Increment(s, {d}, {d})

\* A write-off only closes the discrepancy.
ResolveCollectionWriteOff(s) ==
    /\ Working(s, "resolveCollection")
    /\ tx[s].arg.resolution = "WRITTEN_OFF"
    /\ db.col[tx[s].on].disc = "OPEN"
    /\ db' = [db EXCEPT !.col[tx[s].on] = [db.col[tx[s].on] EXCEPT !.disc = "WRITTEN_OFF"]]
    /\ Increment(s, {}, {})

-----------------------------------------------------------------------------
(* Remittances *)

\* What createRemittance checks of each collection on its view.
Remittable(d, c) ==
    /\ db.col[d].courier = c
    /\ db.col[d].status \in REMITTABLE_COLLECTION_STATUSES
    /\ Settled(d)

CreateRemittanceBegin(s, r, c, items) ==
    /\ db.rem[r].status = "FREE"
    /\ db.cour[c] # "SUSPENDED"
    /\ \E d \in Deliveries : items[d] > 0
    /\ \A d \in Deliveries : items[d] > 0 => Remittable(d, c)
    /\ Begin(s, "createRemittance", r,
             [courier |-> c, items |-> items, limit |-> [d \in Deliveries |-> Accountable(d)]], {}, {})

\* Mutant: what other remittances allocate is not counted again.
CreateRemittanceUncounted(s) ==
    /\ Working(s, "createRemittance")
    /\ LET r == tx[s].on
           a == tx[s].arg
       IN /\ db.rem[r].status = "FREE"
          /\ \A d \in Deliveries : a.items[d] <= a.limit[d]
          /\ db' = [db EXCEPT !.rem[r] = [db.rem[r] EXCEPT !.status = "DRAFT", !.courier = a.courier,
                                                           !.items = a.items]]
    /\ Increment(s, {}, {})

\* Orders, courier, collections and the items of the collections are locked;
\* the amounts already allocated are the newest ones.
CreateRemittanceCommit(s) ==
    /\ Working(s, "createRemittance")
    /\ ~ CourierLocked(tx[s].arg.courier)
    /\ LET r == tx[s].on
           a == tx[s].arg
       IN /\ db.rem[r].status = "FREE"
          /\ \A d \in Deliveries :
               a.items[d] > 0 => Allocated(d, Remittances) + a.items[d] <= a.limit[d]
          /\ db' = [db EXCEPT !.rem[r] = [db.rem[r] EXCEPT !.status = "DRAFT", !.courier = a.courier,
                                                           !.items = a.items]]
    /\ Increment(s, {}, {})

\* The remittance is locked before its first read: one step.
SubmitRemittance(u, r) ==
    /\ "cash" \in ops
    /\ ~ RemittanceLocked(r)
    /\ db.rem[r].status = "DRAFT"
    /\ db' = [db EXCEPT !.rem[r] = [db.rem[r] EXCEPT !.status = "SUBMITTED", !.receiver = u]]
    /\ UNCHANGED tx

ItemsOf(r) == {d \in Deliveries : db.rem[r].items[d] > 0}

\* Mutant: remittances that are not verified count as well.
VerifiedWithAny(d, r) == Allocated(d, Remittances)

\* What applyVerifiedAllocations sums up: this remittance and the verified
\* ones of the read view.
VerifiedWith(d, r) ==
    Allocated(d, {r} \cup {q \in Remittances : db.rem[q].status = "VERIFIED"})

\* What it refuses: unsettled discrepancies and amounts above the balance.
Verifiable(r) ==
    \A d \in ItemsOf(r) : Settled(d) /\ VerifiedWith(d, r) <= Accountable(d)

\* A collection covered completely becomes REMITTED, and its order
\* CASH_REMITTED when that is the amount it expects.
AllocationView(r) ==
    LET covered == {d \in ItemsOf(r) : VerifiedWith(d, r) = Accountable(d)} IN
    [covered |-> covered,
     paid    |-> {d \in covered : Accountable(d) = db.ord[d].cod},
     was     |-> [d \in covered |-> db.col[d].status]]

\* The updates are conditional on the collection's status and the order's
\* version in the view; VERIFIED is the remittance's new status.
ApplyVerifiedAllocations(s, r, disc) ==
    LET v == tx[s].arg.view IN
    /\ \A d \in v.covered : db.col[d].status = v.was[d]
    /\ \A d \in v.paid : SameOrder(s, d)
    /\ db' = [db EXCEPT
                !.col = [d \in Deliveries |-> IF d \in v.covered
                           THEN [db.col[d] EXCEPT !.status = "REMITTED"] ELSE db.col[d]],
                !.ord = [d \in Deliveries |-> IF d \in v.paid
                           THEN [db.ord[d] EXCEPT !.pay = "CASH_REMITTED"] ELSE db.ord[d]],
                !.rem[r] = [db.rem[r] EXCEPT !.status = "VERIFIED", !.verifier = tx[s].arg.by,
                                             !.disc = disc]]
    /\ Increment(s, {}, v.paid)

\* The remittance is locked before the view, its cash after it.
ReconcileBegin(s, u, r, verified) ==
    LET difference == cashDifference(sumMillimes(db.rem[r].items), verified) IN
    /\ ~ RemittanceLocked(r)
    /\ db.rem[r].status = "SUBMITTED"
    /\ db.rem[r].receiver # u
    /\ \A d \in ItemsOf(r) :
         /\ db.col[d].courier = db.rem[r].courier
         /\ db.col[d].status \in REMITTABLE_COLLECTION_STATUSES
    /\ difference = 0 => Verifiable(r)
    /\ Begin(s, "reconcileRemittance", r,
             [by |-> u, exact |-> difference = 0, view |-> AllocationView(r)], {}, ItemsOf(r))

ReconcileExact(s) ==
    /\ Working(s, "reconcileRemittance")
    /\ tx[s].arg.exact
    /\ ApplyVerifiedAllocations(s, tx[s].on, "NONE")

ReconcileDiscrepancy(s) ==
    LET r == tx[s].on IN
    /\ Working(s, "reconcileRemittance")
    /\ ~ tx[s].arg.exact
    /\ \A d \in ItemsOf(r) : SameOrder(s, d)
    /\ db' = [db EXCEPT
                !.rem[r] = [db.rem[r] EXCEPT !.status = "DISCREPANCY", !.verifier = tx[s].arg.by,
                                             !.disc = "OPEN"],
                !.ord = [d \in Deliveries |-> IF d \in ItemsOf(r)
                           THEN [db.ord[d] EXCEPT !.pay = "RECONCILIATION_DISCREPANCY"] ELSE db.ord[d]]]
    /\ Increment(s, {}, ItemsOf(r))

\* resolveDiscrepancy's first read is the view of resolveRemittanceDiscrepancy;
\* the one who opened the discrepancy is the verifier of the remittance.
ResolveRemittanceBegin(s, u, r, resolution) ==
    /\ db.rem[r].disc = "OPEN"
    /\ db.rem[r].status = "DISCREPANCY"
    /\ u \notin {db.rem[r].verifier, db.rem[r].receiver}
    /\ resolution = "RESOLVED" => Verifiable(r)
    /\ Begin(s, "resolveRemittance", r,
             [by |-> u, resolution |-> resolution, view |-> AllocationView(r)], {}, ItemsOf(r))

ResolveRemittanceExact(s) ==
    /\ Working(s, "resolveRemittance")
    /\ tx[s].arg.resolution = "RESOLVED"
    /\ db.rem[tx[s].on].disc = "OPEN"
    /\ ApplyVerifiedAllocations(s, tx[s].on, "RESOLVED")

ResolveRemittanceWriteOff(s) ==
    /\ Working(s, "resolveRemittance")
    /\ tx[s].arg.resolution = "WRITTEN_OFF"
    /\ db.rem[tx[s].on].disc = "OPEN"
    /\ db' = [db EXCEPT !.rem[tx[s].on] = [db.rem[tx[s].on] EXCEPT !.disc = "WRITTEN_OFF"]]
    /\ Increment(s, {}, {})
=============================================================================
