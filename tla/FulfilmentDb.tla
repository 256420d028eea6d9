--------------------------- MODULE FulfilmentDb ---------------------------
(***************************************************************************)
(* The rows delivery operations and cash reconciliation share, and the     *)
(* scaffolding of their transactions.  An order has one delivery and one   *)
(* cash collection, so all three are indexed by the delivery.              *)
(*                                                                         *)
(* MySQL runs the transactions under REPEATABLE READ: the first plain read *)
(* fixes a read view that every later plain read answers from, while       *)
(* SELECT ... FOR UPDATE and the conditions of an UPDATE see the newest    *)
(* rows.  A handler that reads before it locks therefore has two steps:    *)
(* XBegin checks what the handler checks on its view and keeps what it     *)
(* will use of it, XCommit takes the locks and makes the conditional       *)
(* updates.  A handler that locks the contended row first is one step.     *)
(***************************************************************************)
EXTENDS Integers, FiniteSets, Sums

CONSTANTS
    None,           \* a NULL reference, an idle session
    Sessions,       \* requests of administrators under way
    Admins,         \* their user identities
    Deliveries, Couriers, Manifests, Remittances,
    ImportKeys,     \* importKey of a status CSV
    CsvTargets,     \* the operational targets the rows of a CSV name
    MaxAmount,      \* bound on amounts counted or allocated
    Scenarios       \* [ops, start]: the handlers an instance exercises and the
                    \* [status, courier, pickup, cod, paid] each delivery starts in

ASSUME FulfilmentAssumption ==
    /\ MaxAmount \in Nat \ {0}
    /\ None \notin Couriers \cup Admins
    /\ IsFiniteSet(Remittances)

VARIABLES
    db,     \* the committed rows
    tx,     \* what each session keeps of its read view, or None
    ops     \* the handlers this instance exercises, never changed

vars == <<db, tx, ops>>

DELIVERY_TRANSITIONS ==
    [PENDING_CONFIRMATION |-> {},
     CONFIRMED            |-> {"ON_HOLD", "PREPARING"},
     ON_HOLD              |-> {"CONFIRMED"},
     PREPARING            |-> {"READY_FOR_PICKUP", "ASSIGNED_TO_COURIER"},
     READY_FOR_PICKUP     |-> {"DELIVERED"},
     ASSIGNED_TO_COURIER  |-> {"HANDED_TO_COURIER"},
     HANDED_TO_COURIER    |-> {"IN_TRANSIT"},
     IN_TRANSIT           |-> {"OUT_FOR_DELIVERY"},
     OUT_FOR_DELIVERY     |-> {"DELIVERY_ATTEMPTED", "RESCHEDULED", "DELIVERED",
                               "REFUSED", "FAILED"},
     DELIVERY_ATTEMPTED   |-> {"RESCHEDULED"},
     RESCHEDULED          |-> {"OUT_FOR_DELIVERY"},
     DELIVERED            |-> {},
     REFUSED              |-> {"RETURN_TO_SENDER"},
     FAILED               |-> {"RETURN_TO_SENDER"},
     RETURN_TO_SENDER     |-> {"RETURNED"},
     RETURNED             |-> {},
     CANCELLED            |-> {}]

OPERATIONAL_DELIVERY_TARGETS ==
    {"ON_HOLD", "CONFIRMED", "PREPARING", "READY_FOR_PICKUP",
     "ASSIGNED_TO_COURIER", "HANDED_TO_COURIER", "IN_TRANSIT",
     "OUT_FOR_DELIVERY", "RETURN_TO_SENDER"}

DeliveryStatus == DOMAIN DELIVERY_TRANSITIONS

ASSUME CsvAssumption == CsvTargets \subseteq OPERATIONAL_DELIVERY_TARGETS

\* A delivery starts at any point of its way before its completion, and is
\* paid at most once the order is not cancelled.
ASSUME ScenariosAssumption ==
    \A sc \in Scenarios, d \in Deliveries :
        /\ sc.start[d] \in [status: DeliveryStatus \ {"DELIVERED"}, courier: Couriers \cup {None},
                             pickup: BOOLEAN, cod: 1..MaxAmount, paid: BOOLEAN]
        /\ sc.start[d].paid => sc.start[d].status # "CANCELLED"

canTransitionDelivery(from, to) == to \in DELIVERY_TRANSITIONS[from]

TERMINAL_DELIVERY_STATUSES == {"DELIVERED", "RETURNED", "CANCELLED"}

COURIER_REQUIRED_TARGETS == {"ASSIGNED_TO_COURIER", "HANDED_TO_COURIER"}

EARLY_CANCELLATION_STATUSES ==
    {"PENDING_CONFIRMATION", "CONFIRMED", "ON_HOLD", "PREPARING",
     "READY_FOR_PICKUP", "ASSIGNED_TO_COURIER"}

PaymentStatus ==
    {"CASH_EXPECTED", "CASH_COLLECTED_BY_COURIER", "CASH_COLLECTED_AT_STORE",
     "CASH_REMITTED", "RECONCILIATION_DISCREPANCY", "CANCELLED"}

DeliveryRow ==
    [status: DeliveryStatus, courier: Couriers \cup {None},
     age: {"NOT_PERFORMED", "PASSED", "FAILED"}]

\* cod is expectedCodMillimes
OrderRow ==
    [status: DeliveryStatus, pay: PaymentStatus, pickup: BOOLEAN, cod: 1..MaxAmount]

\* CashCollection with its CashDiscrepancy ("NONE" while there is none)
CollectionRow ==
    [status: {"EXPECTED", "COLLECTED", "PARTIALLY_COLLECTED", "VOIDED", "REMITTED"},
     collected: 0..MaxAmount, courier: Couriers \cup {None},
     by: Admins \cup {None},
     disc: {"NONE", "OPEN", "RESOLVED", "WRITTEN_OFF"}]

\* CashRemittance with its items and its CashDiscrepancy; "FREE" is no row
RemittanceRow ==
    [status: {"FREE", "DRAFT", "SUBMITTED", "VERIFIED", "DISCREPANCY"},
     courier: Couriers \cup {None}, items: [Deliveries -> 0..MaxAmount],
     receiver: Admins \cup {None}, verifier: Admins \cup {None},
     disc: {"NONE", "OPEN", "RESOLVED", "WRITTEN_OFF"}]

ManifestRow ==
    [status: {"FREE", "DRAFT", "SEALED", "HANDED_OVER", "CLOSED", "CANCELLED"},
     courier: Couriers \cup {None}, items: SUBSET Deliveries]

\* A courier's status and, while it is ACTIVE, its availability; "SUSPENDED"
\* stands for ARCHIVED too.
CourierRow == {"AVAILABLE", "OFF_DUTY", "SUSPENDED"}

Rows ==
    [ord: [Deliveries -> OrderRow], del: [Deliveries -> DeliveryRow],
     col: [Deliveries -> CollectionRow], rem: [Remittances -> RemittanceRow],
     man: [Manifests -> ManifestRow], cour: [Couriers -> CourierRow],
     imports: SUBSET ImportKeys]

\* What a request keeps of its read view between its two steps: on is the
\* row it works on, arg what it computed from view and input.  Order and
\* Delivery carry an optimistic version that every update increments, so a
\* version equals the one in the view as long as no update came between:
\* dels and ords are the rows of the view for which that is so.
Request(op, on, arg, D, O) == [op |-> op, on |-> on, arg |-> arg, dels |-> D, ords |-> O]

Idle(s) == tx[s] = None

Working(s, op) == tx[s] # None /\ tx[s].op = op

Begin(s, op, on, arg, D, O) ==
    /\ op \in ops
    /\ Idle(s)
    /\ tx' = [tx EXCEPT ![s] = Request(op, on, arg, D, O)]
    /\ UNCHANGED db

\* version: { increment: 1 } on the deliveries D and the orders O, seen by
\* every other request; request s, if any, is answered.
Increment(s, D, O) ==
    tx' = [q \in Sessions |->
             IF q = s \/ tx[q] = None THEN None
             ELSE Request(tx[q].op, tx[q].on, tx[q].arg, tx[q].dels \ D, tx[q].ords \ O)]

\* updateMany ... where version = the version of the view
SameDelivery(s, d) == d \in tx[s].dels
SameOrder(s, d)    == d \in tx[s].ords

\* An exception, a deadlock or a timeout rolls the transaction back.
Abort(s) ==
    /\ ~ Idle(s)
    /\ tx' = [tx EXCEPT ![s] = None]
    /\ UNCHANGED db

\* Rows locked by the first statement of a transaction that is under way.
CourierLocked(c) ==
    \E s \in Sessions : Working(s, "createManifest") /\ tx[s].arg.courier = c
ManifestLocked(m) ==
    \E s \in Sessions : Working(s, "transitionManifest") /\ tx[s].on = m
RemittanceLocked(r) ==
    \E s \in Sessions : Working(s, "reconcileRemittance") /\ tx[s].on = r

\* updateMirroredStatus and applyDeliveryTransition: the delivery and its
\* order take the target status together.
Mirror(rows, target) ==
    [rows EXCEPT
        !.del = [d \in Deliveries |-> IF d \in DOMAIN target
                   THEN [rows.del[d] EXCEPT !.status = target[d]]
                   ELSE rows.del[d]],
        !.ord = [d \in Deliveries |-> IF d \in DOMAIN target
                   THEN [rows.ord[d] EXCEPT !.status = target[d]]
                   ELSE rows.ord[d]]]
=============================================================================
