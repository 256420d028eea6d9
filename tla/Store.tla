------------------------------- MODULE Store -------------------------------
(***************************************************************************)
(* Order intake and inventory management over one database: any number of  *)
(* sessions serve customers and administrators while the worker's expiry   *)
(* sweep runs and time passes.                                             *)
(***************************************************************************)
EXTENDS OrderIntake, InventoryOps

Init ==
    /\ clock = 0
    /\ onHand = InitialStock
    /\ version = [b \in Buckets |-> 1]
    /\ lastAfter = InitialStock
    /\ orders = [o \in Orders |-> NoOrder]
    /\ rsvQty = [o \in Orders |-> [b \in Buckets |-> 0]]
    /\ rsvState = [o \in Orders |-> [b \in Buckets |-> "NONE"]]
    /\ expiresAt = [o \in Orders |-> 0]
    /\ claims = [k \in Keys |-> None]
    /\ carts = [c \in Customers |-> Cart(0, None)]
    /\ adjustments = [a \in Adjustments |-> NoAdjustment]
    /\ moves = [m \in Moves |-> NoMove]
    /\ tx = [s \in Sessions |-> Idle]

Tick ==
    /\ clock < MaxClock
    /\ clock' = clock + 1
    /\ UNCHANGED <<stock, orders, reservations, claims, carts, adjustments, moves, tx>>

CustomerStep ==
    \/ \E c \in Customers, r \in Requests : EditCart(c, r)
    \/ \E s \in Sessions, k \in Keys, r \in Requests : CheckoutBegin(s, k, r)
    \/ \E s \in Sessions : CheckoutLock(s)
    \/ \E s \in Sessions, o \in Orders : CheckoutCommit(s, o)
    \/ \E s \in Sessions, o \in Orders : CancelBegin(s, o)
    \/ \E s \in Sessions : CancelLock(s)

AdminStep ==
    \/ \E s \in Sessions, o \in Orders : ConfirmBegin(s, o)
    \/ \E s \in Sessions : ConfirmLock(s)
    \/ \E s \in Sessions : ConfirmCommit(s)
    \/ \E s \in Sessions, o \in Orders : TerminateBegin(s, o)
    \/ \E s \in Sessions : TerminateLock(s)
    \/ \E s \in Sessions : ReleaseCommit(s)
    \/ \E o \in Orders : Prepare(o)
    \/ \E o \in Orders : ReadyForPickup(o)

StockStep ==
    \/ \E s \in Sessions, m \in Moves, b \in Buckets, q \in MoveSizes : ReceiveBegin(s, m, b, q)
    \/ \E s \in Sessions : ReceiveCommit(s)
    \/ \E s \in Sessions, m \in Moves, from, to \in Buckets, q \in MoveSizes :
          TransferBegin(s, m, from, to, q)
    \/ \E s \in Sessions : TransferCommit(s)
    \/ \E a \in Adjustments, b \in Buckets, q \in MoveSizes :
          RequestAdjustment(a, b, q) \/ RequestAdjustment(a, b, -q)
    \/ \E s \in Sessions, a \in Adjustments, d \in {"approve", "reject"} : DecideBegin(s, a, d)
    \/ \E s \in Sessions : DecideExpired(s)
    \/ \E s \in Sessions : DecideReject(s)
    \/ \E s \in Sessions : DecideApply(s)

Sweep == \E cutoff \in 0 .. clock : ExpireReservations(cutoff)

Next ==
    \/ CustomerStep
    \/ AdminStep
    \/ StockStep
    \/ Sweep
    \/ \E s \in Sessions : Rollback(s)
    \/ Tick

Spec == Init /\ [][Next]_vars

\* Transactions are bounded by their timeouts, the worker keeps sweeping, and
\* InnoDB grants a contended row lock to the longest waiter, so a sweep that
\* is enabled again and again is not overtaken for ever.
FairSpec ==
    /\ Spec
    /\ WF_vars(Tick)
    /\ \A s \in Sessions : WF_vars(Rollback(s))
    /\ SF_vars(Sweep)

-----------------------------------------------------------------------------
(* Invariants *)

OrderRecord ==
    [status : OrderStatus, version : Nat, payment : {"NONE", "CASH_EXPECTED", "CANCELLED"},
     delivery : OrderStatus, deliveryVersion : Nat, cash : {"NONE", "EXPECTED", "VOIDED"},
     key : Keys \cup {None}, cart : Nat, request : Requests \cup {None}]

ViewRecord == [order : OrderRecord, onHand : [Buckets -> 0 .. MaxStock], version : [Buckets -> Nat]]

MoveRecord == [from : 0 .. NumBuckets, to : 0 .. NumBuckets, quantity : Nat]

TxRecord ==
    [kind : {"none", "checkout", "confirm", "terminate", "cancel", "receive", "transfer",
             "approve", "reject"},
     pc : {"idle", "begun", "locked"}, now : Nat,
     ref : Keys \cup Orders \cup Adjustments \cup Moves \cup {None},
     items : SUBSET Buckets, take : [Buckets -> 0 .. MaxStock], move : MoveRecord,
     view : ViewRecord]

AdjustmentRecord ==
    [status : {"NONE", "PENDING_APPROVAL", "APPLIED", "REJECTED", "EXPIRED"},
     item : 0 .. NumBuckets, delta : Int, expectedVersion : Nat, onHandBefore : Nat,
     expiresAt : Nat]

CartRecord == [id : Nat, request : Requests \cup {None}]

\* Every row has the columns the schema gives it; physical stock stays within
\* the range of the database integer and is never negative.
TypeOK ==
    /\ clock \in Nat
    /\ onHand \in [Buckets -> 0 .. MaxStock]
    /\ version \in [Buckets -> Nat]
    /\ lastAfter \in [Buckets -> 0 .. MaxStock]
    /\ orders \in [Orders -> OrderRecord]
    /\ rsvQty \in [Orders -> [Buckets -> 0 .. MaxStock]]
    /\ rsvState \in [Orders -> [Buckets -> ReservationState]]
    /\ expiresAt \in [Orders -> Nat]
    /\ claims \in [Keys -> Orders \cup {None}]
    /\ carts \in [Customers -> CartRecord]
    /\ adjustments \in [Adjustments -> AdjustmentRecord]
    /\ moves \in [Moves -> MoveRecord]
    /\ tx \in [Sessions -> TxRecord]

\* The units that unexpired reservations promise to customers are on the
\* shelf, whatever checkouts, confirmations, receipts, transfers and
\* adjustments interleave ("no oversell").
NoOversell == \A b \in Buckets : Reserved(b, clock) <= onHand[b]

\* What the records say of a bucket: units moved in and out by receipts and
\* transfers, applied corrections and consumed reservations.
MovedIn(b) == Total([m \in Moves |-> moves[m].quantity], {m \in Moves : moves[m].to = b})
MovedOut(b) == Total([m \in Moves |-> moves[m].quantity], {m \in Moves : moves[m].from = b})
Corrected(b) ==
    Total([a \in Adjustments |-> adjustments[a].delta],
          {a \in Adjustments : adjustments[a].status = "APPLIED" /\ adjustments[a].item = b})
Consumed(b) == Total([o \in Orders |-> rsvQty[o][b]], {o \in Orders : rsvState[o][b] = "CONSUMED"})

\* Physical stock is what the records of receipts, transfers, applied
\* adjustments and consumed reservations add up to: no interleaving or retry
\* applies one of them twice, loses one, or moves stock without a record.
StockReconciles ==
    \A b \in Buckets :
        onHand[b] = InitialStock[b] + MovedIn(b) - MovedOut(b) + Corrected(b) - Consumed(b)

\* A retried or doubled checkout never yields a second order: neither the
\* idempotency key nor the cart of an order has another one.
OneOrderPerSubmission ==
    \A o, p \in Orders :
        o # p /\ orders[o].status # "NONE" /\ orders[p].status # "NONE" =>
            /\ orders[o].key # orders[p].key
            /\ <<Owner[orders[o].key], orders[o].cart>> # <<Owner[orders[p].key], orders[p].cart>>

\* An order leaves the shelf as a whole or not at all: once confirmed every
\* line is consumed to the last unit, before that nothing is, and a cancelled
\* order is one or the other and holds no reservation.
AllOrNothing ==
    \A o \in Orders :
        LET inFull == \A v \in Variants : Covered(o, v, "CONSUMED") = orders[o].request.lines[v]
            nothing == \A b \in Buckets : rsvState[o][b] # "CONSUMED"
        IN  /\ orders[o].status = "PENDING_CONFIRMATION" => nothing
            /\ orders[o].status \in {"CONFIRMED", "PREPARING", "READY_FOR_PICKUP"} => inFull
            /\ orders[o].status = "CANCELLED" => ActiveItems(o) = {} /\ (inFull \/ nothing)

-----------------------------------------------------------------------------
(* Action properties *)

\* A consumed, released or expired reservation is final: the expiry sweep and
\* a cancellation never undo each other or a confirmation.
ReservationsFinal ==
    [][\A o \in Orders, b \in Buckets :
          rsvState[o][b] \in {"CONSUMED", "RELEASED", "EXPIRED"} =>
              rsvState'[o][b] = rsvState[o][b]]_vars

\* An order only moves along ORDER_STATUS_TRANSITIONS, one version at a time,
\* and a customer only cancels one that is still pending, although their
\* cancellation decides on a read view that predates its lock on the order.
OrderMovesForward ==
    [][\A o \in Orders :
          orders'[o].status # orders[o].status =>
              /\ <<orders[o].status, orders'[o].status>> \in
                    {<<"NONE", "PENDING_CONFIRMATION">>,
                     <<"PENDING_CONFIRMATION", "CONFIRMED">>,
                     <<"PENDING_CONFIRMATION", "CANCELLED">>,
                     <<"CONFIRMED", "PREPARING">>, <<"CONFIRMED", "CANCELLED">>,
                     <<"PREPARING", "READY_FOR_PICKUP">>, <<"PREPARING", "CANCELLED">>,
                     <<"READY_FOR_PICKUP", "CANCELLED">>}
              /\ orders'[o].version = orders[o].version + 1
              /\ \A s \in Sessions :
                    tx[s].kind = "cancel" /\ tx[s].ref = o /\ tx'[s] # tx[s] =>
                        orders[o].status = "PENDING_CONFIRMATION"]_vars

-----------------------------------------------------------------------------
(* Liveness *)

\* The worker ends every reservation that outlives its expiry unless the
\* order is confirmed or cancelled first.
OverdueReleased ==
    \A o \in Orders, b \in Buckets :
        rsvState[o][b] = "ACTIVE" /\ expiresAt[o] <= clock ~> rsvState[o][b] # "ACTIVE"

-----------------------------------------------------------------------------
(* The inductive invariants behind the theorems about Store.               *)

\* A transaction refers to a row of the table its kind works on.
RefOK(t) ==
    /\ t.kind = "checkout" => t.ref \in Keys
    /\ t.kind \in {"confirm", "terminate", "cancel"} => t.ref \in Orders
    /\ t.kind \in {"receive", "transfer"} => t.ref \in Moves /\ t.move.to \in Buckets
    /\ t.kind = "transfer" => t.move.from \in Buckets /\ t.move.from # t.move.to
    /\ t.kind \in {"approve", "reject"} => t.ref \in Adjustments

TxInv == tx \in [Sessions -> TxRecord] /\ \A s \in Sessions : RefOK(tx[s])

\* A recorded adjustment names an item.
AdjustmentShape ==
    \A a \in Adjustments : adjustments[a].status # "NONE" => adjustments[a].item \in Buckets

TypeInv == TypeOK /\ TxInv /\ AdjustmentShape

-----------------------------------------------------------------------------

\* The row locks of different sessions do not meet.
LocksExclusive ==
    \A s, t \in Sessions : s # t => LockedItems(s) \cap LockedItems(t) = {}

\* What a locked checkout has decided to take still fits on the shelf beside
\* everything reserved.
TakeFits(s) ==
    tx[s].kind = "checkout" /\ tx[s].pc = "locked" =>
        \A b \in Buckets : tx[s].take[b] > 0 =>
            b \in tx[s].items /\ Reserved(b, clock) + tx[s].take[b] <= onHand[b]

\* What a locked confirmation is about to consume is still on the shelf beside
\* everything else reserved, even if its reservation has expired since.
ConsumptionFits(s) ==
    tx[s].kind = "confirm" /\ tx[s].pc = "locked" =>
        \A b \in tx[s].items :
            Cardinality(ReservedUnits(b, clock) \cup Units(tx[s].ref, b)) <= onHand[b]

\* A transaction's clock is not ahead, the order it confirms exists, and what
\* it decided under its locks still fits.
DecisionOK(s) ==
    /\ tx[s].now <= clock
    /\ tx[s].kind = "confirm" => orders[tx[s].ref].status # "NONE"
    /\ TakeFits(s)
    /\ ConsumptionFits(s)

\* The decisions of the transactions in flight are still good when they
\* commit: row locks protect them although a clock or a read view is old.
DecisionsHold == LocksExclusive /\ \A s \in Sessions : DecisionOK(s)

StockInv == TypeInv /\ DecisionsHold /\ NoOversell

-----------------------------------------------------------------------------
(* One order per submission *)

\* Checkouts in flight belong to different customers, so to different keys.
CheckoutsExclusive ==
    \A s, t \in Sessions :
        s # t /\ tx[s].kind = "checkout" /\ tx[t].kind = "checkout" =>
            Owner[tx[s].ref] # Owner[tx[t].ref]

\* A checkout in flight holds a key without an order and a cart with lines.
CheckoutOpen(s) ==
    tx[s].kind = "checkout" =>
        claims[tx[s].ref] = None /\ carts[Owner[tx[s].ref]].request # None

\* An order is the answer of its key, and its cart is used up: the customer's
\* cart is a later one, or none is open.
Recorded(o) ==
    orders[o].status # "NONE" =>
        /\ orders[o].key \in Keys /\ claims[orders[o].key] = o
        /\ orders[o].cart <= carts[Owner[orders[o].key]].id
        /\ orders[o].cart = carts[Owner[orders[o].key]].id =>
              carts[Owner[orders[o].key]].request = None

SubmissionInv ==
    /\ CheckoutsExclusive
    /\ \A s \in Sessions : CheckoutOpen(s)
    /\ \A o \in Orders : Recorded(o)
    /\ OneOrderPerSubmission

-----------------------------------------------------------------------------
(* What becomes of the reservations of an order *)

InFull(o) == \A v \in Variants : Covered(o, v, "CONSUMED") = orders[o].request.lines[v]

Nothing(o) == \A b \in Buckets : rsvState[o][b] # "CONSUMED"

\* Confirmations and terminations, and cancellations from their lock on, hold
\* the row of their order alone.
OrdersExclusive ==
    \A s, t \in Sessions, o \in Orders : s # t /\ LocksOrder(s, o) => ~LocksOrder(t, o)

\* A transaction on an order read a status it is allowed from; once locked,
\* its items are the active ones, and those of a confirmation cover the order.
OrderTxOK(s) ==
    tx[s].kind \in {"confirm", "terminate", "cancel"} =>
        /\ orders[tx[s].ref].status # "NONE"
        /\ tx[s].kind \in {"confirm", "cancel"} =>
              tx[s].view.order.status = "PENDING_CONFIRMATION"
        /\ tx[s].view.order.status \in EarlyCancellation
        /\ tx[s].pc = "locked" => tx[s].items = ActiveItems(tx[s].ref)
        /\ tx[s].kind = "confirm" /\ tx[s].pc = "locked" =>
              \A v \in Variants :
                 Covered(tx[s].ref, v, "ACTIVE") = orders[tx[s].ref].request.lines[v]

\* A row that is no order yet has no reservation, a pending order has consumed
\* nothing, and an order past confirmation has nothing left to release.
Settled(o) ==
    /\ orders[o].status = "NONE" =>
          orders[o] = NoOrder /\ \A b \in Buckets : rsvState[o][b] = "NONE"
    /\ orders[o].status = "PENDING_CONFIRMATION" => Nothing(o)
    /\ orders[o].status \in {"CONFIRMED", "PREPARING", "READY_FOR_PICKUP"} =>
          InFull(o) /\ ActiveItems(o) = {}
    /\ orders[o].status = "CANCELLED" => ActiveItems(o) = {} /\ (InFull(o) \/ Nothing(o))

SettlementInv ==
    /\ OrdersExclusive
    /\ \A s \in Sessions : OrderTxOK(s)
    /\ \A o \in Orders : Settled(o)

OrderInv == TypeInv /\ SubmissionInv /\ SettlementInv

-----------------------------------------------------------------------------
(* Stock and its records *)

\* A receipt has no source.
ReceiptShape == \A s \in Sessions : tx[s].kind = "receive" => tx[s].move.from = 0

ReconcileInv == OrderInv /\ ReceiptShape /\ StockReconciles

-----------------------------------------------------------------------------
(* What orders are promised *)

\* What a locked checkout takes is what the cart it locks asks for.
TakesCart(s) ==
    tx[s].kind = "checkout" /\ tx[s].pc = "locked" =>
        \A v \in Variants :
            Total(tx[s].take, BucketsOf(v)) = carts[Owner[tx[s].ref]].request.lines[v]

\* A pending order whose time has not come holds a reservation for every unit
\* it asked for.
HeldInFull(o) ==
    /\ orders[o].status # "NONE" => orders[o].request \in Requests
    /\ orders[o].status = "PENDING_CONFIRMATION" /\ expiresAt[o] > clock =>
          \A v \in Variants : Covered(o, v, "ACTIVE") = orders[o].request.lines[v]

PromiseInv == (\A s \in Sessions : TakesCart(s)) /\ (\A o \in Orders : HeldInFull(o))

=============================================================================
