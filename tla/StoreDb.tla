------------------------------ MODULE StoreDb ------------------------------
(***************************************************************************)
(* The MySQL rows that order intake and inventory management share, and    *)
(* the transactions in flight over them.                                   *)
(*                                                                         *)
(* A database session executes one transaction at a time.  A transaction   *)
(* that reads and later writes is split at the points where another one    *)
(* can commit in between: "begun" (clock read, first rows locked, and for  *)
(* a REPEATABLE READ transaction its read view taken) and "locked" (all    *)
(* its FOR UPDATE rows held and its decisions made).  A row lock is held   *)
(* to the end of the transaction.  A StockReservation row is only ever     *)
(* locked together with its InventoryItem row, so the item's lock stands   *)
(* for both.  A transaction that takes every lock before its first read is *)
(* one step, taken when its rows are free.                                 *)
(***************************************************************************)
EXTENDS Integers, FiniteSets, FiniteSetsExt, Sums

CONSTANTS
    Sessions,      \* database sessions: concurrent request handlers
    Customers,     \* CustomerProfile rows
    Keys,          \* OrderIdempotencyKey rows, scoped to one customer each
    Owner,         \* the customer whose scope a key hashes in
    Orders,        \* identities of Order rows
    Variants,      \* ProductVariant rows
    NumBuckets,    \* InventoryItem rows are numbered in the order of their ids
    VariantOf,     \* InventoryItem.variantId
    Requests,      \* checkout bodies: lines per variant and delivery method
    InitialStock,  \* InventoryItem.onHandQuantity at the start
    Adjustments,   \* identities of InventoryAdjustment rows
    Moves,         \* Idempotency-Key values of batch receipts and transfers
    MoveSizes,     \* quantities an administrator receives, moves or corrects
    MaxStock,      \* DATABASE_INT_MAX
    ReservationTTL,\* RESERVATION_TTL_MS
    TxTimeout,     \* how long a checkout transaction may stay open
    ApprovalTTL,   \* ADJUSTMENT_APPROVAL_TTL_MS
    BatchSize,     \* rows one reservation sweep may expire
    MaxClock,      \* bound on the clock
    MaxCarts,      \* bound on the carts a customer opens
    None,          \* SQL NULL
    Ops            \* the operations clients call

Buckets == 1 .. NumBuckets

ASSUME NumBucketsAssumption == NumBuckets \in Nat
ASSUME OrdersAssumption == IsFiniteSet(Orders)
ASSUME RecordsAssumption == IsFiniteSet(Moves) /\ IsFiniteSet(Adjustments)
ASSUME MaxStockAssumption == MaxStock \in Nat
ASSUME InitialStockAssumption == InitialStock \in [Buckets -> 0 .. MaxStock]
ASSUME VariantOfAssumption == VariantOf \in [Buckets -> Variants]
ASSUME OwnerAssumption == Owner \in [Keys -> Customers]
ASSUME RequestsAssumption ==
    Requests \subseteq [lines : [Variants -> Nat], method : {"COURIER", "STORE_PICKUP"}]
\* A checkout is rolled back (15 s) long before a reservation expires (30 min).
ASSUME TTLAssumption ==
    ReservationTTL \in Nat /\ ApprovalTTL \in Nat /\ TxTimeout \in 0 .. ReservationTTL - 1
ASSUME BoundsAssumption ==
    /\ MaxClock \in Nat /\ MaxCarts \in Nat /\ BatchSize \in Nat
    /\ MoveSizes \subseteq Nat
ASSUME NoneAssumption == None \notin Orders \cup Requests \cup Sessions

VARIABLES
    clock,       \* the wall clock of API and worker
    onHand,      \* InventoryItem.onHandQuantity
    version,     \* InventoryItem.version
    lastAfter,   \* onHandAfter of the newest StockMovement of each item
    orders,      \* Order with its Delivery and CashCollection
    rsvQty,      \* StockReservation.quantity per order and item
    rsvState,    \* StockReservation.state
    expiresAt,   \* StockReservation.expiresAt, the same for a whole order
    claims,      \* OrderIdempotencyKey: the order a completed claim answers with
    carts,       \* the customer's ACTIVE cart, or the lack of one
    adjustments, \* InventoryAdjustment
    moves,       \* receipts and transfers recorded under their unique key hash
    tx           \* the transaction of every session

stock == <<onHand, version, lastAfter>>
reservations == <<rsvQty, rsvState, expiresAt>>
vars == <<clock, stock, orders, reservations, claims, carts, adjustments, moves, tx>>

-----------------------------------------------------------------------------
(* Rows *)

\* The statuses order intake reaches; the courier's come after them.
OrderStatus == {"NONE", "PENDING_CONFIRMATION", "CONFIRMED", "PREPARING",
                "READY_FOR_PICKUP", "CANCELLED"}
ReservationState == {"NONE", "ACTIVE", "CONSUMED", "RELEASED", "EXPIRED"}

NoOrder == [status |-> "NONE", version |-> 0, payment |-> "NONE", delivery |-> "NONE",
            deliveryVersion |-> 0, cash |-> "NONE", key |-> None, cart |-> 0,
            request |-> None]
Adjustment(status, item, delta, expectedVersion, onHandBefore, expires) ==
    [status |-> status, item |-> item, delta |-> delta, expectedVersion |-> expectedVersion,
     onHandBefore |-> onHandBefore, expiresAt |-> expires]
NoAdjustment == Adjustment("NONE", 0, 0, 0, 0, 0)
NoMove == [from |-> 0, to |-> 0, quantity |-> 0]

\* The read view of a REPEATABLE READ transaction, as far as its code reads it.
View(rec, stk, ver) == [order |-> rec, onHand |-> stk, version |-> ver]
NoView == View(NoOrder, [b \in Buckets |-> 0], [b \in Buckets |-> 0])

\* A transaction: its kind, how far it is, the time it read, the order, key,
\* adjustment or movement it is about, the items it locks, the units it
\* takes from each, the stock it moves and its read view.
Tx(kind, pc, now, ref, items, take, move, view) ==
    [kind |-> kind, pc |-> pc, now |-> now, ref |-> ref, items |-> items, take |-> take,
     move |-> move, view |-> view]
NoTake == [b \in Buckets |-> 0]
Idle == Tx("none", "idle", 0, None, {}, NoTake, NoMove, NoView)

-----------------------------------------------------------------------------
(* Row locks: a row is locked by at most one transaction. *)

LockedItems(t) == IF tx[t].pc = "locked" THEN tx[t].items ELSE {}

\* A customer's cancellation locks the order row with the items.
LocksOrder(t, o) ==
    /\ tx[t].kind \in {"confirm", "terminate"} \/ (tx[t].kind = "cancel" /\ tx[t].pc = "locked")
    /\ tx[t].ref = o

\* Mutant: the items are read without FOR UPDATE.
NoRowLocks(S, s) == S \subseteq Buckets
\* Free of all transactions but that of s; s is None for a one-step transaction.
ItemsFree(S, s) == \A t \in Sessions \ {s} : LockedItems(t) \cap S = {}
OrderFree(o, s) == \A t \in Sessions \ {s} : ~LocksOrder(t, o)
\* A checkout locks the profile and cart rows of the customer, and its
\* uncommitted claim of an OrderIdempotencyKey makes a second one wait.
CustomerFree(c, s) == \A t \in Sessions \ {s} : tx[t].kind = "checkout" => Owner[tx[t].ref] # c
KeyFree(k, s) == \A t \in Sessions \ {s} : tx[t].kind = "checkout" => tx[t].ref # k

-----------------------------------------------------------------------------
(* Reservations.  The sum of the quantities of the live reservations of an *)
(* item is counted unit by unit: unit i of order o's reservation is the    *)
(* pair of o and i.                                                        *)

Units(o, b) == {o} \X (1 .. rsvQty[o][b])

Live(o, b, t) == rsvState[o][b] = "ACTIVE" /\ expiresAt[o] > t

ReservedUnits(b, t) == UNION {Units(o, b) : o \in {p \in Orders : Live(p, b, t)}}

\* SUM(quantity) WHERE state = 'ACTIVE' AND expiresAt > t.
Reserved(b, t) == Cardinality(ReservedUnits(b, t))

ActiveItems(o) == {b \in Buckets : rsvState[o][b] = "ACTIVE"}

BucketsOf(v) == {b \in Buckets : VariantOf[b] = v}

\* Units of a variant that reservations of order o in the given state cover.
Covered(o, v, state) == Total(rsvQty[o], {b \in BucketsOf(v) : rsvState[o][b] = state})

=============================================================================
