---------------------------- MODULE StoreProofs ----------------------------
(***************************************************************************)
(* Theorems about Store for every number of sessions, customers, orders    *)
(* and buckets, every stock and every bound: type correctness, and no      *)
(* oversell.                                                               *)
(*                                                                         *)
(* Then what becomes of a submission and of the order it makes: one order  *)
(* per key and cart, an order that is consumed as a whole or not at all,   *)
(* final reservations, an order lifecycle that only moves forward, and     *)
(* stock that its records explain.                                         *)
(*                                                                         *)
(* Store implements StockPromise, too: the stock that is free is what is   *)
(* on the shelves less what is promised to the orders that are held, and   *)
(* every step of Store changes the two as a step of the abstract           *)
(* specification does, or not at all.                                      *)
(***************************************************************************)
EXTENDS Store, StoreRefinement, SumProofs, TLAPS, FiniteSetTheorems

-----------------------------------------------------------------------------
(* Type correctness *)

\* A session with no transaction is a transaction record like any other.
LEMMA IdleType ==
    Idle \in TxRecord /\ RefOK(Idle)
<1>1. NoView \in ViewRecord /\ NoTake \in [Buckets -> 0 .. MaxStock] /\ NoMove \in MoveRecord
    BY MaxStockAssumption, NumBucketsAssumption
    DEF NoTake, NoView, View, ViewRecord, NoOrder, OrderRecord, OrderStatus, NoMove, MoveRecord
<1> QED
    BY <1>1 DEF Idle, Tx, TxRecord, RefOK

\* The constructor of transaction records builds transaction records.
LEMMA TxType ==
    ASSUME NEW kind \in {"checkout", "confirm", "terminate", "cancel", "receive", "transfer",
                         "approve", "reject"},
           NEW pc \in {"begun", "locked"}, NEW now \in Nat,
           NEW ref \in Keys \cup Orders \cup Adjustments \cup Moves,
           NEW items \in SUBSET Buckets, NEW take \in [Buckets -> 0 .. MaxStock],
           NEW move \in MoveRecord, NEW view \in ViewRecord
    PROVE  Tx(kind, pc, now, ref, items, take, move, view) \in TxRecord
BY DEF Tx, TxRecord

\* The neutral arguments of the constructor have their types.
LEMMA NoType ==
    NoView \in ViewRecord /\ NoTake \in [Buckets -> 0 .. MaxStock] /\ NoMove \in MoveRecord
BY IdleType DEF Idle, Tx, TxRecord

\* Replacing the transaction of one session by a well-formed one.
LEMMA TxReplaced ==
    ASSUME TxInv, NEW s \in Sessions, NEW t \in TxRecord, RefOK(t), tx' = [tx EXCEPT ![s] = t]
    PROVE  TxInv'
BY DEF TxInv

\* The initial database satisfies the type invariant.
LEMMA TypeInit ==
    Init => TypeInv
<1> SUFFICES ASSUME Init PROVE TypeInv
    OBVIOUS
<1>1. TypeOK
    BY IdleType, InitialStockAssumption, NumBucketsAssumption, MaxStockAssumption
    DEF Init, TypeOK, NoOrder, OrderRecord, OrderStatus, ReservationState, NoAdjustment, Adjustment,
        AdjustmentRecord, Cart, CartRecord, NoMove, MoveRecord, Buckets
<1>2. TxInv
    BY IdleType DEF Init, TxInv
<1>3. AdjustmentShape
    BY DEF Init, AdjustmentShape, NoAdjustment, Adjustment
<1> QED
    BY <1>1, <1>2, <1>3 DEF TypeInv

-----------------------------------------------------------------------------
(* Counting reserved units *)

\* Counting the units 1 .. n of x.
LEMMA CountUnits ==
    ASSUME NEW x, NEW n \in Nat
    PROVE  IsFiniteSet({x} \X (1 .. n)) /\ Cardinality({x} \X (1 .. n)) = n
<1>1. IsFiniteSet(1 .. n) /\ Cardinality(1 .. n) = n
    BY FS_Interval
<1>2. IsFiniteSet({x}) /\ Cardinality({x}) = 1
    BY FS_Singleton
<1>3. IsFiniteSet({x} \X (1 .. n)) /\ Cardinality({x} \X (1 .. n)) = 1 * n
    BY <1>1, <1>2, FS_Product
<1> QED
    BY <1>3

\* A reservation has as many units as its quantity says.
LEMMA UnitsCount ==
    ASSUME TypeOK, NEW o \in Orders, NEW b \in Buckets
    PROVE  IsFiniteSet(Units(o, b)) /\ Cardinality(Units(o, b)) = rsvQty[o][b]
<1>1. rsvQty[o][b] \in Nat
    BY MaxStockAssumption DEF TypeOK
<1> QED
    BY <1>1, CountUnits DEF Units

\* Finitely many units are reserved of an item.
LEMMA ReservedFinite ==
    ASSUME TypeOK, NEW b \in Buckets, NEW t
    PROVE  IsFiniteSet(ReservedUnits(b, t))
<1>1. IsFiniteSet(Orders \X (1 .. MaxStock))
    <2>1. IsFiniteSet(1 .. MaxStock)
        BY MaxStockAssumption, FS_Interval
    <2> QED
        BY <2>1, OrdersAssumption, FS_Product
<1>2. ReservedUnits(b, t) \subseteq Orders \X (1 .. MaxStock)
    BY MaxStockAssumption DEF ReservedUnits, Units, TypeOK
<1> QED
    BY <1>1, <1>2, FS_Subset

\* The reserved quantity is a natural number.
LEMMA ReservedNat ==
    ASSUME TypeOK, NEW b \in Buckets, NEW t
    PROVE  Reserved(b, t) \in Nat
BY ReservedFinite, FS_CardinalityType DEF Reserved

-----------------------------------------------------------------------------
(* Steps *)

\* What a checkout allocates from a bucket is a quantity the column can hold.
LEMMA TakeBound ==
    ASSUME NEW r, NEW C, NEW avail, NEW take \in Allocations(r, C, avail)
    PROVE  take \in [Buckets -> 0 .. MaxStock]
BY DEF Allocations

\* A step that only opens, advances or closes a transaction.
TxOnly == UNCHANGED <<clock, stock, orders, reservations, claims, carts, adjustments, moves>>

\* Such a step keeps the type invariant if the new record is well-formed.
LEMMA TxOnlyType ==
    ASSUME TypeInv, TxOnly, NEW s \in Sessions, NEW t \in TxRecord, RefOK(t),
           tx' = [tx EXCEPT ![s] = t]
    PROVE  TypeInv'
<1>1. TxInv'
    BY TxReplaced DEF TypeInv
<1> QED
    BY <1>1 DEF TypeInv, TypeOK, TxInv, AdjustmentShape, TxOnly, stock, reservations

\* Locking the active inventory of an order keeps the type invariant.
LEMMA LockType ==
    ASSUME TypeInv, NEW s \in Sessions, tx[s].kind \in {"confirm", "terminate", "cancel"},
           LockActiveInventory(s)
    PROVE  TypeInv'
<1> DEFINE t == Tx(tx[s].kind, "locked", clock, tx[s].ref, ActiveItems(tx[s].ref), NoTake, NoMove,
                   tx[s].view)
<1>1. tx[s] \in TxRecord /\ tx[s].ref \in Orders
    BY DEF TypeInv, TxInv, RefOK
<1>2. tx[s].view \in ViewRecord /\ ActiveItems(tx[s].ref) \in SUBSET Buckets /\ clock \in Nat
    BY <1>1 DEF TxRecord, ActiveItems, TypeInv, TypeOK
<1>3. t \in TxRecord
    BY <1>1, <1>2, TxType, NoType
<1>4. RefOK(t)
    BY <1>1 DEF RefOK, Tx
<1> QED
    BY <1>3, <1>4, TxOnlyType DEF LockActiveInventory, TxOnly

\* Every step of a customer keeps the type invariant.
LEMMA TypeCustomer ==
    ASSUME TypeInv, CustomerStep PROVE TypeInv'
<1>1. ASSUME NEW c \in Customers, NEW r \in Requests, EditCart(c, r) PROVE TypeInv'
    <2>1. carts' \in [Customers -> CartRecord]
        BY <1>1 DEF EditCart, TypeInv, TypeOK, Cart, CartRecord
    <2> QED
        BY <1>1, <2>1 DEF EditCart, TypeInv, TypeOK, TxInv, AdjustmentShape, stock, reservations
<1>2. ASSUME NEW s \in Sessions, NEW k \in Keys, NEW r \in Requests, CheckoutBegin(s, k, r)
      PROVE  TypeInv'
    <2>1. PICK now \in 0 .. clock :
             tx' = [tx EXCEPT ![s] =
                Tx("checkout", "begun", now, k, Candidates(r), NoTake, NoMove, NoView)]
        BY <1>2 DEF CheckoutBegin
    <2> DEFINE t == Tx("checkout", "begun", now, k, Candidates(r), NoTake, NoMove, NoView)
    <2>2. t \in TxRecord
        <3>1. now \in Nat /\ Candidates(r) \in SUBSET Buckets
            BY DEF TypeInv, TypeOK, Candidates
        <3> QED
            BY <3>1, TxType, NoType
    <2>3. RefOK(t)
        BY DEF RefOK, Tx
    <2> QED
        BY <1>2, <2>1, <2>2, <2>3, TxOnlyType DEF CheckoutBegin, TxOnly
<1>3. ASSUME NEW s \in Sessions, CheckoutLock(s) PROVE TypeInv'
    <2>1. PICK take \in [Buckets -> 0 .. MaxStock] :
             tx' = [tx EXCEPT ![s] =
                Tx("checkout", "locked", tx[s].now, tx[s].ref, tx[s].items, take, NoMove, NoView)]
        BY <1>3, TakeBound DEF CheckoutLock
    <2> DEFINE t == Tx("checkout", "locked", tx[s].now, tx[s].ref, tx[s].items, take, NoMove, NoView)
    <2>2. tx[s] \in TxRecord /\ tx[s].ref \in Keys
        BY <1>3 DEF CheckoutLock, TypeInv, TxInv, RefOK
    <2>3. tx[s].now \in Nat /\ tx[s].items \in SUBSET Buckets
        BY <2>2 DEF TxRecord
    <2>4. t \in TxRecord
        BY <2>2, <2>3, TxType, NoType
    <2>5. RefOK(t)
        BY <2>2 DEF RefOK, Tx
    <2> QED
        BY <1>3, <2>1, <2>4, <2>5, TxOnlyType DEF CheckoutLock, TxOnly
<1>4. ASSUME NEW s \in Sessions, NEW o \in Orders, CheckoutCommit(s, o) PROVE TypeInv'
    <2>1. /\ tx[s].ref \in Keys /\ Owner[tx[s].ref] \in Customers
          /\ tx[s].take \in [Buckets -> 0 .. MaxStock] /\ tx[s].now \in Nat
        BY <1>4, OwnerAssumption DEF CheckoutCommit, TypeInv, TxInv, RefOK, TxRecord
    <2>2. orders' \in [Orders -> OrderRecord] /\ carts' \in [Customers -> CartRecord]
        BY <1>4, <2>1 DEF CheckoutCommit, TypeInv, TypeOK, OrderRecord, OrderStatus, Cart, CartRecord
    <2>3. /\ rsvQty' \in [Orders -> [Buckets -> 0 .. MaxStock]]
          /\ rsvState' \in [Orders -> [Buckets -> ReservationState]]
          /\ expiresAt' \in [Orders -> Nat]
        BY <1>4, <2>1, TTLAssumption DEF CheckoutCommit, TypeInv, TypeOK, ReservationState
    <2>4. lastAfter' \in [Buckets -> 0 .. MaxStock] /\ claims' \in [Keys -> Orders \cup {None}]
        BY <1>4, <2>1 DEF CheckoutCommit, TypeInv, TypeOK
    <2>5. TxInv'
        BY <1>4, IdleType, TxReplaced DEF CheckoutCommit, TypeInv
    <2> QED
        BY <1>4, <2>2, <2>3, <2>4, <2>5 DEF CheckoutCommit, TypeInv, TypeOK, TxInv, AdjustmentShape
<1>5. ASSUME NEW s \in Sessions, NEW o \in Orders, CancelBegin(s, o) PROVE TypeInv'
    <2> DEFINE t == Tx("cancel", "begun", 0, o, {}, NoTake, NoMove, View(orders[o], onHand, version))
    <2>1. View(orders[o], onHand, version) \in ViewRecord
        BY DEF View, ViewRecord, TypeInv, TypeOK
    <2>2. t \in TxRecord
        BY <2>1, TxType, NoType
    <2>3. RefOK(t)
        BY DEF RefOK, Tx
    <2> QED
        BY <1>5, <2>2, <2>3, TxOnlyType DEF CancelBegin, TxOnly
<1>6. ASSUME NEW s \in Sessions, CancelLock(s) PROVE TypeInv'
    BY <1>6, LockType DEF CancelLock
<1> QED
    BY <1>1, <1>2, <1>3, <1>4, <1>5, <1>6 DEF CustomerStep

\* Every step of an administrator on an order keeps the type invariant.
LEMMA TypeAdmin ==
    ASSUME TypeInv, AdminStep PROVE TypeInv'
<1>1. ASSUME NEW s \in Sessions, NEW o \in Orders, NEW kind \in {"confirm", "terminate"},
             LockOrderThenRead(s, o, kind)
      PROVE  TypeInv'
    <2> DEFINE t == Tx(kind, "begun", 0, o, {}, NoTake, NoMove, View(orders[o], onHand, version))
    <2>1. View(orders[o], onHand, version) \in ViewRecord
        BY DEF View, ViewRecord, TypeInv, TypeOK
    <2>2. t \in TxRecord
        BY <2>1, TxType, NoType
    <2>3. RefOK(t)
        BY DEF RefOK, Tx
    <2> QED
        BY <1>1, <2>2, <2>3, TxOnlyType DEF LockOrderThenRead, TxOnly
<1>2. ASSUME NEW s \in Sessions, ConfirmLock(s) \/ TerminateLock(s) PROVE TypeInv'
    BY <1>2, LockType DEF ConfirmLock, TerminateLock
<1>3. ASSUME NEW s \in Sessions, ConfirmCommit(s) PROVE TypeInv'
    <2>1. tx[s].ref \in Orders /\ tx[s].view \in ViewRecord /\ tx[s].items \in SUBSET Buckets
        BY <1>3 DEF ConfirmCommit, TypeInv, TxInv, RefOK, TxRecord
    <2>2. orders' \in [Orders -> OrderRecord]
        BY <1>3, <2>1 DEF ConfirmCommit, Advanced, TypeInv, TypeOK, OrderRecord, OrderStatus
    <2>3. rsvState' \in [Orders -> [Buckets -> ReservationState]]
        BY <1>3, <2>1 DEF ConfirmCommit, TypeInv, TypeOK, ReservationState
    <2>4. onHand' \in [Buckets -> 0 .. MaxStock] /\ version' \in [Buckets -> Nat]
        BY <1>3, <2>1, MaxStockAssumption DEF ConfirmCommit, ItemUnchanged, TypeInv, TypeOK
    <2>5. lastAfter' \in [Buckets -> 0 .. MaxStock]
        BY <1>3, <2>1, MaxStockAssumption DEF ConfirmCommit, ItemUnchanged, TypeInv, TypeOK, ViewRecord
    <2>6. TxInv'
        BY <1>3, IdleType, TxReplaced DEF ConfirmCommit, TypeInv
    <2> QED
        BY <1>3, <2>2, <2>3, <2>4, <2>5, <2>6 DEF ConfirmCommit, TypeInv, TypeOK, TxInv, AdjustmentShape
<1>4. ASSUME NEW s \in Sessions, ReleaseCommit(s) PROVE TypeInv'
    <2>1. tx[s].ref \in Orders /\ tx[s].view \in ViewRecord /\ tx[s].items \in SUBSET Buckets
        BY <1>4 DEF ReleaseCommit, TypeInv, TxInv, RefOK, TxRecord
    <2>2. orders' \in [Orders -> OrderRecord]
        BY <1>4, <2>1 DEF ReleaseCommit, Advanced, TypeInv, TypeOK, OrderRecord, OrderStatus
    <2>3. rsvState' \in [Orders -> [Buckets -> ReservationState]]
        BY <1>4, <2>1 DEF ReleaseCommit, TypeInv, TypeOK, ReservationState
    <2>4. lastAfter' \in [Buckets -> 0 .. MaxStock]
        BY <1>4, <2>1 DEF ReleaseCommit, TypeInv, TypeOK, ViewRecord
    <2>5. TxInv'
        BY <1>4, IdleType, TxReplaced DEF ReleaseCommit, TypeInv
    <2> QED
        BY <1>4, <2>2, <2>3, <2>4, <2>5 DEF ReleaseCommit, TypeInv, TypeOK, TxInv, AdjustmentShape
<1>5. ASSUME NEW o \in Orders, Prepare(o) \/ ReadyForPickup(o) PROVE TypeInv'
    <2>1. orders' \in [Orders -> OrderRecord]
        <3>1. PICK to \in OrderStatus :
                 orders' = [orders EXCEPT ![o] = Advanced(orders[o], to, orders[o].payment, orders[o].cash)]
            BY <1>5 DEF Prepare, ReadyForPickup, Transition, OrderStatus
        <3> QED
            BY <3>1 DEF Advanced, TypeInv, TypeOK, OrderRecord
    <2> QED
        BY <1>5, <2>1 DEF Prepare, ReadyForPickup, Transition, TypeInv, TypeOK, TxInv, AdjustmentShape,
                          stock, reservations
<1> QED
    BY <1>1, <1>2, <1>3, <1>4, <1>5 DEF AdminStep, ConfirmBegin, TerminateBegin

\* Every receipt, transfer and adjustment keeps the type invariant.
LEMMA TypeStock ==
    ASSUME TypeInv, StockStep PROVE TypeInv'
<1>1. ASSUME NEW s \in Sessions, NEW m \in Moves, NEW mv \in MoveRecord,
             NEW kind \in {"receive", "transfer"}, ReplayLookup(s, m, mv, kind),
             mv.to \in Buckets, kind = "transfer" => mv.from \in Buckets /\ mv.from # mv.to
      PROVE  TypeInv'
    <2> DEFINE t == Tx(kind, "begun", 0, m, {}, NoTake, mv, NoView)
    <2>1. t \in TxRecord
        BY TxType, NoType
    <2>2. RefOK(t)
        BY <1>1 DEF RefOK, Tx
    <2> QED
        BY <1>1, <2>1, <2>2, TxOnlyType DEF ReplayLookup, TxOnly
<1>2. ASSUME NEW s \in Sessions, NEW m \in Moves, NEW b \in Buckets, NEW q \in MoveSizes,
             ReceiveBegin(s, m, b, q)
      PROVE  TypeInv'
    <2>1. [from |-> 0, to |-> b, quantity |-> q] \in MoveRecord
        BY NumBucketsAssumption, BoundsAssumption DEF MoveRecord, Buckets
    <2> QED
        BY <1>1, <1>2, <2>1 DEF ReceiveBegin
<1>3. ASSUME NEW s \in Sessions, NEW m \in Moves, NEW from \in Buckets, NEW to \in Buckets,
             NEW q \in MoveSizes, TransferBegin(s, m, from, to, q)
      PROVE  TypeInv'
    <2>1. [from |-> from, to |-> to, quantity |-> q] \in MoveRecord
        BY NumBucketsAssumption, BoundsAssumption DEF MoveRecord, Buckets
    <2> QED
        BY <1>1, <1>3, <2>1 DEF TransferBegin
<1>4. ASSUME NEW s \in Sessions, ReceiveCommit(s) PROVE TypeInv'
    <2>1. /\ tx[s].ref \in Moves /\ tx[s].move \in MoveRecord /\ tx[s].move.to \in Buckets
          /\ tx[s].move.quantity \in Nat
        BY <1>4 DEF ReceiveCommit, TypeInv, TxInv, RefOK, TxRecord, MoveRecord
    <2>2. /\ onHand' \in [Buckets -> 0 .. MaxStock] /\ version' \in [Buckets -> Nat]
          /\ lastAfter' \in [Buckets -> 0 .. MaxStock] /\ moves' \in [Moves -> MoveRecord]
        BY <1>4, <2>1, MaxStockAssumption DEF ReceiveCommit, TypeInv, TypeOK
    <2>3. TxInv'
        BY <1>4, IdleType, TxReplaced DEF ReceiveCommit, TypeInv
    <2> QED
        BY <1>4, <2>2, <2>3 DEF ReceiveCommit, TypeInv, TypeOK, TxInv, AdjustmentShape, reservations
<1>5. ASSUME NEW s \in Sessions, TransferCommit(s) PROVE TypeInv'
    <2>1. /\ tx[s].ref \in Moves /\ tx[s].move \in MoveRecord /\ tx[s].move.to \in Buckets
          /\ tx[s].move.quantity \in Nat /\ tx[s].move.from \in Buckets
          /\ tx[s].move.from # tx[s].move.to
        BY <1>5 DEF TransferCommit, TypeInv, TxInv, RefOK, TxRecord, MoveRecord
    <2>2. Reserved(tx[s].move.from, clock) \in Nat
        BY <2>1, ReservedNat DEF TypeInv
    <2>3. /\ onHand' \in [Buckets -> 0 .. MaxStock] /\ version' \in [Buckets -> Nat]
          /\ lastAfter' \in [Buckets -> 0 .. MaxStock] /\ moves' \in [Moves -> MoveRecord]
        <3> DEFINE mv == tx[s].move
        <3>1. onHand[mv.from] - mv.quantity \in 0 .. MaxStock /\ onHand[mv.to] + mv.quantity \in 0 .. MaxStock
            BY <1>5, <2>1, <2>2, MaxStockAssumption DEF TransferCommit, TransferAllowed, TypeInv, TypeOK
        <3>2. onHand' \in [Buckets -> 0 .. MaxStock]
            BY <1>5, <2>1, <3>1 DEF TransferCommit, TypeInv, TypeOK
        <3>3. lastAfter' \in [Buckets -> 0 .. MaxStock]
            BY <1>5, <2>1, <3>1 DEF TransferCommit, TypeInv, TypeOK
        <3>4. version' \in [Buckets -> Nat]
            <4>1. version[mv.from] + 1 \in Nat /\ version[mv.to] + 1 \in Nat
                BY <2>1 DEF TypeInv, TypeOK
            <4>2. version' = [version EXCEPT ![mv.from] = @ + 1, ![mv.to] = @ + 1]
                BY <1>5 DEF TransferCommit
            <4>3. version \in [Buckets -> Nat]
                BY DEF TypeInv, TypeOK
            <4> QED
                BY <2>1, <4>1, <4>2, <4>3
        <3>5. moves' \in [Moves -> MoveRecord]
            BY <1>5, <2>1 DEF TransferCommit, TypeInv, TypeOK
        <3> QED
            BY <3>2, <3>3, <3>4, <3>5
    <2>4. TxInv'
        BY <1>5, IdleType, TxReplaced DEF TransferCommit, TypeInv
    <2> QED
        BY <1>5, <2>3, <2>4 DEF TransferCommit, TypeInv, TypeOK, TxInv, AdjustmentShape, reservations
<1>6. ASSUME NEW a \in Adjustments, NEW b \in Buckets, NEW d \in Int, RequestAdjustment(a, b, d)
      PROVE  TypeInv'
    <2>1. PICK now \in {n \in 0 .. clock : clock - n <= TxTimeout} :
             adjustments' = [adjustments EXCEPT ![a] =
                Adjustment("PENDING_APPROVAL", b, d, version[b], onHand[b], now + ApprovalTTL)]
        BY <1>6 DEF RequestAdjustment
    <2>2. now \in Nat
        BY DEF TypeInv, TypeOK
    <2>3. Adjustment("PENDING_APPROVAL", b, d, version[b], onHand[b], now + ApprovalTTL)
             \in AdjustmentRecord
        BY <2>2, NumBucketsAssumption, TTLAssumption, MaxStockAssumption
        DEF Adjustment, AdjustmentRecord, TypeInv, TypeOK, Buckets
    <2> QED
        BY <1>6, <2>1, <2>3 DEF RequestAdjustment, TypeInv, TypeOK, TxInv, AdjustmentShape, Adjustment, stock,
                          reservations
<1>7. ASSUME NEW s \in Sessions, NEW a \in Adjustments, NEW d \in {"approve", "reject"},
             DecideBegin(s, a, d)
      PROVE  TypeInv'
    <2> DEFINE t == Tx(d, "begun", clock, a, {}, NoTake, NoMove, NoView)
    <2>1. t \in TxRecord
        BY TxType, NoType DEF TypeInv, TypeOK
    <2>2. RefOK(t)
        BY DEF RefOK, Tx
    <2> QED
        BY <1>7, <2>1, <2>2, TxOnlyType DEF DecideBegin, TxOnly
<1>8. ASSUME NEW s \in Sessions, NEW status \in {"APPLIED", "REJECTED", "EXPIRED"}, Pending(s),
             CloseAdjustment(s, status)
      PROVE  adjustments' \in [Adjustments -> AdjustmentRecord] /\ AdjustmentShape' /\ TxInv'
    <2>1. tx[s].ref \in Adjustments
        BY <1>8 DEF Pending, TypeInv, TxInv, RefOK
    <2>2. TxInv'
        BY <1>8, IdleType, TxReplaced DEF CloseAdjustment, TypeInv
    <2> QED
        BY <1>8, <2>1, <2>2 DEF CloseAdjustment, Adjustment, AdjustmentRecord, AdjustmentShape, Pending,
                                TypeInv, TypeOK
<1>9. ASSUME NEW s \in Sessions, DecideExpired(s) \/ DecideReject(s) PROVE TypeInv'
    BY <1>8, <1>9 DEF DecideExpired, DecideReject, TypeInv, TypeOK, TxInv, stock, reservations
<1>10. ASSUME NEW s \in Sessions, DecideApply(s) PROVE TypeInv'
    <2>1. adjustments[tx[s].ref].item \in Buckets
        BY <1>10 DEF DecideApply, Pending, TypeInv, TxInv, RefOK, AdjustmentShape
    <2>2. /\ onHand' \in [Buckets -> 0 .. MaxStock] /\ version' \in [Buckets -> Nat]
          /\ lastAfter' \in [Buckets -> 0 .. MaxStock]
        BY <1>10, <2>1 DEF DecideApply, AdjustmentFits, TypeInv, TypeOK
    <2> QED
        BY <1>8, <1>10, <2>2 DEF DecideApply, TypeInv, TypeOK, TxInv, reservations
<1> QED
    BY <1>2, <1>3, <1>4, <1>5, <1>6, <1>7, <1>9, <1>10, BoundsAssumption DEF StockStep

\* Every step keeps the type invariant.
LEMMA TypeStep ==
    TypeInv /\ [Next]_vars => TypeInv'
<1> SUFFICES ASSUME TypeInv, [Next]_vars PROVE TypeInv'
    OBVIOUS
<1>1. ASSUME NEW cutoff \in 0 .. clock, ExpireReservations(cutoff) PROVE TypeInv'
    BY <1>1 DEF ExpireReservations, ReservationState, TypeInv, TypeOK, TxInv, AdjustmentShape
<1>2. ASSUME NEW s \in Sessions, Rollback(s) PROVE TypeInv'
    BY <1>2, IdleType, TxOnlyType DEF Rollback, TxOnly
<1>3. CASE Tick
    BY <1>3 DEF Tick, TypeInv, TypeOK, TxInv, AdjustmentShape, stock, reservations
<1>4. CASE UNCHANGED vars
    BY <1>4 DEF vars, TypeInv, TypeOK, TxInv, AdjustmentShape, stock, reservations
<1> QED
    BY <1>1, <1>2, <1>3, <1>4, TypeCustomer, TypeAdmin, TypeStock DEF Next, Sweep

\* Type correctness of the composed specification: in particular physical
\* stock is never negative and never leaves the database integer's range.
THEOREM TypeCorrect ==
    Spec => []TypeOK
<1>1. Spec => []TypeInv
    BY TypeInit, TypeStep, PTL DEF Spec
<1> QED
    BY <1>1, PTL DEF TypeInv

-----------------------------------------------------------------------------
(* No oversell.  A step is made by at most one session; it leaves alone the *)
(* transactions of the others and the items they have locked, so what they  *)
(* decided still fits the shelf.                                            *)

-----------------------------------------------------------------------------
(* Sets of reserved units *)

\* An item as another session's lock protects it: same stock, no new units.
Quiet(b) ==
    onHand'[b] = onHand[b] /\ ReservedUnits(b, clock)' \subseteq ReservedUnits(b, clock)

\* Membership in the set of reserved units.
LEMMA InReserved ==
    ASSUME NEW b, NEW t, NEW x
    PROVE  x \in ReservedUnits(b, t) <=> \E o \in Orders : Live(o, b, t) /\ x \in Units(o, b)
BY DEF ReservedUnits

\* The same after a step, at the clock after it.
LEMMA InReservedNext ==
    ASSUME NEW b, NEW x
    PROVE  x \in ReservedUnits(b, clock)' <=>
              \E o \in Orders : Live(o, b, clock)' /\ x \in Units(o, b)'
BY DEF ReservedUnits

\* Fewer units are reserved as time passes.
LEMMA ReservedLater ==
    ASSUME TypeOK, NEW b \in Buckets, NEW t \in Nat, t <= clock
    PROVE  ReservedUnits(b, clock) \subseteq ReservedUnits(b, t) /\ Reserved(b, clock) <= Reserved(b, t)
<1>1. \A o \in Orders : Live(o, b, clock) => Live(o, b, t)
    BY DEF Live, TypeOK
<1>2. ReservedUnits(b, clock) \subseteq ReservedUnits(b, t)
    BY <1>1, InReserved
<1>3. IsFiniteSet(ReservedUnits(b, t))
    BY ReservedFinite
<1> QED
    BY <1>2, <1>3, FS_Subset DEF Reserved

\* The reserved quantity is a natural number, and smaller for a smaller set.
LEMMA ReservedShrinks ==
    ASSUME TypeOK, TypeOK', NEW b \in Buckets,
           ReservedUnits(b, clock)' \subseteq ReservedUnits(b, clock)
    PROVE  /\ Reserved(b, clock) \in Nat /\ Reserved(b, clock)' \in Nat
           /\ Reserved(b, clock)' <= Reserved(b, clock)
<1>1. IsFiniteSet(ReservedUnits(b, clock))
    BY ReservedFinite
<1>2. IsFiniteSet(ReservedUnits(b, clock)') /\ Cardinality(ReservedUnits(b, clock)') <= Cardinality(ReservedUnits(b, clock))
    BY <1>1, FS_Subset
<1> QED
    BY <1>1, <1>2, FS_CardinalityType DEF Reserved

\* A step that moves no reservation row towards ACTIVE, changes no quantity and
\* does not turn back time reserves no new units.
LEMMA RowsShrink ==
    ASSUME TypeOK, TypeOK', clock <= clock', NEW b \in Buckets,
           \A o \in Orders : Live(o, b, clock)' =>
              /\ rsvState[o][b] = "ACTIVE" /\ expiresAt'[o] = expiresAt[o]
              /\ rsvQty'[o][b] = rsvQty[o][b]
    PROVE  ReservedUnits(b, clock)' \subseteq ReservedUnits(b, clock)
<1>1. ASSUME NEW o \in Orders, Live(o, b, clock)' PROVE Live(o, b, clock) /\ Units(o, b)' = Units(o, b)
    <2>1. expiresAt'[o] > clock' /\ expiresAt[o] \in Nat /\ clock \in Nat /\ clock' \in Nat
        BY <1>1 DEF Live, TypeOK
    <2> QED
        BY <1>1, <2>1 DEF Live, Units
<1> QED
    BY <1>1, InReserved, InReservedNext

-----------------------------------------------------------------------------
(* Frames *)

\* What a step of session s leaves alone.
Frame(s) ==
    /\ clock <= clock'
    /\ \A t \in Sessions : t # s => tx'[t] = tx[t] /\ \A b \in LockedItems(t) : Quiet(b)
    /\ \A o \in Orders :
          orders[o].status # "NONE" => orders'[o].status # "NONE" /\ rsvQty'[o] = rsvQty[o]

\* The decision of a session is good after a step of another one.
LEMMA DecisionKept ==
    ASSUME StockInv, TypeInv', NEW s, Frame(s), NEW t \in Sessions, t # s
    PROVE  DecisionOK(t)'
<1>1. /\ TypeOK /\ TypeOK' /\ DecisionOK(t) /\ tx'[t] = tx[t] /\ tx[t] \in TxRecord /\ RefOK(tx[t])
      /\ clock \in Nat /\ clock' \in Nat /\ clock <= clock'
    BY DEF StockInv, TypeInv, TxInv, TypeOK, DecisionsHold, Frame
<1>2. tx[t].now \in Nat /\ tx[t].items \subseteq Buckets /\ tx[t].take \in [Buckets -> 0 .. MaxStock]
    BY <1>1 DEF TxRecord
<1>3. tx'[t].now <= clock'
    BY <1>1, <1>2 DEF DecisionOK
<1>4. tx[t].kind = "confirm" => /\ orders[tx[t].ref].status # "NONE" /\ tx[t].ref \in Orders
                                /\ orders'[tx[t].ref].status # "NONE"
                                /\ rsvQty'[tx[t].ref] = rsvQty[tx[t].ref]
    BY <1>1 DEF DecisionOK, RefOK, Frame
<1>5. ASSUME tx[t].pc = "locked", NEW b \in tx[t].items
      PROVE  /\ b \in Buckets /\ onHand'[b] = onHand[b] /\ onHand[b] \in Nat
             /\ ReservedUnits(b, clock)' \subseteq ReservedUnits(b, clock)
    BY <1>1, <1>2, <1>5, MaxStockAssumption DEF LockedItems, Frame, Quiet, TypeOK
<1>6. TakeFits(t)'
    <2> SUFFICES ASSUME tx[t].kind = "checkout", tx[t].pc = "locked", NEW b \in Buckets, tx[t].take[b] > 0
                 PROVE  b \in tx[t].items /\ Reserved(b, clock)' + tx[t].take[b] <= onHand'[b]
        BY <1>1 DEF TakeFits
    <2>1. b \in tx[t].items /\ Reserved(b, clock) + tx[t].take[b] <= onHand[b]
        BY <1>1 DEF DecisionOK, TakeFits
    <2>2. /\ Reserved(b, clock) \in Nat /\ Reserved(b, clock)' \in Nat
          /\ Reserved(b, clock)' <= Reserved(b, clock)
        BY <1>1, <1>5, <2>1, ReservedShrinks
    <2>3. tx[t].take[b] \in Nat
        BY <1>2, MaxStockAssumption
    <2> QED
        BY <1>5, <2>1, <2>2, <2>3
<1>7. ConsumptionFits(t)'
    <2> DEFINE o == tx[t].ref
    <2> SUFFICES ASSUME tx[t].kind = "confirm", tx[t].pc = "locked", NEW b \in tx[t].items
                 PROVE  Cardinality(ReservedUnits(b, clock)' \cup Units(o, b)') <= onHand'[b]
        BY <1>1 DEF ConsumptionFits
    <2>1. Units(o, b)' = Units(o, b)
        BY <1>1, <1>4 DEF Units
    <2>2. IsFiniteSet(ReservedUnits(b, clock) \cup Units(o, b))
        BY <1>1, <1>4, <1>5, ReservedFinite, UnitsCount, FS_Union
    <2>3. Cardinality(ReservedUnits(b, clock) \cup Units(o, b)) \in Nat
        BY <2>2, FS_CardinalityType
    <2>4. ReservedUnits(b, clock)' \cup Units(o, b)' \subseteq ReservedUnits(b, clock) \cup Units(o, b)
        BY <1>5, <2>1
    <2>5. /\ IsFiniteSet(ReservedUnits(b, clock)' \cup Units(o, b)')
          /\ Cardinality(ReservedUnits(b, clock)' \cup Units(o, b)')
                <= Cardinality(ReservedUnits(b, clock) \cup Units(o, b))
        BY <2>2, <2>4, FS_Subset
    <2>6. Cardinality(ReservedUnits(b, clock)' \cup Units(o, b)') \in Nat
        BY <2>5, FS_CardinalityType
    <2>7. Cardinality(ReservedUnits(b, clock) \cup Units(o, b)) <= onHand[b]
        BY <1>1 DEF DecisionOK, ConsumptionFits
    <2> QED
        BY <1>5, <2>3, <2>5, <2>6, <2>7
<1> QED
    BY <1>1, <1>3, <1>4, <1>6, <1>7 DEF DecisionOK

\* A framed step keeps the invariant if its own session ends well.
LEMMA FrameKeeps ==
    ASSUME StockInv, TypeInv', NoOversell', NEW s, Frame(s),
           s \in Sessions => DecisionOK(s)' /\ ItemsFree(LockedItems(s)', s)
    PROVE  StockInv'
<1>1. \A t \in Sessions : DecisionOK(t)'
    BY DecisionKept
<1>2. \A t \in Sessions : t # s => LockedItems(t)' = LockedItems(t)
    BY DEF Frame, LockedItems
<1>3. LocksExclusive'
    BY <1>2 DEF LocksExclusive, ItemsFree, StockInv, DecisionsHold
<1> QED
    BY <1>1, <1>3 DEF StockInv, DecisionsHold

\* A session without a transaction has nothing to keep.
LEMMA IdleGood ==
    ASSUME TypeInv', NEW s, tx'[s] = Idle
    PROVE  DecisionOK(s)' /\ ItemsFree(LockedItems(s)', s)
<1>1. clock' \in Nat
    BY DEF TypeInv, TypeOK
<1>2. tx'[s].kind = "none" /\ tx'[s].pc = "idle" /\ tx'[s].now = 0
    BY DEF Idle, Tx
<1>3. LockedItems(s)' = {}
    BY <1>2 DEF LockedItems
<1>4. ItemsFree(LockedItems(s)', s)
    BY <1>3 DEF ItemsFree
<1> QED
    BY <1>1, <1>2, <1>4 DEF DecisionOK, TakeFits, ConsumptionFits

\* Items whose rows do not change are quiet.
LEMMA SameRows ==
    ASSUME onHand' = onHand, rsvQty' = rsvQty, rsvState' = rsvState, expiresAt' = expiresAt,
           TypeOK, TypeOK', clock <= clock'
    PROVE  \A b \in Buckets : Quiet(b)
<1> TAKE b \in Buckets
<1>1. ReservedUnits(b, clock)' \subseteq ReservedUnits(b, clock)
    BY RowsShrink DEF Live
<1> QED
    BY <1>1 DEF Quiet

\* Stock of quiet items is not oversold.
LEMMA QuietFits ==
    ASSUME TypeOK, TypeOK', NEW b \in Buckets, Quiet(b), Reserved(b, clock) <= onHand[b]
    PROVE  Reserved(b, clock)' <= onHand'[b]
<1>1. onHand[b] \in Nat
    BY MaxStockAssumption DEF TypeOK
<1> QED
    BY <1>1, ReservedShrinks DEF Quiet

\* A step that only opens, advances or closes the transaction of s.
LEMMA TxOnlyKeeps ==
    ASSUME StockInv, TypeInv', TxOnly, NEW s \in Sessions, NEW t, tx' = [tx EXCEPT ![s] = t],
           DecisionOK(s)', ItemsFree(LockedItems(s)', s)
    PROVE  StockInv'
<1>1. TypeOK /\ TypeOK' /\ tx \in [Sessions -> TxRecord] /\ clock' = clock /\ clock \in Nat
    BY DEF StockInv, TypeInv, TypeOK, TxOnly
<1>2. \A b \in Buckets : Quiet(b)
    BY <1>1, SameRows DEF TxOnly, stock, reservations
<1>3. NoOversell'
    BY <1>1, <1>2, QuietFits DEF NoOversell, StockInv
<1>4. \A u \in Sessions : LockedItems(u) \subseteq Buckets
    BY <1>1 DEF LockedItems, TxRecord
<1>5. Frame(s)
    BY <1>1, <1>2, <1>4 DEF Frame, TxOnly, reservations
<1> QED
    BY <1>3, <1>5, FrameKeeps

\* A commit by s closes its transaction; all other transactions stay.
LEMMA CommitKeeps ==
    ASSUME StockInv, TypeInv', NEW s \in Sessions, tx' = [tx EXCEPT ![s] = Idle], clock' = clock,
           \A b \in Buckets : Reserved(b, clock)' <= onHand'[b],
           \A t \in Sessions : t # s => \A b \in LockedItems(t) : Quiet(b),
           \A o \in Orders :
              orders[o].status # "NONE" => orders'[o].status # "NONE" /\ rsvQty'[o] = rsvQty[o]
    PROVE  StockInv'
<1>1. tx \in [Sessions -> TxRecord] /\ clock \in Nat
    BY DEF StockInv, TypeInv, TypeOK
<1>2. Frame(s)
    BY <1>1 DEF Frame
<1>3. DecisionOK(s)' /\ ItemsFree(LockedItems(s)', s)
    BY <1>1, IdleGood
<1> QED
    BY <1>2, <1>3, FrameKeeps DEF NoOversell

\* A step without a session that leaves physical stock alone and adds no unit.
LEMMA SystemKeeps ==
    ASSUME StockInv, TypeInv', tx' = tx, clock <= clock',
           \A b \in Buckets : Quiet(b),
           \A o \in Orders :
              orders[o].status # "NONE" => orders'[o].status # "NONE" /\ rsvQty'[o] = rsvQty[o]
    PROVE  StockInv'
<1>1. PICK s : s \notin Sessions
    BY NoSetContainsEverything
<1>2. TypeOK /\ TypeOK' /\ tx \in [Sessions -> TxRecord]
    BY DEF StockInv, TypeInv, TypeOK
<1>3. \A u \in Sessions : LockedItems(u) \subseteq Buckets
    BY <1>2 DEF LockedItems, TxRecord
<1>4. Frame(s)
    BY <1>3 DEF Frame
<1>5. NoOversell'
    BY <1>2, QuietFits DEF NoOversell, StockInv
<1> QED
    BY <1>1, <1>4, <1>5, FrameKeeps

-----------------------------------------------------------------------------
(* Checkout *)

\* The lock step of a checkout decides on stock as of its own clock, which
\* counts at least the units reserved now.
LEMMA CheckoutLockStep ==
    ASSUME StockInv, TypeInv', NEW s \in Sessions, CheckoutLock(s)
    PROVE  StockInv'
<1> DEFINE t == tx[s]
           avail == [b \in t.items |-> Available(b, t.now)]
<1>1. PICK take \in Allocations(carts[Owner[t.ref]].request, t.items, avail) :
         tx' = [tx EXCEPT ![s] =
            Tx("checkout", "locked", t.now, t.ref, t.items, take, NoMove, NoView)]
    BY DEF CheckoutLock
<1>2. /\ TypeOK /\ t \in TxRecord /\ t.now <= clock /\ TxOnly /\ ItemsFree(t.items, s)
      /\ tx \in [Sessions -> TxRecord]
    BY DEF StockInv, TypeInv, TypeOK, DecisionsHold, DecisionOK, CheckoutLock, TxOnly
<1>3. /\ tx'[s].kind = "checkout" /\ tx'[s].pc = "locked" /\ tx'[s].now = t.now
      /\ tx'[s].items = t.items /\ tx'[s].take = take
    BY <1>1, <1>2 DEF Tx
<1>4. t.now \in Nat /\ t.items \subseteq Buckets /\ clock' = clock /\ onHand' = onHand
    BY <1>2 DEF TxRecord, TxOnly, stock
<1>5. \A b \in Buckets : Reserved(b, clock)' = Reserved(b, clock)
    BY <1>2 DEF TxOnly, reservations, Reserved, ReservedUnits, Units, Live
<1>6. ASSUME NEW b \in Buckets, take[b] > 0
      PROVE  b \in t.items /\ Reserved(b, clock) + take[b] <= onHand[b]
    <2>1. take[b] \in 0 .. MaxStock /\ take[b] <= (IF b \in t.items THEN avail[b] ELSE 0)
        BY DEF Allocations
    <2>2. b \in t.items /\ take[b] <= onHand[b] - Reserved(b, t.now)
        BY <1>6, <2>1 DEF Available
    <2>3. /\ Reserved(b, t.now) \in Nat /\ Reserved(b, clock) \in Nat
          /\ Reserved(b, clock) <= Reserved(b, t.now)
        BY <1>2, <1>4, ReservedNat, ReservedLater
    <2>4. onHand[b] \in Nat /\ take[b] \in Nat
        BY <1>2, <2>1, MaxStockAssumption DEF TypeOK
    <2> QED
        BY <2>2, <2>3, <2>4
<1>7. TakeFits(s)'
    BY <1>3, <1>4, <1>5, <1>6 DEF TakeFits
<1>8. DecisionOK(s)'
    BY <1>2, <1>3, <1>4, <1>7 DEF DecisionOK, ConsumptionFits
<1>9. ItemsFree(LockedItems(s)', s)
    BY <1>2, <1>3 DEF LockedItems
<1> QED
    BY <1>1, <1>2, <1>8, <1>9, TxOnlyKeeps

\* A new order adds its units to the items it took them from, and no others.
LEMMA CheckoutCommitStep ==
    ASSUME StockInv, TypeInv', NEW s \in Sessions, NEW o \in Orders, CheckoutCommit(s, o)
    PROVE  StockInv'
<1> DEFINE take == tx[s].take
<1>1. /\ TypeOK /\ TypeOK' /\ LocksExclusive /\ TakeFits(s) /\ NoOversell
      /\ tx[s] \in TxRecord /\ tx[s].pc = "locked" /\ tx[s].kind = "checkout"
    BY DEF StockInv, TypeInv, TypeOK, DecisionsHold, DecisionOK, CheckoutCommit
<1>2. /\ clock' = clock /\ clock \in Nat /\ onHand' = onHand /\ orders[o].status = "NONE"
      /\ rsvQty' = [rsvQty EXCEPT ![o] = take]
      /\ rsvState' = [rsvState EXCEPT ![o] =
              [b \in Buckets |-> IF take[b] > 0 THEN "ACTIVE" ELSE "NONE"]]
      /\ tx' = [tx EXCEPT ![s] = Idle]
    BY <1>1 DEF CheckoutCommit, TypeOK
<1>3. \A p \in Orders : p # o => expiresAt'[p] = expiresAt[p]
    BY <1>1 DEF CheckoutCommit, TypeOK
<1>4. take \in [Buckets -> 0 .. MaxStock]
    BY <1>1 DEF TxRecord
<1>5. ASSUME NEW b \in Buckets, ~(take[b] > 0) PROVE Quiet(b)
    <2>1. rsvState'[o][b] = "NONE"
        BY <1>1, <1>2, <1>5 DEF TypeOK
    <2>2. \A p \in Orders : p # o => rsvState'[p] = rsvState[p] /\ rsvQty'[p] = rsvQty[p]
        BY <1>1, <1>2 DEF TypeOK
    <2>3. \A p \in Orders : Live(p, b, clock)' =>
             rsvState[p][b] = "ACTIVE" /\ expiresAt'[p] = expiresAt[p] /\ rsvQty'[p][b] = rsvQty[p][b]
        BY <1>3, <2>1, <2>2 DEF Live
    <2>4. ReservedUnits(b, clock)' \subseteq ReservedUnits(b, clock)
        BY <1>1, <1>2, <2>3, RowsShrink
    <2> QED
        BY <1>2, <2>4 DEF Quiet
<1>6. ASSUME NEW b \in Buckets, take[b] > 0 PROVE Reserved(b, clock)' <= onHand'[b]
    <2> DEFINE R == ReservedUnits(b, clock)
               U == {o} \X (1 .. take[b])
    <2>1. take[b] \in Nat /\ onHand[b] \in Nat
        BY <1>1, <1>4, MaxStockAssumption DEF TypeOK
    <2>2. Units(o, b)' = U /\ \A p \in Orders : p # o => Units(p, b)' = Units(p, b)
        BY <1>1, <1>2 DEF Units, TypeOK
    <2>3. \A p \in Orders : p # o => (Live(p, b, clock)' <=> Live(p, b, clock))
        BY <1>1, <1>2, <1>3 DEF Live, TypeOK
    <2>4. ReservedUnits(b, clock)' \subseteq R \cup U
        BY <2>2, <2>3, InReserved, InReservedNext
    <2>5. IsFiniteSet(R) /\ Cardinality(R) \in Nat
        BY <1>1, ReservedFinite, FS_CardinalityType
    <2>6. IsFiniteSet(U) /\ Cardinality(U) = take[b]
        BY <2>1, CountUnits
    <2>7. /\ IsFiniteSet(R \cup U) /\ Cardinality(R \cap U) \in Nat
          /\ Cardinality(R \cup U) = Cardinality(R) + Cardinality(U) - Cardinality(R \cap U)
        BY <2>5, <2>6, FS_Union, FS_Intersection, FS_CardinalityType
    <2>8. /\ Cardinality(ReservedUnits(b, clock)') \in Nat
          /\ Cardinality(ReservedUnits(b, clock)') <= Cardinality(R \cup U)
        BY <2>4, <2>7, FS_Subset, FS_CardinalityType
    <2>9. Cardinality(R) + take[b] <= onHand[b]
        BY <1>1, <1>6 DEF TakeFits, Reserved
    <2> HIDE DEF R, U
    <2>10. Cardinality(ReservedUnits(b, clock)') <= onHand[b]
        BY <2>1, <2>5, <2>6, <2>7, <2>8, <2>9
    <2> QED
        BY <1>2, <2>10 DEF Reserved
<1>7. \A b \in Buckets : Reserved(b, clock)' <= onHand'[b]
    BY <1>1, <1>5, <1>6, QuietFits DEF NoOversell
<1>8. ASSUME NEW t \in Sessions, t # s, NEW b \in LockedItems(t) PROVE Quiet(b)
    <2>1. b \in Buckets
        BY <1>1 DEF LockedItems, TypeOK, TxRecord
    <2>2. b \notin tx[s].items
        BY <1>1, <1>8 DEF LocksExclusive, LockedItems
    <2> QED
        BY <1>1, <1>5, <2>1, <2>2 DEF TakeFits
<1>9. \A p \in Orders :
         orders[p].status # "NONE" => orders'[p].status # "NONE" /\ rsvQty'[p] = rsvQty[p]
    BY <1>1, <1>2 DEF CheckoutCommit, TypeOK
<1> QED
    BY <1>2, <1>7, <1>8, <1>9, CommitKeeps

-----------------------------------------------------------------------------
(* Confirmation and release *)

\* An unexpired reservation that a confirmation locks is among the units
\* reserved now, so consuming it fits.
LEMMA ConfirmLockStep ==
    ASSUME StockInv, TypeInv', NEW s \in Sessions, ConfirmLock(s)
    PROVE  StockInv'
<1> DEFINE o == tx[s].ref
           t == Tx(tx[s].kind, "locked", clock, o, ActiveItems(o), NoTake, NoMove, tx[s].view)
<1>1. /\ TypeOK /\ tx \in [Sessions -> TxRecord] /\ o \in Orders /\ NoOversell
      /\ tx[s].kind = "confirm" /\ orders[o].status # "NONE" /\ clock \in Nat
    BY DEF StockInv, TypeInv, TypeOK, TxInv, RefOK, DecisionsHold, DecisionOK, ConfirmLock
<1>2. TxOnly /\ tx' = [tx EXCEPT ![s] = t] /\ ItemsFree(ActiveItems(o), s) /\ expiresAt[o] > clock
    BY DEF ConfirmLock, LockActiveInventory, CoverageOK, TxOnly
<1>3. /\ tx'[s].kind = "confirm" /\ tx'[s].pc = "locked" /\ tx'[s].now = clock
      /\ tx'[s].items = ActiveItems(o) /\ tx'[s].ref = o
    BY <1>1, <1>2 DEF Tx
<1>4. ASSUME NEW b \in ActiveItems(o)
      PROVE  Cardinality(ReservedUnits(b, clock) \cup Units(o, b)) <= onHand[b]
    <2>1. b \in Buckets /\ Live(o, b, clock)
        BY <1>2 DEF ActiveItems, Live
    <2>2. Units(o, b) \subseteq ReservedUnits(b, clock)
        BY <1>1, <2>1, InReserved
    <2>3. ReservedUnits(b, clock) \cup Units(o, b) = ReservedUnits(b, clock)
        BY <2>2
    <2> QED
        BY <1>1, <2>1, <2>3 DEF NoOversell, Reserved
<1>5. clock' = clock /\ onHand' = onHand /\ orders' = orders
    BY <1>2 DEF TxOnly, stock
<1>6. \A b \in ActiveItems(o) :
         ReservedUnits(b, clock)' = ReservedUnits(b, clock) /\ Units(o, b)' = Units(o, b)
    <2>1. \A p \in Orders, b \in Buckets : (Live(p, b, clock)' <=> Live(p, b, clock)) /\ Units(p, b)' = Units(p, b)
        BY <1>2, <1>5 DEF TxOnly, reservations, Units, Live
    <2>2. ActiveItems(o) \subseteq Buckets
        BY DEF ActiveItems
    <2>3. ASSUME NEW b \in Buckets PROVE ReservedUnits(b, clock)' = ReservedUnits(b, clock)
        <3>1. ReservedUnits(b, clock)' \subseteq ReservedUnits(b, clock)
            BY <2>1, InReserved, InReservedNext
        <3>2. ReservedUnits(b, clock) \subseteq ReservedUnits(b, clock)'
            BY <2>1, InReserved, InReservedNext
        <3> QED
            BY <3>1, <3>2
    <2>4. \A b \in Buckets : Units(o, b)' = Units(o, b)
        BY <1>2, <1>3 DEF Units, TxOnly, reservations
    <2> QED
        BY <2>2, <2>3, <2>4
<1>7. ConsumptionFits(s)'
    <2> SUFFICES ASSUME NEW b \in ActiveItems(o)
                 PROVE  Cardinality(ReservedUnits(b, clock)' \cup Units(o, b)') <= onHand'[b]
        BY <1>3 DEF ConsumptionFits
    <2> QED
        BY <1>4, <1>5, <1>6
<1>8. DecisionOK(s)'
    BY <1>1, <1>3, <1>5, <1>7 DEF DecisionOK, TakeFits
<1>9. ItemsFree(LockedItems(s)', s)
    BY <1>2, <1>3 DEF LockedItems
<1> QED
    BY <1>2, <1>8, <1>9, TxOnlyKeeps

\* The lock steps that will only release decide nothing about stock.
LEMMA ReleaseLockStep ==
    ASSUME StockInv, TypeInv', NEW s \in Sessions, TerminateLock(s) \/ CancelLock(s)
    PROVE  StockInv'
<1> DEFINE o == tx[s].ref
           t == Tx(tx[s].kind, "locked", clock, o, ActiveItems(o), NoTake, NoMove, tx[s].view)
<1>1. /\ tx \in [Sessions -> TxRecord] /\ clock \in Nat /\ clock' = clock
      /\ tx[s].kind \in {"terminate", "cancel"}
      /\ TxOnly /\ tx' = [tx EXCEPT ![s] = t] /\ ItemsFree(ActiveItems(o), s)
    BY DEF StockInv, TypeInv, TypeOK, TerminateLock, CancelLock, LockActiveInventory, TxOnly
<1>2. /\ tx'[s].kind \in {"terminate", "cancel"} /\ tx'[s].pc = "locked" /\ tx'[s].now = clock
      /\ tx'[s].items = ActiveItems(o)
    BY <1>1 DEF Tx
<1>3. DecisionOK(s)'
    BY <1>1, <1>2 DEF DecisionOK, TakeFits, ConsumptionFits
<1>4. ItemsFree(LockedItems(s)', s)
    BY <1>1, <1>2 DEF LockedItems
<1> QED
    BY <1>1, <1>3, <1>4, TxOnlyKeeps

\* A confirmation takes from the shelf exactly the units it unreserves, or
\* units that were kept for it after they expired.
LEMMA ConfirmCommitStep ==
    ASSUME StockInv, TypeInv', NEW s \in Sessions, ConfirmCommit(s)
    PROVE  StockInv'
<1> DEFINE o == tx[s].ref
           items == tx[s].items
<1>1. /\ TypeOK /\ TypeOK' /\ LocksExclusive /\ ConsumptionFits(s) /\ NoOversell
      /\ o \in Orders /\ items \subseteq Buckets /\ tx[s].pc = "locked" /\ tx[s].kind = "confirm"
    BY DEF StockInv, TypeInv, TypeOK, TxInv, RefOK, TxRecord, DecisionsHold, DecisionOK, ConfirmCommit
<1>2. /\ clock' = clock /\ clock \in Nat /\ rsvQty' = rsvQty /\ expiresAt' = expiresAt
      /\ rsvState' = [rsvState EXCEPT ![o] =
              [b \in Buckets |-> IF b \in items THEN "CONSUMED" ELSE rsvState[o][b]]]
      /\ onHand' = [b \in Buckets |-> IF b \in items THEN onHand[b] - rsvQty[o][b] ELSE onHand[b]]
      /\ tx' = [tx EXCEPT ![s] = Idle]
    BY <1>1 DEF ConfirmCommit, TypeOK
<1>3. ASSUME NEW b \in Buckets PROVE ReservedUnits(b, clock)' \subseteq ReservedUnits(b, clock)
    <2>1. \A p \in Orders : Live(p, b, clock)' =>
             rsvState[p][b] = "ACTIVE" /\ expiresAt'[p] = expiresAt[p] /\ rsvQty'[p][b] = rsvQty[p][b]
        BY <1>1, <1>2 DEF Live, TypeOK
    <2> QED
        BY <1>1, <1>2, <2>1, RowsShrink
<1>4. ASSUME NEW b \in Buckets, b \notin items PROVE Quiet(b)
    BY <1>2, <1>3, <1>4 DEF Quiet
<1>5. ASSUME NEW b \in items PROVE Reserved(b, clock)' <= onHand'[b]
    <2> DEFINE R == ReservedUnits(b, clock)
               S == ReservedUnits(b, clock)'
               U == Units(o, b)
    <2>1. b \in Buckets /\ rsvQty[o][b] \in Nat /\ onHand[b] \in Nat
        BY <1>1, MaxStockAssumption DEF TypeOK
    <2>2. rsvState'[o][b] = "CONSUMED"
        BY <1>1, <1>2, <2>1 DEF TypeOK
    <2>3. S \cap U = {}
        <3>1. \A p \in Orders : Live(p, b, clock)' => p # o
            BY <2>2 DEF Live
        <3>2. \A p \in Orders : p # o => Units(p, b)' \cap U = {}
            BY <1>2 DEF Units
        <3> QED
            BY <3>1, <3>2, InReservedNext
    <2>4. S \cup U \subseteq R \cup U
        BY <1>3, <2>1
    <2>5. IsFiniteSet(R) /\ IsFiniteSet(U) /\ Cardinality(U) = rsvQty[o][b]
        BY <1>1, <2>1, ReservedFinite, UnitsCount
    <2>6. IsFiniteSet(S) /\ Cardinality(S) \in Nat
        BY <1>3, <2>1, <2>5, FS_Subset, FS_CardinalityType
    <2>7. Cardinality(S \cup U) = Cardinality(S) + Cardinality(U) - Cardinality({})
        BY <2>3, <2>5, <2>6, FS_Union
    <2>8. IsFiniteSet(R \cup U) /\ Cardinality(R \cup U) \in Nat
        BY <2>5, FS_Union, FS_CardinalityType
    <2>9. Cardinality(S \cup U) <= Cardinality(R \cup U)
        BY <2>4, <2>8, FS_Subset
    <2>10. Cardinality(R \cup U) <= onHand[b]
        BY <1>1 DEF ConsumptionFits
    <2>11. onHand'[b] = onHand[b] - rsvQty[o][b]
        BY <1>2, <2>1
    <2> HIDE DEF R, S, U
    <2>12. Cardinality(S) <= onHand'[b]
        BY <2>1, <2>5, <2>6, <2>7, <2>8, <2>9, <2>10, <2>11, FS_EmptySet
    <2> QED
        BY <2>12 DEF S, Reserved
<1>6. \A b \in Buckets : Reserved(b, clock)' <= onHand'[b]
    BY <1>1, <1>4, <1>5, QuietFits DEF NoOversell
<1>7. ASSUME NEW t \in Sessions, t # s, NEW b \in LockedItems(t) PROVE Quiet(b)
    <2>1. b \in Buckets
        BY <1>1 DEF LockedItems, TypeOK, TxRecord
    <2>2. b \notin items
        BY <1>1, <1>7 DEF LocksExclusive, LockedItems
    <2> QED
        BY <1>4, <2>1, <2>2
<1>8. \A p \in Orders :
         orders[p].status # "NONE" => orders'[p].status # "NONE" /\ rsvQty'[p] = rsvQty[p]
    BY <1>1, <1>2 DEF ConfirmCommit, Advanced, TypeOK
<1> QED
    BY <1>2, <1>6, <1>7, <1>8, CommitKeeps

\* A release gives up units and takes nothing from the shelf.
LEMMA ReleaseCommitStep ==
    ASSUME StockInv, TypeInv', NEW s \in Sessions, ReleaseCommit(s)
    PROVE  StockInv'
<1> DEFINE o == tx[s].ref
           items == tx[s].items
<1>1. TypeOK /\ TypeOK' /\ NoOversell /\ o \in Orders /\ items \subseteq Buckets
    BY DEF StockInv, TypeInv, TypeOK, TxInv, RefOK, TxRecord, ReleaseCommit
<1>2. /\ clock' = clock /\ clock \in Nat /\ rsvQty' = rsvQty /\ expiresAt' = expiresAt
      /\ rsvState' = [rsvState EXCEPT ![o] =
              [b \in Buckets |-> IF b \in items THEN "RELEASED" ELSE rsvState[o][b]]]
      /\ onHand' = onHand /\ tx' = [tx EXCEPT ![s] = Idle]
    BY <1>1 DEF ReleaseCommit, TypeOK
<1>3. ASSUME NEW b \in Buckets PROVE Quiet(b)
    <2>1. \A p \in Orders : Live(p, b, clock)' =>
             rsvState[p][b] = "ACTIVE" /\ expiresAt'[p] = expiresAt[p] /\ rsvQty'[p][b] = rsvQty[p][b]
        BY <1>1, <1>2 DEF Live, TypeOK
    <2> QED
        BY <1>1, <1>2, <2>1, RowsShrink DEF Quiet
<1>4. \A b \in Buckets : Reserved(b, clock)' <= onHand'[b]
    BY <1>1, <1>3, QuietFits DEF NoOversell
<1>5. \A t \in Sessions : LockedItems(t) \subseteq Buckets
    BY <1>1 DEF LockedItems, TypeOK, TxRecord
<1>6. \A p \in Orders :
         orders[p].status # "NONE" => orders'[p].status # "NONE" /\ rsvQty'[p] = rsvQty[p]
    BY <1>1, <1>2 DEF ReleaseCommit, Advanced, TypeOK
<1> QED
    BY <1>2, <1>3, <1>4, <1>5, <1>6, CommitKeeps

-----------------------------------------------------------------------------
(* Receipts, transfers and adjustments *)

\* A commit that sets the stock of items nobody has locked to something that
\* still covers their reservations, and touches no reservation.
LEMMA StockCommitKeeps ==
    ASSUME StockInv, TypeInv', NEW s \in Sessions, tx' = [tx EXCEPT ![s] = Idle], clock' = clock,
           orders' = orders, rsvQty' = rsvQty, rsvState' = rsvState, expiresAt' = expiresAt,
           NEW S \in SUBSET Buckets, ItemsFree(S, s),
           \A b \in Buckets \ S : onHand'[b] = onHand[b],
           \A b \in S : Reserved(b, clock) <= onHand'[b]
    PROVE  StockInv'
<1>1. TypeOK /\ TypeOK' /\ NoOversell /\ clock \in Nat
    BY DEF StockInv, TypeInv, TypeOK
<1>2. \A b \in Buckets : ReservedUnits(b, clock)' \subseteq ReservedUnits(b, clock)
    BY <1>1, RowsShrink DEF Live
<1>3. ASSUME NEW b \in Buckets PROVE Reserved(b, clock)' <= onHand'[b]
    <2>1. onHand[b] \in Nat /\ onHand'[b] \in Nat
        BY <1>1, MaxStockAssumption DEF TypeOK
    <2>2. Reserved(b, clock) <= onHand'[b]
        BY <1>1 DEF NoOversell
    <2> QED
        BY <1>1, <1>2, <2>1, <2>2, ReservedShrinks
<1>4. ASSUME NEW t \in Sessions, t # s, NEW b \in LockedItems(t) PROVE Quiet(b)
    <2>1. b \in Buckets
        BY <1>1 DEF LockedItems, TypeOK, TxRecord
    <2>2. b \notin S
        BY <1>4 DEF ItemsFree
    <2> QED
        BY <1>2, <2>1, <2>2 DEF Quiet
<1> QED
    BY <1>3, <1>4, CommitKeeps

\* Receipts only add; transfers take unreserved stock; an adjustment was
\* measured against at least the units reserved now.
LEMMA StockStepKeeps ==
    ASSUME StockInv, TypeInv', NEW s \in Sessions,
           ReceiveCommit(s) \/ TransferCommit(s) \/ DecideApply(s)
    PROVE  StockInv'
<1>1. TypeOK /\ NoOversell /\ clock \in Nat /\ onHand \in [Buckets -> 0 .. MaxStock]
    BY DEF StockInv, TypeInv, TypeOK
<1>2. CASE ReceiveCommit(s)
    <2> DEFINE b == tx[s].move.to
    <2>1. b \in Buckets /\ tx[s].move.quantity \in Nat /\ onHand[b] \in Nat
        BY <1>1, <1>2, MaxStockAssumption
        DEF ReceiveCommit, StockInv, TypeInv, TxInv, RefOK, TxRecord, MoveRecord
    <2>2. onHand' = [onHand EXCEPT ![b] = @ + tx[s].move.quantity] /\ ItemsFree({b}, s)
        BY <1>2 DEF ReceiveCommit
    <2>3. Reserved(b, clock) \in Nat /\ Reserved(b, clock) <= onHand[b]
        BY <1>1, <2>1, ReservedNat DEF NoOversell
    <2>4. Reserved(b, clock) <= onHand'[b]
        BY <1>1, <2>1, <2>2, <2>3
    <2>5. \A c \in Buckets \ {b} : onHand'[c] = onHand[c]
        BY <1>1, <2>2
    <2> QED
        <3>1. /\ tx' = [tx EXCEPT ![s] = Idle] /\ clock' = clock /\ orders' = orders
              /\ rsvQty' = rsvQty /\ rsvState' = rsvState /\ expiresAt' = expiresAt
            BY <1>2 DEF ReceiveCommit, reservations
        <3>2. {b} \in SUBSET Buckets /\ \A c \in {b} : Reserved(c, clock) <= onHand'[c]
            BY <2>1, <2>4
        <3> HIDE DEF b
        <3> QED
            BY <2>2, <2>5, <3>1, <3>2, StockCommitKeeps
<1>3. CASE TransferCommit(s)
    <2> DEFINE from == tx[s].move.from
               to == tx[s].move.to
               q == tx[s].move.quantity
    <2>1. /\ from \in Buckets /\ to \in Buckets /\ q \in Nat /\ from # to
          /\ onHand[from] \in Nat /\ onHand[to] \in Nat
        BY <1>1, <1>3, MaxStockAssumption
        DEF TransferCommit, StockInv, TypeInv, TxInv, RefOK, TxRecord, MoveRecord
    <2>2. /\ onHand' = [onHand EXCEPT ![from] = @ - q, ![to] = @ + q] /\ ItemsFree({from, to}, s)
          /\ onHand[from] - Reserved(from, clock) >= q
        BY <1>3 DEF TransferCommit, TransferAllowed
    <2>3. /\ Reserved(from, clock) \in Nat
          /\ Reserved(to, clock) \in Nat /\ Reserved(to, clock) <= onHand[to]
        BY <1>1, <2>1, ReservedNat DEF NoOversell
    <2>4. onHand'[from] = onHand[from] - q /\ onHand'[to] = onHand[to] + q
        BY <1>1, <2>1, <2>2
    <2>5. \A c \in Buckets \ {from, to} : onHand'[c] = onHand[c]
        BY <1>1, <2>2
    <2>6. \A c \in {from, to} : Reserved(c, clock) <= onHand'[c]
        <3>1. Reserved(from, clock) <= onHand'[from]
            BY <2>1, <2>2, <2>3, <2>4
        <3>2. Reserved(to, clock) <= onHand'[to]
            BY <2>1, <2>3, <2>4
        <3> HIDE DEF from, to
        <3> QED
            BY <3>1, <3>2
    <2>7. {from, to} \in SUBSET Buckets
        BY <2>1
    <2> HIDE DEF from, to
    <2> QED
        BY <1>3, <2>2, <2>5, <2>6, <2>7, StockCommitKeeps DEF TransferCommit, reservations
<1>4. CASE DecideApply(s)
    <2> DEFINE b == adjustments[tx[s].ref].item
               after == onHand[b] + adjustments[tx[s].ref].delta
    <2>1. b \in Buckets /\ tx[s].now \in Nat /\ tx[s].now <= clock
        BY <1>4 DEF DecideApply, Pending, StockInv, TypeInv, TxInv, RefOK, TxRecord, AdjustmentShape,
                    DecisionsHold, DecisionOK
    <2>2. /\ onHand' = [onHand EXCEPT ![b] = after] /\ ItemsFree({b}, s)
          /\ after \in 0 .. MaxStock /\ after >= Reserved(b, tx[s].now)
        BY <1>4 DEF DecideApply, AdjustmentFits
    <2>3. /\ Reserved(b, clock) <= Reserved(b, tx[s].now) /\ Reserved(b, clock) \in Nat
          /\ Reserved(b, tx[s].now) \in Nat
        BY <1>1, <2>1, ReservedNat, ReservedLater
    <2>4. Reserved(b, clock) <= onHand'[b]
        BY <1>1, <2>1, <2>2, <2>3, MaxStockAssumption
    <2>5. \A c \in Buckets \ {b} : onHand'[c] = onHand[c]
        BY <1>1, <2>2
    <2>6. {b} \in SUBSET Buckets
        BY <2>1
    <2> QED
        BY <1>4, <2>2, <2>4, <2>5, <2>6, StockCommitKeeps
        DEF DecideApply, CloseAdjustment, reservations
<1> QED
    BY <1>2, <1>3, <1>4

-----------------------------------------------------------------------------
(* The remaining steps *)

\* Opening or closing a transaction locks no item and decides nothing.
LEMMA OpenKeeps ==
    ASSUME StockInv, TypeInv', TxOnly, NEW s \in Sessions,
           NEW kind, NEW pc, NEW now \in 0 .. clock, NEW ref, NEW items, NEW take, NEW move, NEW view,
           tx' = [tx EXCEPT ![s] = Tx(kind, pc, now, ref, items, take, move, view)],
           pc # "locked", kind = "confirm" => orders[ref].status # "NONE"
    PROVE  StockInv'
<1>1. /\ tx \in [Sessions -> TxRecord] /\ clock \in Nat /\ clock' = clock /\ orders' = orders
    BY DEF StockInv, TypeInv, TypeOK, TxOnly
<1>2. tx'[s].kind = kind /\ tx'[s].pc = pc /\ tx'[s].now = now /\ tx'[s].ref = ref
    BY <1>1 DEF Tx
<1>3. LockedItems(s)' = {}
    BY <1>2 DEF LockedItems
<1>4. ItemsFree(LockedItems(s)', s)
    BY <1>3 DEF ItemsFree
<1>5. DecisionOK(s)'
    BY <1>1, <1>2 DEF DecisionOK, TakeFits, ConsumptionFits
<1> QED
    BY <1>4, <1>5, TxOnlyKeeps

\* Every operation begins without a lock on an item, and so does a rollback end.
LEMMA BeginSteps ==
    ASSUME StockInv, TypeInv', NEW s \in Sessions,
           \/ Rollback(s)
           \/ \E k \in Keys, r \in Requests : CheckoutBegin(s, k, r)
           \/ \E o \in Orders : CancelBegin(s, o) \/ ConfirmBegin(s, o) \/ TerminateBegin(s, o)
           \/ \E m \in Moves, b \in Buckets, q \in MoveSizes : ReceiveBegin(s, m, b, q)
           \/ \E m \in Moves, from, to \in Buckets, q \in MoveSizes : TransferBegin(s, m, from, to, q)
           \/ \E a \in Adjustments, d \in {"approve", "reject"} : DecideBegin(s, a, d)
    PROVE  StockInv'
<1> 0 \in 0 .. clock /\ clock \in 0 .. clock
    BY DEF StockInv, TypeInv, TypeOK
<1>1. CASE Rollback(s)
    BY <1>1, OpenKeeps DEF Rollback, TxOnly, Idle
<1>2. ASSUME NEW k \in Keys, NEW r \in Requests, CheckoutBegin(s, k, r) PROVE StockInv'
    <2>1. TxOnly /\ \E now \in 0 .. clock : tx' = [tx EXCEPT ![s] =
             Tx("checkout", "begun", now, k, Candidates(r), NoTake, NoMove, NoView)]
        BY <1>2 DEF CheckoutBegin, TxOnly
    <2> QED
        BY <2>1, OpenKeeps
<1>3. ASSUME NEW o \in Orders, CancelBegin(s, o) PROVE StockInv'
    BY <1>3, OpenKeeps DEF CancelBegin, TxOnly
<1>4. ASSUME NEW o \in Orders, ConfirmBegin(s, o) PROVE StockInv'
    BY <1>4, OpenKeeps DEF ConfirmBegin, LockOrderThenRead, TxOnly
<1>5. ASSUME NEW o \in Orders, TerminateBegin(s, o) PROVE StockInv'
    <2>1. /\ tx' = [tx EXCEPT ![s] = Tx("terminate", "begun", 0, o, {}, NoTake, NoMove,
                                        View(orders[o], onHand, version))]
          /\ TxOnly
        <3>1. LockOrderThenRead(s, o, "terminate")
            BY <1>5 DEF TerminateBegin
        <3> QED
            BY <3>1 DEF LockOrderThenRead, TxOnly
    <2>2. orders[o].status # "NONE"
        BY <1>5 DEF TerminateBegin, EarlyCancellation
    <2> QED
        BY <2>1, <2>2, OpenKeeps
<1>6. ASSUME NEW m \in Moves, NEW mv, NEW kind \in {"receive", "transfer"}, ReplayLookup(s, m, mv, kind)
      PROVE  StockInv'
    <2>1. /\ tx' = [tx EXCEPT ![s] = Tx(kind, "begun", 0, m, {}, NoTake, mv, NoView)] /\ TxOnly
          /\ kind # "confirm"
        BY <1>6 DEF ReplayLookup, TxOnly
    <2> QED
        BY <2>1, OpenKeeps
<1>7. ASSUME NEW a \in Adjustments, NEW d \in {"approve", "reject"}, DecideBegin(s, a, d) PROVE StockInv'
    BY <1>7, OpenKeeps DEF DecideBegin, TxOnly
<1> QED
    BY <1>1, <1>2, <1>3, <1>4, <1>5, <1>6, <1>7 DEF ReceiveBegin, TransferBegin

\* Steps outside the sessions that move no stock and reserve no units.
LEMMA PassiveKeeps ==
    ASSUME StockInv, TypeInv', tx' = tx, clock <= clock', onHand' = onHand, rsvQty' = rsvQty,
           expiresAt' = expiresAt,
           \A o \in Orders, b \in Buckets : rsvState'[o][b] = "ACTIVE" => rsvState[o][b] = "ACTIVE",
           \A o \in Orders : orders[o].status # "NONE" => orders'[o].status # "NONE"
    PROVE  StockInv'
<1>1. TypeOK /\ TypeOK'
    BY DEF StockInv, TypeInv
<1>2. \A b \in Buckets : Quiet(b)
    BY <1>1, RowsShrink DEF Quiet, Live
<1> QED
    BY <1>2, SystemKeeps

\* The steps of carts, preparation, adjustment requests, sweep and clock.
LEMMA PassiveSteps ==
    ASSUME StockInv, TypeInv',
           \/ \E c \in Customers, r \in Requests : EditCart(c, r)
           \/ \E o \in Orders : Prepare(o) \/ ReadyForPickup(o)
           \/ \E a \in Adjustments, b \in Buckets, d \in Int : RequestAdjustment(a, b, d)
           \/ Sweep
           \/ Tick
           \/ UNCHANGED vars
    PROVE  StockInv'
<1>1. TypeOK /\ clock \in Nat
    BY DEF StockInv, TypeInv, TypeOK
<1>2. ASSUME NEW c \in Customers, NEW r \in Requests, EditCart(c, r) PROVE StockInv'
    BY <1>1, <1>2, PassiveKeeps DEF EditCart, stock, reservations
<1>3. ASSUME NEW o \in Orders, NEW from, NEW to \in {"PREPARING", "READY_FOR_PICKUP"},
             Transition(o, from, to)
      PROVE  StockInv'
    <2>1. \A p \in Orders : orders[p].status # "NONE" => orders'[p].status # "NONE"
        BY <1>1, <1>3 DEF Transition, Advanced, TypeOK
    <2> QED
        BY <1>1, <1>3, <2>1, PassiveKeeps DEF Transition, stock, reservations
<1>4. ASSUME NEW a \in Adjustments, NEW b \in Buckets, NEW d \in Int, RequestAdjustment(a, b, d)
      PROVE  StockInv'
    BY <1>1, <1>4, PassiveKeeps DEF RequestAdjustment, stock, reservations
<1>5. CASE Sweep
    <2>1. PICK cutoff \in 0 .. clock : ExpireReservations(cutoff)
        BY <1>5 DEF Sweep
    <2>2. \A o \in Orders, b \in Buckets : rsvState'[o][b] = "ACTIVE" => rsvState[o][b] = "ACTIVE"
        BY <1>1, <2>1 DEF ExpireReservations
    <2> QED
        BY <1>1, <2>1, <2>2, PassiveKeeps DEF ExpireReservations
<1>6. CASE Tick
    BY <1>1, <1>6, PassiveKeeps DEF Tick, stock, reservations
<1>7. CASE UNCHANGED vars
    BY <1>1, <1>7, PassiveKeeps DEF vars, stock, reservations
<1> QED
    BY <1>2, <1>3, <1>4, <1>5, <1>6, <1>7 DEF Prepare, ReadyForPickup

\* Closing an adjustment that moves no stock.
LEMMA CloseSteps ==
    ASSUME StockInv, TypeInv', NEW s \in Sessions, DecideExpired(s) \/ DecideReject(s)
    PROVE  StockInv'
<1>1. /\ tx' = [tx EXCEPT ![s] = Idle] /\ clock' = clock /\ orders' = orders /\ onHand' = onHand
      /\ rsvQty' = rsvQty /\ rsvState' = rsvState /\ expiresAt' = expiresAt
    BY DEF DecideExpired, DecideReject, CloseAdjustment, stock, reservations
<1>2. ItemsFree({}, s)
    BY DEF ItemsFree
<1>3. /\ {} \in SUBSET Buckets /\ \A b \in Buckets \ {} : onHand'[b] = onHand[b]
      /\ \A b \in {} : Reserved(b, clock) <= onHand'[b]
    BY <1>1
<1> QED
    BY <1>1, <1>2, <1>3, StockCommitKeeps

-----------------------------------------------------------------------------
(* The theorem *)

\* No row lock is held and nothing is reserved at the start.
LEMMA StockInvInit ==
    Init => StockInv
<1> SUFFICES ASSUME Init PROVE StockInv
    OBVIOUS
<1>1. TypeInv
    BY TypeInit
<1>2. \A s \in Sessions : tx[s].kind = "none" /\ tx[s].pc = "idle" /\ tx[s].now = 0
    BY DEF Init, Idle, Tx
<1>3. DecisionsHold
    <2>1. LocksExclusive
        BY <1>2 DEF LocksExclusive, LockedItems
    <2>2. clock = 0
        BY DEF Init
    <2>3. \A s \in Sessions : DecisionOK(s)
        BY <1>2, <2>2 DEF DecisionOK, TakeFits, ConsumptionFits
    <2> QED
        BY <2>1, <2>3 DEF DecisionsHold
<1>4. NoOversell
    <2> SUFFICES ASSUME NEW b \in Buckets PROVE Reserved(b, clock) <= onHand[b]
        BY DEF NoOversell
    <2>1. \A o \in Orders : ~Live(o, b, clock)
        BY DEF Init, Live
    <2>2. ReservedUnits(b, clock) = {}
        BY <2>1, InReserved
    <2>3. onHand[b] \in 0 .. MaxStock
        BY <1>1 DEF TypeInv, TypeOK
    <2> QED
        BY <2>2, <2>3, FS_EmptySet DEF Reserved
<1> QED
    BY <1>1, <1>3, <1>4 DEF StockInv

\* Every step keeps the inductive invariant.
LEMMA StockInvStep ==
    StockInv /\ [Next]_vars => StockInv'
<1> SUFFICES ASSUME StockInv, [Next]_vars PROVE StockInv'
    OBVIOUS
<1>1. TypeInv'
    BY TypeStep DEF StockInv
<1>2. CASE CustomerStep
    BY <1>1, <1>2, PassiveSteps, BeginSteps, CheckoutLockStep, CheckoutCommitStep, ReleaseLockStep
    DEF CustomerStep
<1>3. CASE AdminStep
    BY <1>1, <1>3, PassiveSteps, BeginSteps, ConfirmLockStep, ConfirmCommitStep, ReleaseLockStep,
       ReleaseCommitStep
    DEF AdminStep
<1>4. CASE StockStep
    <2>1. ASSUME NEW a \in Adjustments, NEW b \in Buckets, NEW q \in MoveSizes,
                 RequestAdjustment(a, b, q) \/ RequestAdjustment(a, b, -q)
          PROVE  StockInv'
        <3>1. q \in Int /\ -q \in Int
            BY BoundsAssumption
        <3> QED
            BY <1>1, <2>1, <3>1, PassiveSteps
    <2> QED
        BY <1>1, <1>4, <2>1, BeginSteps, StockStepKeeps, CloseSteps DEF StockStep
<1>5. CASE Sweep \/ Tick \/ UNCHANGED vars
    BY <1>1, <1>5, PassiveSteps
<1>6. ASSUME NEW s \in Sessions, Rollback(s) PROVE StockInv'
    BY <1>1, <1>6, BeginSteps
<1> QED
    BY <1>2, <1>3, <1>4, <1>5, <1>6 DEF Next

\* The units that unexpired reservations promise are on the shelf in every
\* reachable state: concurrent checkouts, confirmations that outlive their
\* reservation, receipts, transfers and adjustments never oversell an item.
THEOREM NeverOversold ==
    Spec => []NoOversell
<1>1. Spec => []StockInv
    BY StockInvInit, StockInvStep, PTL DEF Spec
<1> QED
    BY <1>1, PTL DEF StockInv

\* What a transaction decided under its locks is still right when it commits.
THEOREM DecisionsStayGood ==
    Spec => []DecisionsHold
<1>1. Spec => []StockInv
    BY StockInvInit, StockInvStep, PTL DEF Spec
<1> QED
    BY <1>1, PTL DEF StockInv


-----------------------------------------------------------------------------
(* One order per submission *)

\* What a step outside cart and checkout leaves alone.
SubmissionFrame ==
    /\ claims' = claims /\ carts' = carts
    /\ \A o \in Orders :
          /\ orders'[o].status # "NONE" <=> orders[o].status # "NONE"
          /\ orders'[o].key = orders[o].key /\ orders'[o].cart = orders[o].cart
    /\ \A s \in Sessions :
          tx'[s].kind = "checkout" => tx[s].kind = "checkout" /\ tx'[s].ref = tx[s].ref

\* Such a step keeps the invariant.
LEMMA SubmissionFrameKeeps ==
    ASSUME SubmissionInv, SubmissionFrame PROVE SubmissionInv'
<1>1. CheckoutsExclusive'
    BY DEF SubmissionInv, SubmissionFrame, CheckoutsExclusive
<1>2. \A s \in Sessions : CheckoutOpen(s)'
    BY DEF SubmissionInv, SubmissionFrame, CheckoutOpen
<1>3. \A o \in Orders : Recorded(o)'
    BY DEF SubmissionInv, SubmissionFrame, Recorded
<1>4. OneOrderPerSubmission'
    BY DEF SubmissionInv, SubmissionFrame, OneOrderPerSubmission
<1> QED
    BY <1>1, <1>2, <1>3, <1>4 DEF SubmissionInv

\* A session with no transaction holds no checkout.
LEMMA IdleFields ==
    Idle.kind = "none" /\ Idle.pc = "idle"
BY DEF Idle, Tx

\* The columns of a transaction record that the invariants look at.
LEMMA TxFields ==
    ASSUME NEW kind, NEW pc, NEW now, NEW ref, NEW items, NEW take, NEW move, NEW view
    PROVE  LET t == Tx(kind, pc, now, ref, items, take, move, view)
           IN  /\ t.kind = kind /\ t.pc = pc /\ t.ref = ref /\ t.items = items /\ t.view = view
               /\ t.move = move
BY DEF Tx

\* A step that changes one transaction, and not into a checkout.
LEMMA SubmissionOther ==
    ASSUME TypeInv, SubmissionInv, claims' = claims, carts' = carts,
           \A o \in Orders :
              /\ orders'[o].status # "NONE" <=> orders[o].status # "NONE"
              /\ orders'[o].key = orders[o].key /\ orders'[o].cart = orders[o].cart,
           NEW s \in Sessions, NEW t, tx' = [tx EXCEPT ![s] = t], t.kind # "checkout"
    PROVE  SubmissionInv'
<1>1. \A u \in Sessions : u # s => tx'[u] = tx[u]
    BY DEF TypeInv, TypeOK
<1>2. tx'[s] = t
    BY DEF TypeInv, TypeOK
<1>3. SubmissionFrame
    BY <1>1, <1>2 DEF SubmissionFrame
<1> QED
    BY <1>3, SubmissionFrameKeeps

\* Editing a cart opens the next one or changes lines; no order has the new
\* cart yet, and a checkout in flight still finds lines.
LEMMA SubmissionEdit ==
    ASSUME TypeInv, SubmissionInv, NEW c \in Customers, NEW r \in Requests, EditCart(c, r)
    PROVE  SubmissionInv'
<1>1. /\ carts \in [Customers -> CartRecord] /\ orders \in [Orders -> OrderRecord]
      /\ tx \in [Sessions -> TxRecord] /\ claims' = claims /\ orders' = orders /\ tx' = tx
    BY DEF TypeInv, TypeOK, EditCart
<1>2. /\ \A d \in Customers : d # c => carts'[d] = carts[d]
      /\ carts'[c].request = r
      /\ carts[c].request = None => carts'[c].id = carts[c].id + 1
      /\ carts[c].request # None => carts'[c].id = carts[c].id
    BY <1>1 DEF EditCart, Cart
<1>3. r # None
    BY NoneAssumption
<1>4. CheckoutsExclusive'
    BY <1>1 DEF SubmissionInv, CheckoutsExclusive
<1>5. \A s \in Sessions : CheckoutOpen(s)'
    <2> TAKE s \in Sessions
    <2>1. CheckoutOpen(s) /\ (tx[s].kind = "checkout" => Owner[tx[s].ref] \in Customers)
        BY OwnerAssumption DEF SubmissionInv, TypeInv, TxInv, RefOK
    <2> QED
        BY <1>1, <1>2, <1>3, <2>1 DEF CheckoutOpen
<1>6. \A o \in Orders : Recorded(o)'
    <2> TAKE o \in Orders
    <2> SUFFICES ASSUME orders[o].status # "NONE" PROVE Recorded(o)'
        BY <1>1 DEF Recorded
    <2> DEFINE d == Owner[orders[o].key]
    <2>1. /\ orders[o].key \in Keys /\ claims[orders[o].key] = o /\ d \in Customers
          /\ orders[o].cart <= carts[d].id
          /\ orders[o].cart = carts[d].id => carts[d].request = None
        BY OwnerAssumption DEF SubmissionInv, Recorded
    <2>2. orders[o].cart \in Nat /\ carts[d].id \in Nat
        BY <1>1, <2>1 DEF OrderRecord, CartRecord
    <2>3. CASE d = c
        <3>1. CASE carts[c].request = None
            BY <1>1, <1>2, <2>1, <2>2, <2>3, <3>1 DEF Recorded
        <3>2. CASE carts[c].request # None
            BY <1>1, <1>2, <2>1, <2>2, <2>3, <3>2 DEF Recorded
        <3> QED
            BY <3>1, <3>2
    <2>4. CASE d # c
        BY <1>1, <1>2, <2>1, <2>4 DEF Recorded
    <2> QED
        BY <2>3, <2>4
<1>7. OneOrderPerSubmission'
    BY <1>1 DEF SubmissionInv, OneOrderPerSubmission
<1> QED
    BY <1>4, <1>5, <1>6, <1>7 DEF SubmissionInv

\* A checkout begins under the locks of its key and its customer.
LEMMA SubmissionBegin ==
    ASSUME TypeInv, SubmissionInv, NEW s \in Sessions, NEW k \in Keys, NEW r \in Requests,
           CheckoutBegin(s, k, r)
    PROVE  SubmissionInv'
<1>1. PICK now : tx' = [tx EXCEPT ![s] =
                   Tx("checkout", "begun", now, k, Candidates(r), NoTake, NoMove, NoView)]
    BY DEF CheckoutBegin
<1>2. /\ tx \in [Sessions -> TxRecord] /\ claims' = claims /\ orders' = orders /\ carts' = carts
      /\ claims[k] = None /\ carts[Owner[k]].request = r
      /\ \A t \in Sessions : t # s /\ tx[t].kind = "checkout" => Owner[tx[t].ref] # Owner[k]
    BY DEF TypeInv, TypeOK, CheckoutBegin, ClaimIdempotency, CustomerFree
<1>3. /\ tx'[s].kind = "checkout" /\ tx'[s].ref = k
      /\ \A t \in Sessions : t # s => tx'[t] = tx[t]
    BY <1>1, <1>2 DEF Tx
<1>4. CheckoutsExclusive'
    BY <1>2, <1>3 DEF SubmissionInv, CheckoutsExclusive
<1>5. \A t \in Sessions : CheckoutOpen(t)'
    BY <1>2, <1>3, NoneAssumption DEF SubmissionInv, CheckoutOpen
<1>6. (\A o \in Orders : Recorded(o)') /\ OneOrderPerSubmission'
    BY <1>2 DEF SubmissionInv, Recorded, OneOrderPerSubmission
<1> QED
    BY <1>4, <1>5, <1>6 DEF SubmissionInv

\* The commit of a checkout: its key had no order and its cart had lines, so
\* no order has either of them.
LEMMA SubmissionCommit ==
    ASSUME TypeInv, SubmissionInv, NEW s \in Sessions, NEW o \in Orders, CheckoutCommit(s, o)
    PROVE  SubmissionInv'
<1> DEFINE k == tx[s].ref
           c == Owner[k]
<1>1. /\ tx \in [Sessions -> TxRecord] /\ claims \in [Keys -> Orders \cup {None}]
      /\ carts \in [Customers -> CartRecord] /\ orders \in [Orders -> OrderRecord]
      /\ k \in Keys /\ c \in Customers /\ tx[s].kind = "checkout"
    BY OwnerAssumption DEF TypeInv, TypeOK, TxInv, RefOK, CheckoutCommit
<1>2. /\ orders[o].status = "NONE" /\ claims' = [claims EXCEPT ![k] = o]
      /\ carts' = [carts EXCEPT ![c] = Cart(carts[c].id, None)]
      /\ tx' = [tx EXCEPT ![s] = Idle]
    BY DEF CheckoutCommit
<1>3. claims[k] = None /\ carts[c].request # None /\ carts[c].id \in Nat
    BY <1>1 DEF SubmissionInv, CheckoutOpen, CartRecord
<1>4. /\ orders'[o].status = "PENDING_CONFIRMATION" /\ orders'[o].key = k
      /\ orders'[o].cart = carts[c].id
      /\ \A p \in Orders : p # o => orders'[p] = orders[p]
    BY <1>1 DEF CheckoutCommit
<1>5. /\ claims'[k] = o /\ \A l \in Keys : l # k => claims'[l] = claims[l]
      /\ carts'[c].id = carts[c].id /\ carts'[c].request = None
      /\ \A d \in Customers : d # c => carts'[d] = carts[d]
    BY <1>1, <1>2 DEF Cart
<1>6. tx'[s].kind = "none" /\ \A t \in Sessions : t # s => tx'[t] = tx[t]
    BY <1>1, <1>2, IdleFields
<1>7. CheckoutsExclusive'
    BY <1>6 DEF SubmissionInv, CheckoutsExclusive
<1>8. \A t \in Sessions : CheckoutOpen(t)'
    <2> TAKE t \in Sessions
    <2> SUFFICES ASSUME t # s, tx[t].kind = "checkout" PROVE CheckoutOpen(t)'
        BY <1>6 DEF CheckoutOpen
    <2>1. Owner[tx[t].ref] # c /\ tx[t].ref \in Keys /\ Owner[tx[t].ref] \in Customers
        BY <1>1, OwnerAssumption DEF SubmissionInv, CheckoutsExclusive, TypeInv, TxInv, RefOK
    <2>2. CheckoutOpen(t)
        BY DEF SubmissionInv
    <2>3. tx[t].ref # k
        BY <2>1
    <2> QED
        BY <1>5, <1>6, <2>1, <2>2, <2>3 DEF CheckoutOpen
<1>9. \A p \in Orders : p # o /\ orders[p].status # "NONE" =>
         /\ orders[p].key \in Keys /\ orders[p].key # k /\ Owner[orders[p].key] \in Customers
         /\ Owner[orders[p].key] = c => orders[p].cart # carts[c].id
    <2> TAKE p \in Orders
    <2>1. Recorded(p)
        BY DEF SubmissionInv
    <2>2. p # None
        BY NoneAssumption
    <2> QED
        BY <1>3, <2>1, <2>2, OwnerAssumption DEF Recorded
<1>10. \A p \in Orders : Recorded(p)'
    <2> TAKE p \in Orders
    <2>1. CASE p = o
        BY <1>1, <1>3, <1>4, <1>5, <2>1 DEF Recorded
    <2>2. CASE p # o
        <3>1. Recorded(p) /\ orders'[p] = orders[p]
            BY <1>4, <2>2 DEF SubmissionInv
        <3> QED
            BY <1>5, <1>9, <2>2, <3>1 DEF Recorded
    <2> QED
        BY <2>1, <2>2
<1>11. OneOrderPerSubmission'
    <2> SUFFICES ASSUME NEW p \in Orders, NEW q \in Orders, p # q,
                        orders'[p].status # "NONE", orders'[q].status # "NONE"
                 PROVE  /\ orders'[p].key # orders'[q].key
                        /\ Owner[orders'[p].key] # Owner[orders'[q].key]
                              \/ orders'[p].cart # orders'[q].cart
        BY DEF OneOrderPerSubmission
    <2>1. CASE p = o
        BY <1>4, <1>9, <2>1
    <2>2. CASE q = o
        BY <1>4, <1>9, <2>2
    <2>3. CASE p # o /\ q # o
        BY <1>4, <2>3 DEF SubmissionInv, OneOrderPerSubmission
    <2> QED
        BY <2>1, <2>2, <2>3
<1> QED
    BY <1>7, <1>8, <1>10, <1>11 DEF SubmissionInv

\* Advancing an order changes neither its key nor its cart.
LEMMA AdvancedFields ==
    ASSUME NEW rec, NEW status, NEW payment, NEW cash
    PROVE  LET a == Advanced(rec, status, payment, cash)
           IN  /\ a.status = status /\ a.version = rec.version + 1 /\ a.key = rec.key
               /\ a.cart = rec.cart /\ a.request = rec.request
BY DEF Advanced

\* The columns of an order that is advanced, and of the others.
LEMMA OrderAdvanced ==
    ASSUME TypeInv, NEW o \in Orders, NEW status, NEW payment, NEW cash,
           orders' = [orders EXCEPT ![o] = Advanced(orders[o], status, payment, cash)]
    PROVE  /\ orders'[o].status = status /\ orders'[o].version = orders[o].version + 1
           /\ orders'[o].key = orders[o].key /\ orders'[o].cart = orders[o].cart
           /\ orders'[o].request = orders[o].request
           /\ \A p \in Orders : p # o => orders'[p] = orders[p]
<1>1. orders'[o] = Advanced(orders[o], status, payment, cash)
    BY DEF TypeInv, TypeOK
<1>2. \A p \in Orders : p # o => orders'[p] = orders[p]
    BY DEF TypeInv, TypeOK
<1> QED
    BY <1>1, <1>2, AdvancedFields

\* A transaction on an order reads it first: only its own record changes.
LEMMA SubmissionTx ==
    ASSUME TypeInv, SubmissionInv, TxOnly, NEW s \in Sessions, NEW t, tx' = [tx EXCEPT ![s] = t],
           t.kind # "checkout"
    PROVE  SubmissionInv'
BY SubmissionOther DEF TxOnly

\* Every step keeps the invariant of submissions.
LEMMA SubmissionStep ==
    TypeInv /\ SettlementInv /\ SubmissionInv /\ [Next]_vars => SubmissionInv'
<1> SUFFICES ASSUME TypeInv, SettlementInv, SubmissionInv, [Next]_vars PROVE SubmissionInv'
    OBVIOUS
<1>1. ASSUME NEW s \in Sessions, CheckoutLock(s) PROVE SubmissionInv'
    <2>1. PICK take : tx' = [tx EXCEPT ![s] =
                Tx("checkout", "locked", tx[s].now, tx[s].ref, tx[s].items, take, NoMove, NoView)]
        BY <1>1 DEF CheckoutLock
    <2>2. tx \in [Sessions -> TxRecord] /\ tx[s].kind = "checkout"
        BY <1>1 DEF TypeInv, TypeOK, CheckoutLock
    <2>3. /\ tx'[s].kind = "checkout" /\ tx'[s].ref = tx[s].ref
          /\ \A t \in Sessions : t # s => tx'[t] = tx[t]
        BY <2>1, <2>2 DEF Tx
    <2>4. SubmissionFrame
        BY <1>1, <2>2, <2>3 DEF SubmissionFrame, CheckoutLock
    <2> QED
        BY <2>4, SubmissionFrameKeeps
<1>2. CustomerStep => SubmissionInv'
    <2>1. ASSUME NEW s \in Sessions, NEW o \in Orders, CancelBegin(s, o) PROVE SubmissionInv'
        <3> DEFINE t == Tx("cancel", "begun", 0, o, {}, NoTake, NoMove, View(orders[o], onHand, version))
        <3>1. TxOnly /\ tx' = [tx EXCEPT ![s] = t]
            BY <2>1 DEF CancelBegin, TxOnly
        <3>2. t.kind = "cancel"
            BY TxFields
        <3> HIDE DEF t
        <3> QED
            BY <3>1, <3>2, SubmissionTx
    <2>2. ASSUME NEW s \in Sessions, CancelLock(s) PROVE SubmissionInv'
        <3> DEFINE t == Tx(tx[s].kind, "locked", clock, tx[s].ref, ActiveItems(tx[s].ref), NoTake,
                            NoMove, tx[s].view)
        <3>1. /\ tx[s].kind = "cancel" /\ TxOnly
              /\ tx' = [tx EXCEPT ![s] = t]
            BY <2>2 DEF CancelLock, LockActiveInventory, TxOnly
        <3>2. t.kind = tx[s].kind
            BY TxFields
        <3> HIDE DEF t
        <3> QED
            BY <3>1, <3>2, SubmissionTx
    <2> QED
        BY <1>1, <2>1, <2>2, SubmissionEdit, SubmissionBegin, SubmissionCommit DEF CustomerStep
<1>3. AdminStep => SubmissionInv'
    <2>1. ASSUME NEW s \in Sessions, NEW o \in Orders, ConfirmBegin(s, o) \/ TerminateBegin(s, o)
          PROVE  SubmissionInv'
        BY <2>1, SubmissionTx, TxFields DEF ConfirmBegin, TerminateBegin, LockOrderThenRead, TxOnly
    <2>2. ASSUME NEW s \in Sessions, ConfirmLock(s) \/ TerminateLock(s) PROVE SubmissionInv'
        BY <2>2, SubmissionTx, TxFields DEF ConfirmLock, TerminateLock, LockActiveInventory, TxOnly
    <2>3. ASSUME NEW s \in Sessions, ConfirmCommit(s) PROVE SubmissionInv'
        <3> DEFINE o == tx[s].ref
        <3>1. /\ o \in Orders /\ orders[o].status # "NONE" /\ tx' = [tx EXCEPT ![s] = Idle]
              /\ claims' = claims /\ carts' = carts
              /\ orders' = [orders EXCEPT ![o] =
                    Advanced(orders[o], "CONFIRMED", orders[o].payment, orders[o].cash)]
            BY <2>3 DEF ConfirmCommit, TypeInv, TxInv, RefOK, SettlementInv, OrderTxOK
        <3>2. /\ orders'[o].status = "CONFIRMED" /\ orders'[o].key = orders[o].key
              /\ orders'[o].cart = orders[o].cart /\ \A p \in Orders : p # o => orders'[p] = orders[p]
            BY <3>1, OrderAdvanced
        <3> QED
            BY <3>1, <3>2, SubmissionOther, IdleFields
    <2>4. ASSUME NEW s \in Sessions, ReleaseCommit(s) PROVE SubmissionInv'
        <3> DEFINE o == tx[s].ref
        <3>1. /\ o \in Orders /\ orders[o].status # "NONE" /\ tx' = [tx EXCEPT ![s] = Idle]
              /\ claims' = claims /\ carts' = carts
            BY <2>4 DEF ReleaseCommit, TypeInv, TxInv, RefOK, SettlementInv, OrderTxOK
        <3>2. orders' = [orders EXCEPT ![o] = Advanced(orders[o], "CANCELLED", "CANCELLED",
                           IF orders[o].cash = "EXPECTED" THEN "VOIDED" ELSE orders[o].cash)]
            BY <2>4 DEF ReleaseCommit
        <3>3. /\ orders'[o].status = "CANCELLED" /\ orders'[o].key = orders[o].key
              /\ orders'[o].cart = orders[o].cart /\ \A p \in Orders : p # o => orders'[p] = orders[p]
            BY <3>1, <3>2, OrderAdvanced
        <3> QED
            BY <3>1, <3>3, SubmissionOther, IdleFields
    <2>5. ASSUME NEW o \in Orders, Prepare(o) \/ ReadyForPickup(o) PROVE SubmissionInv'
        <3>1. PICK to \in {"PREPARING", "READY_FOR_PICKUP"} :
                 orders' = [orders EXCEPT ![o] = Advanced(orders[o], to, orders[o].payment, orders[o].cash)]
            BY <2>5 DEF Prepare, ReadyForPickup, Transition
        <3>2. orders[o].status # "NONE" /\ claims' = claims /\ carts' = carts /\ tx' = tx
            BY <2>5 DEF Prepare, ReadyForPickup, Transition
        <3>3. SubmissionFrame
            BY <3>1, <3>2, OrderAdvanced DEF SubmissionFrame
        <3> QED
            BY <3>3, SubmissionFrameKeeps
    <2> QED
        BY <2>1, <2>2, <2>3, <2>4, <2>5 DEF AdminStep
<1>4. StockStep => SubmissionInv'
    <2>1. ASSUME NEW s \in Sessions, NEW m, NEW mv, NEW kind \in {"receive", "transfer"},
                 ReplayLookup(s, m, mv, kind)
          PROVE  SubmissionInv'
        <3> DEFINE t == Tx(kind, "begun", 0, m, {}, NoTake, mv, NoView)
        <3>1. TxOnly /\ tx' = [tx EXCEPT ![s] = t]
            BY <2>1 DEF ReplayLookup, TxOnly
        <3>2. t.kind = kind
            BY TxFields
        <3> HIDE DEF t
        <3> QED
            BY <3>1, <3>2, SubmissionTx
    <2>2. ASSUME NEW s \in Sessions, ReceiveCommit(s) \/ TransferCommit(s) PROVE SubmissionInv'
        BY <2>2, SubmissionOther, IdleFields DEF ReceiveCommit, TransferCommit
    <2>3. ASSUME NEW a, NEW b, NEW d, RequestAdjustment(a, b, d) PROVE SubmissionInv'
        <3>1. SubmissionFrame
            BY <2>3 DEF RequestAdjustment, SubmissionFrame
        <3> QED
            BY <3>1, SubmissionFrameKeeps
    <2>4. ASSUME NEW s \in Sessions, NEW a, NEW d \in {"approve", "reject"}, DecideBegin(s, a, d)
          PROVE  SubmissionInv'
        <3> DEFINE t == Tx(d, "begun", clock, a, {}, NoTake, NoMove, NoView)
        <3>1. TxOnly /\ tx' = [tx EXCEPT ![s] = t]
            BY <2>4 DEF DecideBegin, TxOnly
        <3>2. t.kind = d
            BY TxFields
        <3> HIDE DEF t
        <3> QED
            BY <3>1, <3>2, SubmissionTx
    <2>5. ASSUME NEW s \in Sessions, DecideExpired(s) \/ DecideReject(s) \/ DecideApply(s)
          PROVE  SubmissionInv'
        BY <2>5, SubmissionOther, IdleFields DEF DecideExpired, DecideReject, DecideApply, CloseAdjustment
    <2> QED
        BY <2>1, <2>2, <2>3, <2>4, <2>5 DEF StockStep, ReceiveBegin, TransferBegin
<1>5. ASSUME NEW cutoff, ExpireReservations(cutoff) PROVE SubmissionInv'
    <2>1. SubmissionFrame
        BY <1>5 DEF ExpireReservations, SubmissionFrame
    <2> QED
        BY <2>1, SubmissionFrameKeeps
<1>6. ASSUME NEW s \in Sessions, Rollback(s) PROVE SubmissionInv'
    BY <1>6, SubmissionTx, IdleFields DEF Rollback, TxOnly
<1>7. CASE Tick \/ UNCHANGED vars
    <2>1. SubmissionFrame
        BY <1>7 DEF Tick, vars, SubmissionFrame
    <2> QED
        BY <2>1, SubmissionFrameKeeps
<1> QED
    BY <1>2, <1>3, <1>4, <1>5, <1>6, <1>7 DEF Next, Sweep

\* The empty database satisfies the invariant of submissions.
LEMMA SubmissionInit ==
    Init => SubmissionInv
<1> SUFFICES ASSUME Init PROVE SubmissionInv
    OBVIOUS
<1>1. \A o \in Orders : orders[o].status = "NONE"
    BY DEF Init, NoOrder
<1>2. \A s \in Sessions : tx[s].kind = "none"
    BY IdleFields DEF Init
<1> QED
    BY <1>1, <1>2 DEF SubmissionInv, CheckoutsExclusive, CheckoutOpen, Recorded, OneOrderPerSubmission

-----------------------------------------------------------------------------
(* What becomes of the reservations of an order *)

OrderKinds == {"confirm", "terminate", "cancel"}

\* The rows of an order and its reservations, and what is said about them.
SameOrder(o) ==
    /\ orders'[o] = orders[o] /\ rsvState'[o] = rsvState[o] /\ rsvQty'[o] = rsvQty[o]

\* An order whose rows do not change is as settled as before.
LEMMA SameSettled ==
    ASSUME NEW o \in Orders, SameOrder(o), Settled(o) PROVE Settled(o)'
<1>1. \A v : Covered(o, v, "CONSUMED")' = Covered(o, v, "CONSUMED")
    BY DEF SameOrder, Covered
<1>2. (InFull(o)' <=> InFull(o)) /\ (Nothing(o)' <=> Nothing(o)) /\ ActiveItems(o)' = ActiveItems(o)
    BY <1>1 DEF SameOrder, InFull, Nothing, ActiveItems
<1> QED
    BY <1>2 DEF Settled, SameOrder

\* A transaction on an order whose rows do not change is as good as before.
LEMMA SameOrderTx ==
    ASSUME NEW s, tx'[s] = tx[s], OrderTxOK(s),
           tx[s].kind \in OrderKinds => tx[s].ref \in Orders /\ SameOrder(tx[s].ref)
    PROVE  OrderTxOK(s)'
<1> SUFFICES ASSUME tx[s].kind \in OrderKinds PROVE OrderTxOK(s)'
    BY DEF OrderTxOK, OrderKinds
<1> DEFINE o == tx[s].ref
<1>1. \A v : Covered(o, v, "ACTIVE")' = Covered(o, v, "ACTIVE")
    BY DEF SameOrder, Covered
<1>2. ActiveItems(o)' = ActiveItems(o) /\ orders'[o] = orders[o]
    BY DEF SameOrder, ActiveItems
<1> QED
    BY <1>1, <1>2 DEF OrderTxOK, OrderKinds

\* Only a session's own record decides which orders it locks.
LEMMA SameLocks ==
    ASSUME NEW s, NEW o, tx'[s] = tx[s] PROVE LocksOrder(s, o)' <=> LocksOrder(s, o)
BY DEF LocksOrder

\* A step of session s that touches no order and no reservation.
LEMMA SettleTx ==
    ASSUME TypeInv, SettlementInv, orders' = orders, rsvState' = rsvState, rsvQty' = rsvQty,
           NEW s \in Sessions, NEW t, tx' = [tx EXCEPT ![s] = t], OrderTxOK(s)',
           \A o \in Orders : LocksOrder(s, o)' => OrderFree(o, s)
    PROVE  SettlementInv'
<1>1. \A u \in Sessions : u # s => tx'[u] = tx[u]
    BY DEF TypeInv, TypeOK
<1>2. \A o \in Orders : SameOrder(o)
    BY DEF SameOrder
<1>3. \A o \in Orders : Settled(o)'
    BY <1>2, SameSettled DEF SettlementInv
<1>4. \A u \in Sessions : OrderTxOK(u)'
    <2> TAKE u \in Sessions
    <2>1. CASE u = s
        BY <2>1
    <2>2. CASE u # s
        <3>1. tx[u].kind \in OrderKinds => tx[u].ref \in Orders
            BY DEF TypeInv, TxInv, RefOK, OrderKinds
        <3> QED
            BY <1>1, <1>2, <2>2, <3>1, SameOrderTx DEF SettlementInv
    <2> QED
        BY <2>1, <2>2
<1>5. \A u \in Sessions, o \in Orders : u # s => (LocksOrder(u, o)' <=> LocksOrder(u, o))
    BY <1>1, SameLocks
<1>6. OrdersExclusive'
    BY <1>5 DEF SettlementInv, OrdersExclusive, OrderFree
<1> QED
    BY <1>3, <1>4, <1>6 DEF SettlementInv

\* Such a step that opens or advances no transaction on an order.
LEMMA SettleOther ==
    ASSUME TypeInv, SettlementInv, orders' = orders, rsvState' = rsvState, rsvQty' = rsvQty,
           NEW s \in Sessions, NEW t, tx' = [tx EXCEPT ![s] = t], t.kind \notin OrderKinds
    PROVE  SettlementInv'
<1>1. tx'[s] = t
    BY DEF TypeInv, TypeOK
<1>2. OrderTxOK(s)' /\ \A o \in Orders : ~LocksOrder(s, o)'
    BY <1>1 DEF OrderTxOK, LocksOrder, OrderKinds
<1> QED
    BY <1>2, SettleTx

\* A step without a session that touches no order, no reservation and no lock.
LEMMA SettleSystem ==
    ASSUME TypeInv, SettlementInv, orders' = orders, rsvState' = rsvState, rsvQty' = rsvQty, tx' = tx
    PROVE  SettlementInv'
<1>1. \A o \in Orders : SameOrder(o)
    BY DEF SameOrder
<1>2. \A o \in Orders : Settled(o)'
    BY <1>1, SameSettled DEF SettlementInv
<1>3. \A u \in Sessions : OrderTxOK(u)'
    <2> TAKE u \in Sessions
    <2>1. tx[u].kind \in OrderKinds => tx[u].ref \in Orders
        BY DEF TypeInv, TxInv, RefOK, OrderKinds
    <2> QED
        BY <1>1, <2>1, SameOrderTx DEF SettlementInv
<1>4. OrdersExclusive'
    BY DEF SettlementInv, OrdersExclusive, LocksOrder
<1> QED
    BY <1>2, <1>3, <1>4 DEF SettlementInv

\* A transaction on an order begins from a status it is allowed from.
LEMMA SettleBegin ==
    ASSUME TypeInv, SettlementInv, TxOnly, NEW s \in Sessions, NEW o \in Orders,
           NEW kind \in OrderKinds, orders[o].status \in EarlyCancellation,
           kind \in {"confirm", "cancel"} => orders[o].status = "PENDING_CONFIRMATION",
           kind = "cancel" \/ OrderFree(o, s),
           tx' = [tx EXCEPT ![s] =
              Tx(kind, "begun", 0, o, {}, NoTake, NoMove, View(orders[o], onHand, version))]
    PROVE  SettlementInv'
<1> DEFINE v == View(orders[o], onHand, version)
           t == Tx(kind, "begun", 0, o, {}, NoTake, NoMove, v)
<1>1. v.order = orders[o]
    BY DEF View
<1>2. t.kind = kind /\ t.pc = "begun" /\ t.ref = o /\ t.view = v
    BY TxFields
<1>3. tx' = [tx EXCEPT ![s] = t]
    OBVIOUS
<1> HIDE DEF t, v
<1>4. tx'[s] = t
    BY <1>3 DEF TypeInv, TypeOK
<1>5. orders' = orders /\ rsvState' = rsvState /\ rsvQty' = rsvQty
    BY DEF TxOnly, reservations
<1>6. OrderTxOK(s)'
    BY <1>1, <1>2, <1>4, <1>5 DEF OrderTxOK, EarlyCancellation
<1>7. \A p \in Orders : LocksOrder(s, p)' => OrderFree(p, s)
    BY <1>2, <1>4 DEF LocksOrder
<1> QED
    BY <1>3, <1>5, <1>6, <1>7, SettleTx

\* Locking the active items of an order.
LEMMA SettleLock ==
    ASSUME TypeInv, SettlementInv, NEW s \in Sessions, tx[s].kind \in OrderKinds,
           LockActiveInventory(s), tx[s].kind = "confirm" => CoverageOK(tx[s].ref),
           tx[s].kind = "cancel" => OrderFree(tx[s].ref, s)
    PROVE  SettlementInv'
<1> DEFINE o == tx[s].ref
           t == Tx(tx[s].kind, "locked", clock, o, ActiveItems(o), NoTake, NoMove, tx[s].view)
<1>1. t.kind = tx[s].kind /\ t.pc = "locked" /\ t.ref = o /\ t.view = tx[s].view
      /\ t.items = ActiveItems(o)
    BY TxFields
<1>2. tx' = [tx EXCEPT ![s] = t]
    BY DEF LockActiveInventory
<1> HIDE DEF t
<1>3. tx'[s] = t
    BY <1>2 DEF TypeInv, TypeOK
<1>4. orders' = orders /\ rsvState' = rsvState /\ rsvQty' = rsvQty
    BY DEF LockActiveInventory, reservations
<1>5. \A p : ActiveItems(p)' = ActiveItems(p) /\ \A v : Covered(p, v, "ACTIVE")' = Covered(p, v, "ACTIVE")
    BY <1>4 DEF ActiveItems, Covered
<1>6. o \in Orders /\ OrderTxOK(s)
    BY DEF TypeInv, TxInv, RefOK, OrderKinds, SettlementInv
<1>7. OrderTxOK(s)'
    BY <1>1, <1>3, <1>4, <1>5, <1>6 DEF OrderTxOK, CoverageOK, OrderKinds
<1>8. \A p \in Orders : LocksOrder(s, p)' => OrderFree(p, s)
    <2> SUFFICES OrderFree(o, s)
        BY <1>1, <1>3 DEF LocksOrder
    <2>1. CASE tx[s].kind = "cancel"
        BY <2>1
    <2>2. CASE tx[s].kind # "cancel"
        <3>1. LocksOrder(s, o)
            BY <2>2 DEF LocksOrder, OrderKinds
        <3> QED
            BY <1>6, <3>1 DEF SettlementInv, OrdersExclusive, OrderFree
    <2> QED
        BY <2>1, <2>2
<1> QED
    BY <1>2, <1>4, <1>7, <1>8, SettleTx

\* An order moves to its next status before it is handed over.
LEMMA SettleTransition ==
    ASSUME TypeInv, SettlementInv, NEW o \in Orders, NEW from, NEW to, Transition(o, from, to),
           <<from, to>> \in {<<"CONFIRMED", "PREPARING">>, <<"PREPARING", "READY_FOR_PICKUP">>}
    PROVE  SettlementInv'
<1>1. /\ OrderFree(o, None) /\ orders[o].status = from /\ tx' = tx
      /\ rsvState' = rsvState /\ rsvQty' = rsvQty
      /\ orders' = [orders EXCEPT ![o] = Advanced(orders[o], to, orders[o].payment, orders[o].cash)]
    BY DEF Transition, reservations
<1>2. /\ orders'[o].status = to /\ orders'[o].request = orders[o].request
      /\ \A p \in Orders : p # o => orders'[p] = orders[p]
    BY <1>1, OrderAdvanced
<1>3. \A p \in Orders : p # o => SameOrder(p)
    BY <1>1, <1>2 DEF SameOrder
<1>4. InFull(o) /\ ActiveItems(o) = {}
    BY <1>1 DEF SettlementInv, Settled
<1>5. InFull(o)' /\ ActiveItems(o)' = {}
    BY <1>1, <1>2, <1>4 DEF InFull, Covered, ActiveItems
<1>6. \A p \in Orders : Settled(p)'
    <2> TAKE p \in Orders
    <2>1. CASE p = o
        BY <1>2, <1>5, <2>1 DEF Settled
    <2>2. CASE p # o
        BY <1>3, <2>2, SameSettled DEF SettlementInv
    <2> QED
        BY <2>1, <2>2
<1>7. \A s \in Sessions : OrderTxOK(s)'
    <2> TAKE s \in Sessions
    <2>1. OrderTxOK(s) /\ ~LocksOrder(s, o) /\ tx'[s] = tx[s]
        BY <1>1, NoneAssumption DEF SettlementInv, OrderFree
    <2>2. tx[s].kind \in OrderKinds => tx[s].ref \in Orders
        BY DEF TypeInv, TxInv, RefOK, OrderKinds
    <2>3. CASE tx[s].kind \in OrderKinds /\ tx[s].ref = o
        <3>1. tx[s].kind = "cancel" /\ tx[s].pc # "locked"
            BY <2>1, <2>3 DEF LocksOrder, OrderKinds
        <3> QED
            BY <1>2, <2>1, <2>3, <3>1 DEF OrderTxOK
    <2>4. CASE ~(tx[s].kind \in OrderKinds /\ tx[s].ref = o)
        BY <1>3, <2>1, <2>2, <2>4, SameOrderTx
    <2> QED
        BY <2>3, <2>4
<1>8. OrdersExclusive'
    BY <1>1 DEF SettlementInv, OrdersExclusive, LocksOrder
<1> QED
    BY <1>6, <1>7, <1>8 DEF SettlementInv

\* A commit by session s that writes order o and its reservations.
LEMMA SettleCommit ==
    ASSUME TypeInv, SettlementInv, NEW s \in Sessions, tx' = [tx EXCEPT ![s] = Idle],
           NEW o \in Orders, Settled(o)', \A p \in Orders : p # o => SameOrder(p),
           \A u \in Sessions : u # s /\ tx[u].kind \in OrderKinds /\ tx[u].ref = o => OrderTxOK(u)'
    PROVE  SettlementInv'
<1>1. tx'[s].kind = "none" /\ \A u \in Sessions : u # s => tx'[u] = tx[u]
    BY IdleFields DEF TypeInv, TypeOK
<1>2. \A p \in Orders : Settled(p)'
    <2> TAKE p \in Orders
    <2>1. CASE p = o
        BY <2>1
    <2>2. CASE p # o
        BY <2>2, SameSettled DEF SettlementInv
    <2> QED
        BY <2>1, <2>2
<1>3. \A u \in Sessions : OrderTxOK(u)'
    <2> TAKE u \in Sessions
    <2>1. CASE u = s
        BY <1>1, <2>1 DEF OrderTxOK
    <2>2. CASE u # s
        <3>1. OrderTxOK(u) /\ tx'[u] = tx[u] /\ (tx[u].kind \in OrderKinds => tx[u].ref \in Orders)
            BY <1>1, <2>2 DEF SettlementInv, TypeInv, TxInv, RefOK, OrderKinds
        <3>2. CASE tx[u].kind \in OrderKinds /\ tx[u].ref = o
            BY <2>2, <3>2
        <3>3. CASE ~(tx[u].kind \in OrderKinds /\ tx[u].ref = o)
            BY <3>1, <3>3, SameOrderTx
        <3> QED
            BY <3>2, <3>3
    <2> QED
        BY <2>1, <2>2
<1>4. \A p \in Orders : ~LocksOrder(s, p)'
    BY <1>1 DEF LocksOrder
<1>5. \A u \in Sessions, p \in Orders : u # s => (LocksOrder(u, p)' <=> LocksOrder(u, p))
    BY <1>1, SameLocks
<1>6. OrdersExclusive'
    BY <1>4, <1>5 DEF SettlementInv, OrdersExclusive
<1> QED
    BY <1>2, <1>3, <1>6 DEF SettlementInv

\* A new order has consumed nothing, and no transaction was about it.
LEMMA SettleCheckout ==
    ASSUME TypeInv, SettlementInv, NEW s \in Sessions, NEW o \in Orders, CheckoutCommit(s, o)
    PROVE  SettlementInv'
<1> DEFINE take == tx[s].take
<1>1. /\ tx' = [tx EXCEPT ![s] = Idle] /\ orders[o].status = "NONE"
      /\ rsvQty' = [rsvQty EXCEPT ![o] = take]
      /\ rsvState' = [rsvState EXCEPT ![o] =
              [b \in Buckets |-> IF take[b] > 0 THEN "ACTIVE" ELSE "NONE"]]
    BY DEF CheckoutCommit
<1>2. orders'[o].status = "PENDING_CONFIRMATION" /\ \A p \in Orders : p # o => orders'[p] = orders[p]
    BY DEF CheckoutCommit, TypeInv, TypeOK
<1>3. \A p \in Orders : p # o => rsvQty'[p] = rsvQty[p] /\ rsvState'[p] = rsvState[p]
    BY <1>1 DEF TypeInv, TypeOK
<1>4. \A b \in Buckets : rsvState'[o][b] \in {"ACTIVE", "NONE"}
    BY <1>1 DEF TypeInv, TypeOK
<1>5. Settled(o)'
    BY <1>2, <1>4 DEF Settled, Nothing
<1>6. \A u \in Sessions : tx[u].kind \in OrderKinds => tx[u].ref # o
    BY <1>1 DEF SettlementInv, OrderTxOK, OrderKinds
<1> QED
    BY <1>1, <1>2, <1>3, <1>5, <1>6, SettleCommit DEF SameOrder

\* The only other transactions on an order whose row is locked are
\* cancellations that have not locked it.
LEMMA OthersUnlocked ==
    ASSUME TypeInv, SettlementInv, NEW s \in Sessions, NEW o \in Orders, LocksOrder(s, o),
           NEW u \in Sessions, u # s, tx[u].kind \in OrderKinds, tx[u].ref = o,
           tx'[u] = tx[u], orders'[o].status # "NONE"
    PROVE  OrderTxOK(u)'
<1>1. ~LocksOrder(u, o) /\ OrderTxOK(u)
    BY DEF SettlementInv, OrdersExclusive
<1>2. tx[u].kind = "cancel" /\ tx[u].pc # "locked"
    BY <1>1 DEF LocksOrder, OrderKinds
<1> QED
    BY <1>1, <1>2 DEF OrderTxOK

\* A confirmation consumes exactly the active reservations, which cover the
\* order.
LEMMA SettleConfirm ==
    ASSUME TypeInv, SettlementInv, NEW s \in Sessions, ConfirmCommit(s)
    PROVE  SettlementInv'
<1> DEFINE t == tx[s]
           o == t.ref
<1>1. /\ t.kind = "confirm" /\ t.pc = "locked" /\ o \in Orders /\ OrderTxOK(s) /\ LocksOrder(s, o)
      /\ orders[o].status = t.view.order.status
    BY DEF ConfirmCommit, OrderUnchanged, TypeInv, TxInv, RefOK, SettlementInv, LocksOrder
<1>2. /\ tx' = [tx EXCEPT ![s] = Idle] /\ rsvQty' = rsvQty
      /\ rsvState' = [rsvState EXCEPT ![o] =
              [b \in Buckets |-> IF b \in t.items THEN "CONSUMED" ELSE rsvState[o][b]]]
      /\ orders' = [orders EXCEPT ![o] =
              Advanced(orders[o], "CONFIRMED", orders[o].payment, orders[o].cash)]
    BY DEF ConfirmCommit
<1>3. PICK q \in Orders : q = o
    BY <1>1
<1>4. /\ orders'[q].status = "CONFIRMED" /\ orders'[q].request = orders[q].request
      /\ \A r \in Orders : r # q => orders'[r] = orders[r]
    BY <1>1, <1>2, <1>3, OrderAdvanced
<1>5. /\ \A b \in Buckets : rsvState'[q][b] = IF b \in t.items THEN "CONSUMED" ELSE rsvState[q][b]
      /\ \A r \in Orders : r # q => rsvState'[r] = rsvState[r]
    BY <1>1, <1>2, <1>3 DEF TypeInv, TypeOK
<1>6. /\ t.items = ActiveItems(q) /\ orders[q].status = "PENDING_CONFIRMATION"
      /\ \A v \in Variants : Covered(q, v, "ACTIVE") = orders[q].request.lines[v]
    BY <1>1, <1>3 DEF OrderTxOK
<1>7. \A b \in Buckets : rsvState[q][b] # "CONSUMED"
    BY <1>6 DEF SettlementInv, Settled, Nothing
<1>8. \A b \in Buckets : rsvState'[q][b] = "CONSUMED" <=> rsvState[q][b] = "ACTIVE"
    BY <1>5, <1>6, <1>7 DEF ActiveItems
<1>9. \A b \in Buckets : rsvState'[q][b] # "ACTIVE"
    BY <1>5, <1>6 DEF ActiveItems
<1>10. \A v : Covered(q, v, "CONSUMED")' = Covered(q, v, "ACTIVE")
    <2> TAKE v
    <2>1. {b \in BucketsOf(v) : rsvState'[q][b] = "CONSUMED"} = {b \in BucketsOf(v) : rsvState[q][b] = "ACTIVE"}
        BY <1>8 DEF BucketsOf
    <2> QED
        BY <1>2, <2>1 DEF Covered
<1>11. Settled(q)'
    BY <1>4, <1>6, <1>9, <1>10 DEF Settled, InFull, ActiveItems
<1>12. \A r \in Orders : r # q => SameOrder(r)
    BY <1>2, <1>4, <1>5 DEF SameOrder
<1>13. \A u \in Sessions : u # s => tx'[u] = tx[u]
    BY <1>2 DEF TypeInv, TypeOK
<1>14. \A u \in Sessions : u # s /\ tx[u].kind \in OrderKinds /\ tx[u].ref = q => OrderTxOK(u)'
    BY <1>1, <1>3, <1>4, <1>13, OthersUnlocked
<1> QED
    BY <1>2, <1>11, <1>12, <1>14, SettleCommit

\* A release ends what is still active and leaves what was consumed.
LEMMA SettleRelease ==
    ASSUME TypeInv, SettlementInv, NEW s \in Sessions, ReleaseCommit(s)
    PROVE  SettlementInv'
<1> DEFINE t == tx[s]
<1>1. PICK q \in Orders : q = t.ref
    BY DEF ReleaseCommit, TypeInv, TxInv, RefOK
<1>2. /\ t.kind \in OrderKinds /\ t.pc = "locked" /\ OrderTxOK(s) /\ LocksOrder(s, q)
      /\ orders[q].status = t.view.order.status
    BY <1>1 DEF ReleaseCommit, OrderUnchanged, SettlementInv, LocksOrder, OrderKinds
<1>3. /\ tx' = [tx EXCEPT ![s] = Idle] /\ rsvQty' = rsvQty
      /\ rsvState' = [rsvState EXCEPT ![q] =
              [b \in Buckets |-> IF b \in t.items THEN "RELEASED" ELSE rsvState[q][b]]]
      /\ orders' = [orders EXCEPT ![q] =
              Advanced(orders[q], "CANCELLED", "CANCELLED",
                       IF orders[q].cash = "EXPECTED" THEN "VOIDED" ELSE orders[q].cash)]
    BY <1>1 DEF ReleaseCommit
<1>4. /\ orders'[q].status = "CANCELLED" /\ orders'[q].request = orders[q].request
      /\ \A r \in Orders : r # q => orders'[r] = orders[r]
    BY <1>3, OrderAdvanced
<1>5. /\ \A b \in Buckets : rsvState'[q][b] = IF b \in t.items THEN "RELEASED" ELSE rsvState[q][b]
      /\ \A r \in Orders : r # q => rsvState'[r] = rsvState[r]
    BY <1>3 DEF TypeInv, TypeOK
<1>6. t.items = ActiveItems(q) /\ orders[q].status \in EarlyCancellation /\ Settled(q)
    BY <1>1, <1>2 DEF OrderTxOK, OrderKinds, SettlementInv
<1>7. ActiveItems(q)' = {}
    BY <1>5, <1>6 DEF ActiveItems
<1>8. ASSUME orders[q].status = "PENDING_CONFIRMATION" PROVE Settled(q)'
    <2>1. Nothing(q)'
        BY <1>5, <1>6, <1>8 DEF Nothing, Settled
    <2> QED
        BY <1>4, <1>7, <2>1 DEF Settled
<1>9. orders[q].status \in OrderStatus
    BY DEF TypeInv, TypeOK, OrderRecord
<1>10. ASSUME orders[q].status # "PENDING_CONFIRMATION" PROVE Settled(q)'
    <2>1. InFull(q) /\ ActiveItems(q) = {}
        BY <1>6, <1>9, <1>10 DEF Settled, EarlyCancellation, OrderStatus
    <2>2. \A b \in Buckets : rsvState'[q][b] = rsvState[q][b]
        BY <1>5, <1>6, <2>1
    <2>3. \A v : Covered(q, v, "CONSUMED")' = Covered(q, v, "CONSUMED")
        <3> TAKE v
        <3>1. {b \in BucketsOf(v) : rsvState'[q][b] = "CONSUMED"} = {b \in BucketsOf(v) : rsvState[q][b] = "CONSUMED"}
            BY <2>2 DEF BucketsOf
        <3> QED
            BY <1>3, <3>1 DEF Covered
    <2>4. InFull(q)'
        BY <1>4, <2>1, <2>3 DEF InFull
    <2> QED
        BY <1>4, <1>7, <2>4 DEF Settled
<1>11. Settled(q)'
    BY <1>8, <1>10
<1>12. \A r \in Orders : r # q => SameOrder(r)
    BY <1>3, <1>4, <1>5 DEF SameOrder
<1>13. \A u \in Sessions : u # s => tx'[u] = tx[u]
    BY <1>3 DEF TypeInv, TypeOK
<1>14. \A u \in Sessions : u # s /\ tx[u].kind \in OrderKinds /\ tx[u].ref = q => OrderTxOK(u)'
    BY <1>2, <1>4, <1>13, OthersUnlocked
<1> QED
    BY <1>3, <1>11, <1>12, <1>14, SettleCommit

\* The expiry sweep ends active reservations of items that are not locked.
LEMMA SettleSweep ==
    ASSUME TypeInv, SettlementInv, NEW cutoff, ExpireReservations(cutoff)
    PROVE  SettlementInv'
<1>1. PICK S \in SweepBatches(cutoff) :
         /\ ItemsFree({r[2] : r \in S}, None)
         /\ rsvState' = [o \in Orders |-> [b \in Buckets |->
                IF <<o, b>> \in S THEN "EXPIRED" ELSE rsvState[o][b]]]
    BY DEF ExpireReservations
<1>2. orders' = orders /\ rsvQty' = rsvQty /\ tx' = tx
    BY DEF ExpireReservations
<1>3. \A o \in Orders, b \in Buckets :
         rsvState'[o][b] = IF <<o, b>> \in S THEN "EXPIRED" ELSE rsvState[o][b]
    BY <1>1
<1>4. \A o \in Orders, b \in Buckets : <<o, b>> \in S => rsvState[o][b] = "ACTIVE"
    BY DEF SweepBatches, Overdue
<1>5. \A o \in Orders, b \in Buckets :
         /\ rsvState'[o][b] = "CONSUMED" <=> rsvState[o][b] = "CONSUMED"
         /\ rsvState'[o][b] = "ACTIVE" => rsvState[o][b] = "ACTIVE"
         /\ rsvState[o][b] = "NONE" => rsvState'[o][b] = "NONE"
    BY <1>3, <1>4
<1>6. \A o \in Orders : Settled(o)'
    <2> TAKE o \in Orders
    <2>1. \A v : Covered(o, v, "CONSUMED")' = Covered(o, v, "CONSUMED")
        <3> TAKE v
        <3>1. {b \in BucketsOf(v) : rsvState'[o][b] = "CONSUMED"} = {b \in BucketsOf(v) : rsvState[o][b] = "CONSUMED"}
            BY <1>5 DEF BucketsOf
        <3> QED
            BY <1>2, <3>1 DEF Covered
    <2>2. (InFull(o) => InFull(o)') /\ (Nothing(o) => Nothing(o)')
        BY <1>2, <1>5, <2>1 DEF InFull, Nothing
    <2>3. ActiveItems(o) = {} => ActiveItems(o)' = {}
        BY <1>5 DEF ActiveItems
    <2>4. Settled(o)
        BY DEF SettlementInv
    <2> QED
        BY <1>2, <1>5, <2>2, <2>3, <2>4 DEF Settled
<1>7. \A s \in Sessions : OrderTxOK(s)'
    <2> TAKE s \in Sessions
    <2>1. OrderTxOK(s) /\ tx'[s] = tx[s]
        BY <1>2 DEF SettlementInv
    <2> SUFFICES ASSUME tx[s].kind \in OrderKinds PROVE OrderTxOK(s)'
        BY <2>1 DEF OrderTxOK, OrderKinds
    <2>2. CASE tx[s].pc # "locked"
        BY <1>2, <2>1, <2>2 DEF OrderTxOK
    <2>3. CASE tx[s].pc = "locked"
        <3>1. PICK o \in Orders : o = tx[s].ref
            BY DEF TypeInv, TxInv, RefOK, OrderKinds
        <3>2. tx[s].items = ActiveItems(o)
            BY <2>1, <2>3, <3>1 DEF OrderTxOK, OrderKinds
        <3>3. LockedItems(s) \cap {r[2] : r \in S} = {}
            BY <1>1, NoneAssumption DEF ItemsFree
        <3>4. \A b \in ActiveItems(o) : <<o, b>> \notin S
            <4> SUFFICES ASSUME NEW b \in ActiveItems(o), <<o, b>> \in S PROVE FALSE
                OBVIOUS
            <4>1. b \in {r[2] : r \in S}
                <5>1. <<o, b>>[2] = b
                    OBVIOUS
                <5> QED
                    BY <5>1
            <4> QED
                BY <2>3, <3>2, <3>3, <4>1 DEF LockedItems
        <3>5. \A b \in Buckets : rsvState'[o][b] = rsvState[o][b]
            BY <1>3, <1>4, <3>4 DEF ActiveItems
        <3>6. rsvState'[o] = rsvState[o]
            <4>1. rsvState[o] \in [Buckets -> ReservationState]
                BY DEF TypeInv, TypeOK
            <4>2. rsvState'[o] = [b \in Buckets |-> IF <<o, b>> \in S THEN "EXPIRED" ELSE rsvState[o][b]]
                BY <1>1
            <4> QED
                BY <3>5, <4>1, <4>2
        <3>7. SameOrder(o)
            BY <1>2, <3>6 DEF SameOrder
        <3> QED
            BY <2>1, <3>1, <3>7, SameOrderTx
    <2> QED
        BY <2>2, <2>3
<1>8. OrdersExclusive'
    BY <1>2 DEF SettlementInv, OrdersExclusive, LocksOrder
<1> QED
    BY <1>6, <1>7, <1>8 DEF SettlementInv

\* Every step keeps the invariant of settlements.
LEMMA SettlementStep ==
    TypeInv /\ SettlementInv /\ [Next]_vars => SettlementInv'
<1> SUFFICES ASSUME TypeInv, SettlementInv, [Next]_vars PROVE SettlementInv'
    OBVIOUS
<1>1. Idle.kind \notin OrderKinds
    BY IdleFields DEF OrderKinds
<1>2. ASSUME NEW s \in Sessions, NEW t, TxOnly, tx' = [tx EXCEPT ![s] = t], t.kind \notin OrderKinds
      PROVE  SettlementInv'
    <2>1. orders' = orders /\ rsvState' = rsvState /\ rsvQty' = rsvQty
        BY <1>2 DEF TxOnly, reservations
    <2> QED
        BY <1>2, <2>1, SettleOther
<1>3. CustomerStep => SettlementInv'
    <2>1. ASSUME NEW c, NEW r, EditCart(c, r) PROVE SettlementInv'
        <3>1. orders' = orders /\ rsvState' = rsvState /\ rsvQty' = rsvQty /\ tx' = tx
            BY <2>1 DEF EditCart, reservations
        <3> QED
            BY <3>1, SettleSystem
    <2>2. ASSUME NEW s \in Sessions, NEW k, NEW r, CheckoutBegin(s, k, r) PROVE SettlementInv'
        <3>1. PICK now : tx' = [tx EXCEPT ![s] =
                   Tx("checkout", "begun", now, k, Candidates(r), NoTake, NoMove, NoView)]
            BY <2>2 DEF CheckoutBegin
        <3> DEFINE t == Tx("checkout", "begun", now, k, Candidates(r), NoTake, NoMove, NoView)
        <3>2. TxOnly
            BY <2>2 DEF CheckoutBegin, TxOnly
        <3>3. t.kind = "checkout" /\ tx' = [tx EXCEPT ![s] = t]
            BY <3>1, TxFields
        <3> HIDE DEF t
        <3> QED
            BY <1>2, <3>2, <3>3 DEF OrderKinds
    <2>3. ASSUME NEW s \in Sessions, CheckoutLock(s) PROVE SettlementInv'
        <3>1. PICK take : tx' = [tx EXCEPT ![s] =
                Tx("checkout", "locked", tx[s].now, tx[s].ref, tx[s].items, take, NoMove, NoView)]
            BY <2>3 DEF CheckoutLock
        <3> DEFINE t == Tx("checkout", "locked", tx[s].now, tx[s].ref, tx[s].items, take, NoMove, NoView)
        <3>2. TxOnly
            BY <2>3 DEF CheckoutLock, TxOnly
        <3>3. t.kind = "checkout" /\ tx' = [tx EXCEPT ![s] = t]
            BY <3>1, TxFields
        <3> HIDE DEF t
        <3> QED
            BY <1>2, <3>2, <3>3 DEF OrderKinds
    <2>4. ASSUME NEW s \in Sessions, NEW o \in Orders, CancelBegin(s, o) PROVE SettlementInv'
        <3>1. /\ TxOnly /\ orders[o].status = "PENDING_CONFIRMATION"
              /\ tx' = [tx EXCEPT ![s] =
                    Tx("cancel", "begun", 0, o, {}, NoTake, NoMove, View(orders[o], onHand, version))]
            BY <2>4 DEF CancelBegin, TxOnly
        <3>2. orders[o].status \in EarlyCancellation /\ "cancel" \in OrderKinds
            BY <3>1 DEF EarlyCancellation, OrderKinds
        <3> QED
            BY <3>1, <3>2, SettleBegin
    <2>5. ASSUME NEW s \in Sessions, CancelLock(s) PROVE SettlementInv'
        BY <2>5, SettleLock DEF CancelLock, OrderKinds
    <2> QED
        BY <2>1, <2>2, <2>3, <2>4, <2>5, SettleCheckout DEF CustomerStep
<1>4. AdminStep => SettlementInv'
    <2>1. ASSUME NEW s \in Sessions, NEW o \in Orders, NEW kind \in {"confirm", "terminate"},
                 LockOrderThenRead(s, o, kind), orders[o].status \in EarlyCancellation,
                 kind = "confirm" => orders[o].status = "PENDING_CONFIRMATION"
          PROVE  SettlementInv'
        <3>1. /\ TxOnly /\ OrderFree(o, s)
              /\ tx' = [tx EXCEPT ![s] =
                    Tx(kind, "begun", 0, o, {}, NoTake, NoMove, View(orders[o], onHand, version))]
            BY <2>1 DEF LockOrderThenRead, TxOnly
        <3>2. kind \in OrderKinds /\ (kind \in {"confirm", "cancel"} => orders[o].status = "PENDING_CONFIRMATION")
            BY <2>1 DEF OrderKinds
        <3> QED
            BY <2>1, <3>1, <3>2, SettleBegin
    <2>2. ASSUME NEW s \in Sessions, NEW o \in Orders, ConfirmBegin(s, o) PROVE SettlementInv'
        BY <2>1, <2>2 DEF ConfirmBegin, EarlyCancellation
    <2>3. ASSUME NEW s \in Sessions, NEW o \in Orders, TerminateBegin(s, o) PROVE SettlementInv'
        BY <2>1, <2>3 DEF TerminateBegin
    <2>4. ASSUME NEW s \in Sessions, ConfirmLock(s) \/ TerminateLock(s) PROVE SettlementInv'
        BY <2>4, SettleLock DEF ConfirmLock, TerminateLock, OrderKinds
    <2>5. ASSUME NEW o \in Orders, Prepare(o) \/ ReadyForPickup(o) PROVE SettlementInv'
        <3>1. Transition(o, "CONFIRMED", "PREPARING") \/ Transition(o, "PREPARING", "READY_FOR_PICKUP")
            BY <2>5 DEF Prepare, ReadyForPickup
        <3> QED
            BY <3>1, SettleTransition
    <2> QED
        BY <2>2, <2>3, <2>4, <2>5, SettleConfirm, SettleRelease DEF AdminStep
<1>5. StockStep => SettlementInv'
    <2>1. ASSUME NEW s \in Sessions, NEW m, NEW mv, NEW kind \in {"receive", "transfer"},
                 ReplayLookup(s, m, mv, kind)
          PROVE  SettlementInv'
        <3> DEFINE t == Tx(kind, "begun", 0, m, {}, NoTake, mv, NoView)
        <3>1. TxOnly /\ tx' = [tx EXCEPT ![s] = t]
            BY <2>1 DEF ReplayLookup, TxOnly
        <3>2. t.kind = kind
            BY TxFields
        <3> HIDE DEF t
        <3> QED
            BY <1>2, <3>1, <3>2 DEF OrderKinds
    <2>2. ASSUME NEW s \in Sessions, ReceiveCommit(s) \/ TransferCommit(s) PROVE SettlementInv'
        <3>1. /\ orders' = orders /\ rsvState' = rsvState /\ rsvQty' = rsvQty
              /\ tx' = [tx EXCEPT ![s] = Idle]
            BY <2>2 DEF ReceiveCommit, TransferCommit, reservations
        <3> QED
            BY <1>1, <3>1, SettleOther
    <2>3. ASSUME NEW a, NEW b, NEW d, RequestAdjustment(a, b, d) PROVE SettlementInv'
        <3>1. orders' = orders /\ rsvState' = rsvState /\ rsvQty' = rsvQty /\ tx' = tx
            BY <2>3 DEF RequestAdjustment, reservations
        <3> QED
            BY <3>1, SettleSystem
    <2>4. ASSUME NEW s \in Sessions, NEW a, NEW d \in {"approve", "reject"}, DecideBegin(s, a, d)
          PROVE  SettlementInv'
        <3> DEFINE t == Tx(d, "begun", clock, a, {}, NoTake, NoMove, NoView)
        <3>1. TxOnly /\ tx' = [tx EXCEPT ![s] = t]
            BY <2>4 DEF DecideBegin, TxOnly
        <3>2. t.kind = d
            BY TxFields
        <3> HIDE DEF t
        <3> QED
            BY <1>2, <3>1, <3>2 DEF OrderKinds
    <2>5. ASSUME NEW s \in Sessions, DecideExpired(s) \/ DecideReject(s) \/ DecideApply(s)
          PROVE  SettlementInv'
        <3>1. /\ orders' = orders /\ rsvState' = rsvState /\ rsvQty' = rsvQty
              /\ tx' = [tx EXCEPT ![s] = Idle]
            BY <2>5 DEF DecideExpired, DecideReject, DecideApply, CloseAdjustment, reservations
        <3> QED
            BY <1>1, <3>1, SettleOther
    <2> QED
        BY <2>1, <2>2, <2>3, <2>4, <2>5 DEF StockStep, ReceiveBegin, TransferBegin
<1>6. ASSUME NEW s \in Sessions, Rollback(s) PROVE SettlementInv'
    BY <1>1, <1>2, <1>6 DEF Rollback, TxOnly
<1>7. CASE Tick \/ UNCHANGED vars
    <2>1. orders' = orders /\ rsvState' = rsvState /\ rsvQty' = rsvQty /\ tx' = tx
        BY <1>7 DEF Tick, vars, reservations
    <2> QED
        BY <2>1, SettleSystem
<1> QED
    BY <1>3, <1>4, <1>5, <1>6, <1>7, SettleSweep DEF Next, Sweep

\* The empty database satisfies the invariant of settlements.
LEMMA SettlementInit ==
    Init => SettlementInv
<1> SUFFICES ASSUME Init PROVE SettlementInv
    OBVIOUS
<1>1. \A s \in Sessions : tx[s].kind = "none"
    BY IdleFields DEF Init
<1>2. \A o \in Orders : orders[o] = NoOrder /\ orders[o].status = "NONE"
    BY DEF Init, NoOrder
<1>3. \A o \in Orders, b \in Buckets : rsvState[o][b] = "NONE"
    BY DEF Init
<1> QED
    BY <1>1, <1>2, <1>3 DEF SettlementInv, OrdersExclusive, LocksOrder, OrderTxOK, Settled

-----------------------------------------------------------------------------
(* Theorems *)

\* The invariants of types, settlements and submissions hold together.
THEOREM OrderInvHolds ==
    Spec => []OrderInv
<1>1. Init => OrderInv
    BY TypeInit, SubmissionInit, SettlementInit DEF OrderInv
<1>2. OrderInv /\ [Next]_vars => OrderInv'
    BY TypeStep, SubmissionStep, SettlementStep DEF OrderInv
<1> QED
    BY <1>1, <1>2, PTL DEF Spec

\* However often a checkout is doubled, retried or rolled back, the idempotency
\* key and the cart of an order have no other order.
THEOREM OneOrderEach ==
    Spec => []OneOrderPerSubmission
<1>1. OrderInv => OneOrderPerSubmission
    BY DEF OrderInv, SubmissionInv
<1> QED
    BY <1>1, OrderInvHolds, PTL

\* Whatever cancellations, sweeps and confirmations race, an order leaves the
\* shelf as a whole or not at all.
THEOREM OrdersWholeOrNot ==
    Spec => []AllOrNothing
<1>1. OrderInv => AllOrNothing
    BY DEF OrderInv, SettlementInv, Settled, InFull, Nothing, AllOrNothing
<1> QED
    BY <1>1, OrderInvHolds, PTL

\* No step changes a reservation that was consumed, released or expired.
LEMMA FinalStep ==
    ASSUME OrderInv, [Next]_vars
    PROVE  \A o \in Orders, b \in Buckets :
              rsvState[o][b] \in {"CONSUMED", "RELEASED", "EXPIRED"} =>
                  rsvState'[o][b] = rsvState[o][b]
<1> SUFFICES ASSUME NEW o \in Orders, NEW b \in Buckets,
                    rsvState[o][b] \in {"CONSUMED", "RELEASED", "EXPIRED"}
             PROVE  rsvState'[o][b] = rsvState[o][b]
    OBVIOUS
<1>1. CASE rsvState' = rsvState
    BY <1>1
<1>2. ASSUME NEW s \in Sessions, NEW p \in Orders, CheckoutCommit(s, p)
      PROVE  rsvState'[o][b] = rsvState[o][b]
    <2>1. p # o
        BY <1>2 DEF CheckoutCommit, OrderInv, SettlementInv, Settled
    <2> QED
        BY <1>2, <2>1 DEF CheckoutCommit, OrderInv, TypeInv, TypeOK
<1>3. ASSUME NEW s \in Sessions, ConfirmCommit(s) \/ ReleaseCommit(s)
      PROVE  rsvState'[o][b] = rsvState[o][b]
    <2>1. PICK p \in Orders : p = tx[s].ref
        BY <1>3 DEF ConfirmCommit, ReleaseCommit, OrderInv, TypeInv, TxInv, RefOK
    <2>2. tx[s].items = ActiveItems(p)
        BY <1>3, <2>1 DEF ConfirmCommit, ReleaseCommit, OrderInv, SettlementInv, OrderTxOK
    <2>3. p = o => b \notin tx[s].items
        BY <2>2 DEF ActiveItems
    <2> DEFINE Ended(state) == [rsvState EXCEPT ![p] =
                   [c \in Buckets |-> IF c \in tx[s].items THEN state ELSE rsvState[p][c]]]
    <2>4. rsvState' = Ended("CONSUMED") \/ rsvState' = Ended("RELEASED")
        BY <1>3, <2>1 DEF ConfirmCommit, ReleaseCommit
    <2> QED
        BY <2>3, <2>4 DEF OrderInv, TypeInv, TypeOK
<1>4. ASSUME NEW cutoff, ExpireReservations(cutoff) PROVE rsvState'[o][b] = rsvState[o][b]
    <2>1. PICK S \in SweepBatches(cutoff) :
             rsvState' = [p \in Orders |-> [c \in Buckets |->
                IF <<p, c>> \in S THEN "EXPIRED" ELSE rsvState[p][c]]]
        BY <1>4 DEF ExpireReservations
    <2>2. <<o, b>> \notin S
        BY DEF SweepBatches, Overdue
    <2> QED
        BY <2>1, <2>2
<1>5. CustomerStep => rsvState'[o][b] = rsvState[o][b]
    BY <1>2 DEF CustomerStep, EditCart, CheckoutBegin, CheckoutLock, CancelBegin, CancelLock,
                LockActiveInventory, reservations
<1>6. AdminStep => rsvState'[o][b] = rsvState[o][b]
    BY <1>3 DEF AdminStep, ConfirmBegin, TerminateBegin, LockOrderThenRead, ConfirmLock,
                TerminateLock, LockActiveInventory, Prepare, ReadyForPickup, Transition, reservations
<1>7. StockStep => rsvState'[o][b] = rsvState[o][b]
    BY DEF StockStep, ReceiveBegin, TransferBegin, ReplayLookup, ReceiveCommit, TransferCommit,
           RequestAdjustment, DecideBegin, DecideExpired, DecideReject, DecideApply, reservations
<1>8. ASSUME NEW s \in Sessions, Rollback(s) PROVE rsvState'[o][b] = rsvState[o][b]
    BY <1>8 DEF Rollback, reservations
<1>9. CASE Tick \/ UNCHANGED vars
    BY <1>9 DEF Tick, vars, reservations
<1> QED
    BY <1>4, <1>5, <1>6, <1>7, <1>8, <1>9 DEF Next, Sweep

\* Consumption, release and expiry are final: the sweep, a cancellation and a
\* confirmation never undo each other.
THEOREM ReservationsStayFinal ==
    Spec => ReservationsFinal
<1>1. OrderInv /\ [Next]_vars =>
         [\A o \in Orders, b \in Buckets :
              rsvState[o][b] \in {"CONSUMED", "RELEASED", "EXPIRED"} =>
                  rsvState'[o][b] = rsvState[o][b]]_vars
    BY FinalStep
<1> QED
    BY <1>1, OrderInvHolds, PTL DEF Spec, ReservationsFinal

\* What OrderMovesForward asks of one order in one step.
Forward(o) ==
    orders'[o].status # orders[o].status =>
        /\ <<orders[o].status, orders'[o].status>> \in
              {<<"NONE", "PENDING_CONFIRMATION">>,
               <<"PENDING_CONFIRMATION", "CONFIRMED">>,
               <<"PENDING_CONFIRMATION", "CANCELLED">>,
               <<"CONFIRMED", "PREPARING">>, <<"CONFIRMED", "CANCELLED">>,
               <<"PREPARING", "READY_FOR_PICKUP">>, <<"PREPARING", "CANCELLED">>,
               <<"READY_FOR_PICKUP", "CANCELLED">>}
        /\ orders'[o].version = orders[o].version + 1
        /\ \A s \in Sessions :
              tx[s].kind = "cancel" /\ tx[s].ref = o /\ tx'[s] # tx[s] =>
                  orders[o].status = "PENDING_CONFIRMATION"

\* Every step moves every order forward or leaves it alone.
LEMMA ForwardStep ==
    ASSUME OrderInv, [Next]_vars PROVE \A o \in Orders : Forward(o)
<1> SUFFICES ASSUME NEW o \in Orders PROVE Forward(o)
    OBVIOUS
<1>1. orders' = orders => Forward(o)
    BY DEF Forward
<1>2. ASSUME NEW s \in Sessions, NEW p \in Orders, CheckoutCommit(s, p) PROVE Forward(o)
    <2>1. CASE p # o
        <3>1. orders'[o] = orders[o]
            BY <1>2, <2>1 DEF CheckoutCommit, OrderInv, TypeInv, TypeOK
        <3> QED
            BY <3>1 DEF Forward
    <2>2. CASE p = o
        <3>1. orders'[o].status = "PENDING_CONFIRMATION" /\ orders'[o].version = 1
            BY <1>2, <2>2 DEF CheckoutCommit, OrderInv, TypeInv, TypeOK
        <3>2. orders[o].status = "NONE" /\ orders[o].version = 0
            BY <1>2, <2>2 DEF CheckoutCommit, OrderInv, SettlementInv, Settled, NoOrder
        <3>3. \A u \in Sessions : u # s => tx'[u] = tx[u]
            BY <1>2 DEF CheckoutCommit, OrderInv, TypeInv, TypeOK
        <3>4. tx[s].kind = "checkout"
            BY <1>2 DEF CheckoutCommit
        <3> QED
            BY <3>1, <3>2, <3>3, <3>4 DEF Forward
    <2> QED
        BY <2>1, <2>2
<1>3. ASSUME NEW s \in Sessions, ConfirmCommit(s) PROVE Forward(o)
    <2>1. PICK p \in Orders : p = tx[s].ref
        BY <1>3 DEF ConfirmCommit, OrderInv, TypeInv, TxInv, RefOK
    <2>2. orders' = [orders EXCEPT ![p] =
                        Advanced(orders[p], "CONFIRMED", orders[p].payment, orders[p].cash)]
        BY <1>3, <2>1 DEF ConfirmCommit
    <2>3. /\ orders'[p].status = "CONFIRMED" /\ orders'[p].version = orders[p].version + 1
          /\ p # o => orders'[o] = orders[o]
        BY <2>2, OrderAdvanced DEF OrderInv
    <2>4. orders[p].status = "PENDING_CONFIRMATION"
        BY <1>3, <2>1 DEF ConfirmCommit, OrderUnchanged, OrderInv, SettlementInv, OrderTxOK
    <2> QED
        BY <2>3, <2>4 DEF Forward
<1>4. ASSUME NEW s \in Sessions, ReleaseCommit(s) PROVE Forward(o)
    <2>1. PICK p \in Orders : p = tx[s].ref
        BY <1>4 DEF ReleaseCommit, OrderInv, TypeInv, TxInv, RefOK
    <2>2. PICK cash : orders' = [orders EXCEPT ![p] = Advanced(orders[p], "CANCELLED", "CANCELLED", cash)]
        BY <1>4, <2>1 DEF ReleaseCommit
    <2>3. /\ orders'[p].status = "CANCELLED" /\ orders'[p].version = orders[p].version + 1
          /\ p # o => orders'[o] = orders[o]
        BY <2>2, OrderAdvanced DEF OrderInv
    <2>4. orders[p].status \in EarlyCancellation /\ orders[p].status \in OrderStatus
        BY <1>4, <2>1 DEF ReleaseCommit, OrderUnchanged, OrderInv, SettlementInv, OrderTxOK, TypeInv,
                          TypeOK, OrderRecord
    <2>5. orders[p].status \in {"PENDING_CONFIRMATION", "CONFIRMED", "PREPARING", "READY_FOR_PICKUP"}
        BY <2>4 DEF EarlyCancellation, OrderStatus
    <2>6. tx[s].kind = "cancel" => orders[p].status = "PENDING_CONFIRMATION"
        BY <1>4, <2>1 DEF ReleaseCommit, OrderUnchanged, OrderInv, SettlementInv, OrderTxOK
    <2>7. \A u \in Sessions : u # s => tx'[u] = tx[u]
        BY <1>4 DEF ReleaseCommit, OrderInv, TypeInv, TypeOK
    <2> QED
        BY <2>3, <2>5, <2>6, <2>7 DEF Forward
<1>5. ASSUME NEW p \in Orders, Prepare(p) \/ ReadyForPickup(p) PROVE Forward(o)
    <2>1. PICK from, to : /\ <<from, to>> \in {<<"CONFIRMED", "PREPARING">>, <<"PREPARING", "READY_FOR_PICKUP">>}
                          /\ Transition(p, from, to)
        BY <1>5 DEF Prepare, ReadyForPickup
    <2>2. /\ orders[p].status = from /\ tx' = tx
          /\ orders' = [orders EXCEPT ![p] = Advanced(orders[p], to, orders[p].payment, orders[p].cash)]
        BY <2>1 DEF Transition
    <2>3. /\ orders'[p].status = to /\ orders'[p].version = orders[p].version + 1
          /\ p # o => orders'[o] = orders[o]
        BY <2>2, OrderAdvanced DEF OrderInv
    <2> QED
        BY <2>1, <2>2, <2>3 DEF Forward
<1>6. CustomerStep => Forward(o)
    BY <1>1, <1>2 DEF CustomerStep, EditCart, CheckoutBegin, CheckoutLock, CancelBegin, CancelLock,
                LockActiveInventory
<1>7. AdminStep => Forward(o)
    BY <1>1, <1>3, <1>4, <1>5 DEF AdminStep, ConfirmBegin, TerminateBegin, LockOrderThenRead,
                ConfirmLock, TerminateLock, LockActiveInventory
<1>8. StockStep => Forward(o)
    BY <1>1 DEF StockStep, ReceiveBegin, TransferBegin, ReplayLookup, ReceiveCommit, TransferCommit,
           RequestAdjustment, DecideBegin, DecideExpired, DecideReject, DecideApply
<1>9. ASSUME NEW s \in Sessions, Rollback(s) PROVE Forward(o)
    BY <1>1, <1>9 DEF Rollback
<1>10. ASSUME NEW cutoff, ExpireReservations(cutoff) PROVE Forward(o)
    BY <1>1, <1>10 DEF ExpireReservations
<1>11. CASE Tick \/ UNCHANGED vars
    BY <1>1, <1>11 DEF Tick, vars
<1> QED
    BY <1>6, <1>7, <1>8, <1>9, <1>10, <1>11 DEF Next, Sweep

\* Orders only move along the status graph, one version at a time, and a
\* customer's cancellation, which decides on a read view older than its lock,
\* only ever cancels an order that is still pending.
THEOREM OrdersMoveForward ==
    Spec => OrderMovesForward
<1>1. OrderInv /\ [Next]_vars => [\A o \in Orders : Forward(o)]_vars
    BY ForwardStep
<1>2. [][\A o \in Orders : Forward(o)]_vars => OrderMovesForward
    BY DEF Forward, OrderMovesForward
<1> QED
    BY <1>1, <1>2, OrderInvHolds, PTL DEF Spec

-----------------------------------------------------------------------------
(* Stock and its records *)

\* A receipt or transfer recorded under an unused key adds its quantity at its
\* destination and, for a transfer, at its source.
LEMMA MoveRecorded ==
    ASSUME TypeInv, NEW m \in Moves, moves[m] = NoMove, NEW mv \in MoveRecord,
           moves' = [moves EXCEPT ![m] = mv], NEW b \in Buckets
    PROVE  /\ MovedIn(b)' = MovedIn(b) + (IF mv.to = b THEN mv.quantity ELSE 0)
           /\ MovedOut(b)' = MovedOut(b) + (IF mv.from = b THEN mv.quantity ELSE 0)
           /\ MovedIn(b) \in Int /\ MovedOut(b) \in Int
<1> DEFINE f == [n \in Moves |-> moves[n].quantity]
           g == [n \in Moves |-> moves'[n].quantity]
           In == {n \in Moves : moves[n].to = b}
           Out == {n \in Moves : moves[n].from = b}
           In2 == {n \in Moves : moves'[n].to = b}
           Out2 == {n \in Moves : moves'[n].from = b}
<1>1. /\ moves'[m] = mv /\ \A n \in Moves : n # m => moves'[n] = moves[n]
    BY DEF TypeInv, TypeOK
<1>2. mv.quantity \in Int /\ \A n \in Moves : moves[n].quantity \in Int
    BY DEF TypeInv, TypeOK, MoveRecord
<1>3. b # 0 /\ m \notin In /\ m \notin Out
    BY NumBucketsAssumption DEF NoMove, Buckets
<1>4. IsFiniteSet(In) /\ IsFiniteSet(Out)
    BY RecordsAssumption, FS_Subset
<1>5. g[m] = mv.quantity /\ \A n \in In \cup Out : f[n] = g[n] /\ f[n] \in Int
    BY <1>1, <1>2, <1>3
<1>6. /\ In2 = IF mv.to = b THEN In \cup {m} ELSE In
      /\ Out2 = IF mv.from = b THEN Out \cup {m} ELSE Out
    BY <1>1, <1>3
<1>7. MovedIn(b) = Total(f, In) /\ MovedOut(b) = Total(f, Out)
    BY DEF MovedIn, MovedOut
<1>8. MovedIn(b)' = Total(g, In2) /\ MovedOut(b)' = Total(g, Out2)
    BY DEF MovedIn, MovedOut
<1> HIDE DEF f, g, In, Out, In2, Out2
<1>9. /\ Total(g, In \cup {m}) = Total(f, In) + g[m] /\ Total(f, In) \in Int
      /\ Total(f, In) = Total(g, In)
    <2>1. IsFiniteSet(In) /\ m \notin In /\ g[m] \in Int /\ \A n \in In : f[n] = g[n] /\ f[n] \in Int
        BY <1>2, <1>3, <1>4, <1>5
    <2>2. Total(g, In \cup {m}) = Total(f, In) + g[m] /\ Total(f, In) \in Int
        BY <2>1, TotalJoins
    <2>3. Total(f, In) = Total(g, In)
        BY <2>1, TotalSame
    <2> QED
        BY <2>2, <2>3
<1>10. /\ Total(g, Out \cup {m}) = Total(f, Out) + g[m] /\ Total(f, Out) \in Int
      /\ Total(f, Out) = Total(g, Out)
    <2>1. IsFiniteSet(Out) /\ m \notin Out /\ g[m] \in Int /\ \A n \in Out : f[n] = g[n] /\ f[n] \in Int
        BY <1>2, <1>3, <1>4, <1>5
    <2>2. Total(g, Out \cup {m}) = Total(f, Out) + g[m] /\ Total(f, Out) \in Int
        BY <2>1, TotalJoins
    <2>3. Total(f, Out) = Total(g, Out)
        BY <2>1, TotalSame
    <2> QED
        BY <2>2, <2>3
<1> QED
    BY <1>5, <1>6, <1>7, <1>8, <1>9, <1>10

\* Receipts and transfers that are not touched say the same as before.
LEMMA MovesSame ==
    ASSUME moves' = moves, NEW b
    PROVE  MovedIn(b)' = MovedIn(b) /\ MovedOut(b)' = MovedOut(b)
BY DEF MovedIn, MovedOut

\* So do adjustments.
LEMMA AdjustmentsSame ==
    ASSUME adjustments' = adjustments, NEW b PROVE Corrected(b)' = Corrected(b)
BY DEF Corrected

\* An adjustment whose record is written, and was not applied before, counts
\* when it is applied now.
LEMMA AdjustmentWritten ==
    ASSUME TypeInv, NEW a \in Adjustments, adjustments[a].status # "APPLIED",
           NEW adj \in AdjustmentRecord, adjustments' = [adjustments EXCEPT ![a] = adj],
           NEW b \in Buckets
    PROVE  /\ Corrected(b)' = Corrected(b)
                 + (IF adj.status = "APPLIED" /\ adj.item = b THEN adj.delta ELSE 0)
           /\ Corrected(b) \in Int
<1> DEFINE f == [c \in Adjustments |-> adjustments[c].delta]
           g == [c \in Adjustments |-> adjustments'[c].delta]
           S == {c \in Adjustments : adjustments[c].status = "APPLIED" /\ adjustments[c].item = b}
           S2 == {c \in Adjustments : adjustments'[c].status = "APPLIED" /\ adjustments'[c].item = b}
<1>1. adjustments'[a] = adj /\ \A c \in Adjustments : c # a => adjustments'[c] = adjustments[c]
    BY DEF TypeInv, TypeOK
<1>2. adj.delta \in Int /\ \A c \in Adjustments : adjustments[c].delta \in Int
    BY DEF TypeInv, TypeOK, AdjustmentRecord
<1>3. a \notin S /\ IsFiniteSet(S)
    BY RecordsAssumption, FS_Subset
<1>4. g[a] = adj.delta /\ \A c \in S : f[c] = g[c] /\ f[c] \in Int
    BY <1>1, <1>2, <1>3
<1>5. S2 = IF adj.status = "APPLIED" /\ adj.item = b THEN S \cup {a} ELSE S
    BY <1>1, <1>3
<1>6. Corrected(b) = Total(f, S) /\ Corrected(b)' = Total(g, S2)
    BY DEF Corrected
<1> HIDE DEF f, g, S, S2
<1>7. /\ Total(g, S \cup {a}) = Total(f, S) + g[a] /\ Total(f, S) \in Int
      /\ Total(f, S) = Total(g, S)
    <2>1. IsFiniteSet(S) /\ a \notin S /\ g[a] \in Int /\ \A n \in S : f[n] = g[n] /\ f[n] \in Int
        BY <1>2, <1>3, <1>4
    <2>2. Total(g, S \cup {a}) = Total(f, S) + g[a] /\ Total(f, S) \in Int
        BY <2>1, TotalJoins
    <2>3. Total(f, S) = Total(g, S)
        BY <2>1, TotalSame
    <2> QED
        BY <2>2, <2>3
<1> QED
    BY <1>4, <1>5, <1>6, <1>7

\* Reservations: the consumed ones of a bucket with their quantities.
LEMMA ConsumedSame ==
    ASSUME TypeInv, NEW b \in Buckets,
           \A o \in Orders :
              /\ rsvState'[o][b] = "CONSUMED" <=> rsvState[o][b] = "CONSUMED"
              /\ rsvState[o][b] = "CONSUMED" => rsvQty'[o][b] = rsvQty[o][b]
    PROVE  Consumed(b)' = Consumed(b)
<1> DEFINE f == [o \in Orders |-> rsvQty[o][b]]
           g == [o \in Orders |-> rsvQty'[o][b]]
           S == {o \in Orders : rsvState[o][b] = "CONSUMED"}
           S2 == {o \in Orders : rsvState'[o][b] = "CONSUMED"}
<1>1. S2 = S /\ IsFiniteSet(S)
    BY OrdersAssumption, FS_Subset
<1>2. \A o \in S : f[o] = g[o] /\ f[o] \in Int
    BY MaxStockAssumption DEF TypeInv, TypeOK
<1>3. Consumed(b) = Total(f, S) /\ Consumed(b)' = Total(g, S2)
    BY DEF Consumed
<1> HIDE DEF f, g, S, S2
<1> QED
    BY <1>1, <1>2, <1>3, TotalSame

\* The reservation of an order that is consumed now.
LEMMA ConsumedGrows ==
    ASSUME TypeInv, NEW b \in Buckets, NEW o \in Orders, rsvQty' = rsvQty,
           rsvState[o][b] # "CONSUMED", rsvState'[o][b] = "CONSUMED",
           \A p \in Orders : p # o => rsvState'[p][b] = rsvState[p][b]
    PROVE  Consumed(b)' = Consumed(b) + rsvQty[o][b] /\ Consumed(b) \in Int
<1> DEFINE f == [p \in Orders |-> rsvQty[p][b]]
           S == {p \in Orders : rsvState[p][b] = "CONSUMED"}
           S2 == {p \in Orders : rsvState'[p][b] = "CONSUMED"}
<1>1. S2 = S \cup {o} /\ o \notin S /\ IsFiniteSet(S)
    BY OrdersAssumption, FS_Subset
<1>2. f[o] = rsvQty[o][b] /\ f[o] \in Int /\ \A p \in S : f[p] \in Int
    BY MaxStockAssumption DEF TypeInv, TypeOK
<1>3. Consumed(b) = Total(f, S) /\ Consumed(b)' = Total(f, S2)
    BY DEF Consumed
<1> HIDE DEF f, S, S2
<1>4. Total(f, S \cup {o}) = Total(f, S) + f[o] /\ Total(f, S) \in Int
    BY <1>1, <1>2, TotalJoins
<1> QED
    BY <1>1, <1>2, <1>3, <1>4

\* What the records add up to is a number.
LEMMA PartsInt ==
    ASSUME TypeInv, NEW b \in Buckets
    PROVE  /\ MovedIn(b) \in Int /\ MovedOut(b) \in Int /\ Corrected(b) \in Int
           /\ Consumed(b) \in Int /\ InitialStock[b] \in Int /\ onHand[b] \in Int
<1>1. ASSUME NEW U, IsFiniteSet(U), NEW f, \A x \in U : f[x] \in Int, NEW T, T \subseteq U
      PROVE  Total(f, T) \in Int
    BY <1>1, TotalInt
<1>2. \A m \in Moves : [n \in Moves |-> moves[n].quantity][m] \in Int
    BY DEF TypeInv, TypeOK, MoveRecord
<1>3. MovedIn(b) \in Int
    BY <1>1, <1>2, RecordsAssumption DEF MovedIn
<1>4. MovedOut(b) \in Int
    BY <1>1, <1>2, RecordsAssumption DEF MovedOut
<1>5. \A a \in Adjustments : [c \in Adjustments |-> adjustments[c].delta][a] \in Int
    BY DEF TypeInv, TypeOK, AdjustmentRecord
<1>6. Corrected(b) \in Int
    BY <1>1, <1>5, RecordsAssumption DEF Corrected
<1>7. \A o \in Orders : [p \in Orders |-> rsvQty[p][b]][o] \in Int
    BY MaxStockAssumption DEF TypeInv, TypeOK
<1>8. Consumed(b) \in Int
    BY <1>1, <1>7, OrdersAssumption DEF Consumed
<1>9. InitialStock[b] \in Int /\ onHand[b] \in Int
    BY InitialStockAssumption, MaxStockAssumption DEF TypeInv, TypeOK
<1> QED
    BY <1>3, <1>4, <1>6, <1>8, <1>9

\* A step that writes no stock and no record of it.
LEMMA ReconcileQuiet ==
    ASSUME TypeInv, StockReconciles, onHand' = onHand, moves' = moves, adjustments' = adjustments,
           \A b \in Buckets, o \in Orders :
              /\ rsvState'[o][b] = "CONSUMED" <=> rsvState[o][b] = "CONSUMED"
              /\ rsvState[o][b] = "CONSUMED" => rsvQty'[o][b] = rsvQty[o][b]
    PROVE  StockReconciles'
<1>1. \A b \in Buckets : Consumed(b)' = Consumed(b)
    BY ConsumedSame
<1> QED
    BY <1>1, MovesSame, AdjustmentsSame DEF StockReconciles

\* A confirmation takes off the shelf what it marks consumed.
LEMMA ReconcileConfirm ==
    ASSUME OrderInv, StockReconciles, NEW s \in Sessions, ConfirmCommit(s)
    PROVE  StockReconciles'
<1> DEFINE t == tx[s]
<1>1. PICK o \in Orders : o = t.ref
    BY DEF ConfirmCommit, OrderInv, TypeInv, TxInv, RefOK
<1>2. /\ onHand' = [b \in Buckets |-> IF b \in t.items THEN onHand[b] - rsvQty[o][b] ELSE onHand[b]]
      /\ rsvState' = [rsvState EXCEPT ![o] =
              [b \in Buckets |-> IF b \in t.items THEN "CONSUMED" ELSE rsvState[o][b]]]
      /\ rsvQty' = rsvQty /\ moves' = moves /\ adjustments' = adjustments
    BY <1>1 DEF ConfirmCommit
<1>3. t.items = ActiveItems(o) /\ TypeInv
    BY <1>1 DEF ConfirmCommit, OrderInv, SettlementInv, OrderTxOK
<1>4. /\ \A b \in Buckets : rsvState'[o][b] = IF b \in t.items THEN "CONSUMED" ELSE rsvState[o][b]
      /\ \A p \in Orders : p # o => rsvState'[p] = rsvState[p]
    BY <1>2, <1>3 DEF TypeInv, TypeOK
<1> SUFFICES ASSUME NEW b \in Buckets
             PROVE  onHand'[b] = InitialStock[b] + MovedIn(b)' - MovedOut(b)' + Corrected(b)' - Consumed(b)'
    BY DEF StockReconciles
<1>5. onHand[b] = InitialStock[b] + MovedIn(b) - MovedOut(b) + Corrected(b) - Consumed(b)
    BY DEF StockReconciles
<1>6. MovedIn(b)' = MovedIn(b) /\ MovedOut(b)' = MovedOut(b) /\ Corrected(b)' = Corrected(b)
    BY <1>2, MovesSame, AdjustmentsSame
<1>7. CASE b \in t.items
    <2>1. rsvState[o][b] # "CONSUMED" /\ rsvState'[o][b] = "CONSUMED"
        BY <1>3, <1>4, <1>7 DEF ActiveItems
    <2>2. Consumed(b)' = Consumed(b) + rsvQty[o][b]
        BY <1>2, <1>3, <1>4, <2>1, ConsumedGrows
    <2>3. onHand'[b] = onHand[b] - rsvQty[o][b] /\ rsvQty[o][b] \in Int
        BY <1>2, <1>3, <1>7, MaxStockAssumption DEF TypeInv, TypeOK
    <2> QED
        BY <1>3, <1>5, <1>6, <2>2, <2>3, PartsInt
<1>8. CASE b \notin t.items
    <2>1. \A p \in Orders : rsvState'[p][b] = rsvState[p][b]
        BY <1>4, <1>8
    <2>2. Consumed(b)' = Consumed(b)
        BY <1>2, <1>3, <2>1, ConsumedSame
    <2>3. onHand'[b] = onHand[b]
        BY <1>2, <1>8
    <2> QED
        BY <1>5, <1>6, <2>2, <2>3
<1> QED
    BY <1>7, <1>8

\* A receipt or a transfer moves what it records.
LEMMA ReconcileMove ==
    ASSUME OrderInv, ReceiptShape, StockReconciles, NEW s \in Sessions,
           ReceiveCommit(s) \/ TransferCommit(s)
    PROVE  StockReconciles'
<1> DEFINE mv == tx[s].move
<1>1. /\ TypeInv /\ tx[s].ref \in Moves /\ mv \in MoveRecord /\ mv.to \in Buckets
      /\ mv.quantity \in Int
    BY DEF ReceiveCommit, TransferCommit, OrderInv, TypeInv, TxInv, RefOK, TxRecord, MoveRecord
<1>2. /\ moves[tx[s].ref] = NoMove /\ moves' = [moves EXCEPT ![tx[s].ref] = mv]
      /\ rsvState' = rsvState /\ rsvQty' = rsvQty /\ adjustments' = adjustments
    BY DEF ReceiveCommit, TransferCommit, MoveUnused, reservations
<1>3. onHand \in [Buckets -> 0 .. MaxStock]
    BY <1>1 DEF TypeInv, TypeOK
<1>4. \A b \in Buckets : onHand'[b] = onHand[b] + (IF mv.to = b THEN mv.quantity ELSE 0)
                                                - (IF mv.from = b THEN mv.quantity ELSE 0)
    <2>1. CASE ReceiveCommit(s)
        <3>1. mv.from = 0 /\ onHand' = [onHand EXCEPT ![mv.to] = @ + mv.quantity]
            BY <2>1 DEF ReceiveCommit, ReceiptShape
        <3>2. \A b \in Buckets : mv.from # b
            BY <3>1, NumBucketsAssumption DEF Buckets
        <3>3. \A b \in Buckets : onHand[b] \in Int
            BY <1>3, MaxStockAssumption
        <3> QED
            BY <1>1, <1>3, <3>1, <3>2, <3>3
    <2>2. CASE TransferCommit(s)
        <3>1. /\ mv.from # mv.to /\ mv.from \in Buckets
              /\ onHand' = [onHand EXCEPT ![mv.from] = @ - mv.quantity, ![mv.to] = @ + mv.quantity]
            BY <2>2 DEF TransferCommit, OrderInv, TypeInv, TxInv, RefOK
        <3>2. \A b \in Buckets : onHand[b] \in Int
            BY <1>3, MaxStockAssumption
        <3> QED
            BY <1>1, <1>3, <3>1, <3>2
    <2> QED
        BY <2>1, <2>2
<1> HIDE DEF mv
<1> SUFFICES ASSUME NEW b \in Buckets
             PROVE  onHand'[b] = InitialStock[b] + MovedIn(b)' - MovedOut(b)' + Corrected(b)' - Consumed(b)'
    BY DEF StockReconciles
<1>5. onHand[b] = InitialStock[b] + MovedIn(b) - MovedOut(b) + Corrected(b) - Consumed(b)
    BY DEF StockReconciles
<1>6. Corrected(b)' = Corrected(b) /\ Consumed(b)' = Consumed(b)
    BY <1>1, <1>2, AdjustmentsSame, ConsumedSame
<1>7. /\ MovedIn(b)' = MovedIn(b) + (IF mv.to = b THEN mv.quantity ELSE 0)
      /\ MovedOut(b)' = MovedOut(b) + (IF mv.from = b THEN mv.quantity ELSE 0)
    BY <1>1, <1>2, MoveRecorded
<1> QED
    BY <1>1, <1>4, <1>5, <1>6, <1>7, PartsInt

\* A decision closes a pending adjustment; only an applied one moves stock.
LEMMA ReconcileDecide ==
    ASSUME OrderInv, StockReconciles, NEW s \in Sessions,
           DecideExpired(s) \/ DecideReject(s) \/ DecideApply(s)
    PROVE  StockReconciles'
<1> DEFINE a == tx[s].ref
           old == adjustments[a]
           adj(status) == Adjustment(status, old.item, old.delta, old.expectedVersion,
                                     old.onHandBefore, old.expiresAt)
<1>1. TypeInv /\ a \in Adjustments /\ old.status = "PENDING_APPROVAL" /\ old \in AdjustmentRecord
    BY DEF DecideExpired, DecideReject, DecideApply, Pending, OrderInv, TypeInv, TypeOK, TxInv, RefOK
<1>2. old.delta \in Int /\ old.item \in Buckets
    BY <1>1 DEF AdjustmentRecord, TypeInv, AdjustmentShape
<1>3. rsvState' = rsvState /\ rsvQty' = rsvQty /\ moves' = moves
    BY DEF DecideExpired, DecideReject, DecideApply, reservations
<1>4. \A status \in {"EXPIRED", "REJECTED", "APPLIED"} :
         /\ adj(status) \in AdjustmentRecord /\ adj(status).status = status
         /\ adj(status).item = old.item /\ adj(status).delta = old.delta
    BY <1>1 DEF Adjustment, AdjustmentRecord
<1>5. \/ \E status \in {"EXPIRED", "REJECTED"} :
            onHand' = onHand /\ adjustments' = [adjustments EXCEPT ![a] = adj(status)]
      \/ /\ onHand' = [onHand EXCEPT ![old.item] = onHand[old.item] + old.delta]
         /\ adjustments' = [adjustments EXCEPT ![a] = adj("APPLIED")]
    BY DEF DecideExpired, DecideReject, DecideApply, CloseAdjustment, stock
<1> HIDE DEF adj, old
<1> SUFFICES ASSUME NEW b \in Buckets
             PROVE  onHand'[b] = InitialStock[b] + MovedIn(b)' - MovedOut(b)' + Corrected(b)' - Consumed(b)'
    BY DEF StockReconciles
<1>6. onHand[b] = InitialStock[b] + MovedIn(b) - MovedOut(b) + Corrected(b) - Consumed(b)
    BY DEF StockReconciles
<1>7. MovedIn(b)' = MovedIn(b) /\ MovedOut(b)' = MovedOut(b) /\ Consumed(b)' = Consumed(b)
    BY <1>1, <1>3, MovesSame, ConsumedSame
<1>8. old.status # "APPLIED" /\ adjustments[a].status # "APPLIED"
    BY <1>1 DEF old
<1>9. ASSUME NEW status \in {"EXPIRED", "REJECTED"}, onHand' = onHand,
             adjustments' = [adjustments EXCEPT ![a] = adj(status)]
      PROVE  onHand'[b] = InitialStock[b] + MovedIn(b)' - MovedOut(b)' + Corrected(b)' - Consumed(b)'
    <2> DEFINE new == adj(status)
    <2>1. new \in AdjustmentRecord /\ new.status # "APPLIED" /\ adjustments' = [adjustments EXCEPT ![a] = new]
        BY <1>4, <1>9
    <2> HIDE DEF new
    <2>2. Corrected(b)' = Corrected(b) + 0
        BY <1>1, <1>8, <2>1, AdjustmentWritten
    <2> QED
        BY <1>1, <1>6, <1>7, <1>9, <2>2, PartsInt
<1>10. ASSUME onHand' = [onHand EXCEPT ![old.item] = onHand[old.item] + old.delta],
              adjustments' = [adjustments EXCEPT ![a] = adj("APPLIED")]
      PROVE  onHand'[b] = InitialStock[b] + MovedIn(b)' - MovedOut(b)' + Corrected(b)' - Consumed(b)'
    <2> DEFINE new == adj("APPLIED")
    <2>1. /\ new \in AdjustmentRecord /\ new.status = "APPLIED" /\ new.item = old.item
          /\ new.delta = old.delta /\ adjustments' = [adjustments EXCEPT ![a] = new]
        BY <1>4, <1>10
    <2> HIDE DEF new
    <2>2. Corrected(b)' = Corrected(b) + (IF old.item = b THEN old.delta ELSE 0)
        BY <1>1, <1>8, <2>1, AdjustmentWritten
    <2>3. onHand'[b] = onHand[b] + (IF old.item = b THEN old.delta ELSE 0)
        BY <1>1, <1>2, <1>10, PartsInt DEF TypeInv, TypeOK
    <2> QED
        BY <1>1, <1>2, <1>6, <1>7, <2>2, <2>3, PartsInt
<1> QED
    BY <1>5, <1>9, <1>10

\* A request for a correction moves no stock.
LEMMA ReconcileRequest ==
    ASSUME TypeInv, TypeInv', StockReconciles, NEW a \in Adjustments, NEW c, NEW d,
           RequestAdjustment(a, c, d)
    PROVE  StockReconciles'
<1>1. PICK adj : adj.status = "PENDING_APPROVAL" /\ adjustments' = [adjustments EXCEPT ![a] = adj]
    BY DEF RequestAdjustment, Adjustment
<1>2. adj \in AdjustmentRecord
    <2>1. adjustments'[a] = adj
        BY <1>1 DEF TypeInv, TypeOK
    <2> QED
        BY <2>1 DEF TypeInv, TypeOK
<1>3. /\ adjustments[a].status # "APPLIED" /\ onHand' = onHand /\ moves' = moves
      /\ rsvState' = rsvState /\ rsvQty' = rsvQty
    BY DEF RequestAdjustment, stock, reservations
<1> SUFFICES ASSUME NEW b \in Buckets
             PROVE  onHand'[b] = InitialStock[b] + MovedIn(b)' - MovedOut(b)' + Corrected(b)' - Consumed(b)'
    BY DEF StockReconciles
<1>4. Corrected(b)' = Corrected(b) + 0
    BY <1>1, <1>2, <1>3, AdjustmentWritten
<1>5. MovedIn(b)' = MovedIn(b) /\ MovedOut(b)' = MovedOut(b) /\ Consumed(b)' = Consumed(b)
    BY <1>3, MovesSame, ConsumedSame
<1> QED
    BY <1>3, <1>4, <1>5, PartsInt DEF StockReconciles

\* Orders that are placed or released, and the sweep, consume nothing.
LEMMA ReconcileOrders ==
    ASSUME OrderInv, StockReconciles,
           \/ \E s \in Sessions, o \in Orders : CheckoutCommit(s, o)
           \/ \E s \in Sessions : ReleaseCommit(s)
           \/ \E cutoff \in 0 .. clock : ExpireReservations(cutoff)
    PROVE  StockReconciles'
<1>1. TypeInv /\ onHand' = onHand /\ moves' = moves /\ adjustments' = adjustments
    BY DEF CheckoutCommit, ReleaseCommit, ExpireReservations, OrderInv
<1>2. ASSUME NEW s \in Sessions, NEW o \in Orders, CheckoutCommit(s, o) PROVE StockReconciles'
    <2>1. \A b \in Buckets : rsvState[o][b] = "NONE"
        BY <1>2 DEF CheckoutCommit, OrderInv, SettlementInv, Settled
    <2>2. \A b \in Buckets : rsvState'[o][b] \in {"ACTIVE", "NONE"}
        BY <1>1, <1>2 DEF CheckoutCommit, TypeInv, TypeOK
    <2>3. \A p \in Orders : p # o => rsvState'[p] = rsvState[p] /\ rsvQty'[p] = rsvQty[p]
        BY <1>1, <1>2 DEF CheckoutCommit, TypeInv, TypeOK
    <2> QED
        BY <1>1, <2>1, <2>2, <2>3, ReconcileQuiet
<1>3. ASSUME NEW s \in Sessions, ReleaseCommit(s) PROVE StockReconciles'
    <2>1. PICK o \in Orders : o = tx[s].ref
        BY <1>3 DEF ReleaseCommit, OrderInv, TypeInv, TxInv, RefOK
    <2>2. tx[s].items = ActiveItems(o) /\ rsvQty' = rsvQty
        BY <1>3, <2>1 DEF ReleaseCommit, OrderInv, SettlementInv, OrderTxOK
    <2>3. rsvState' = [rsvState EXCEPT ![o] =
              [b \in Buckets |-> IF b \in tx[s].items THEN "RELEASED" ELSE rsvState[o][b]]]
        BY <1>3, <2>1 DEF ReleaseCommit
    <2>4. /\ \A b \in Buckets : rsvState'[o][b] = IF b \in tx[s].items THEN "RELEASED" ELSE rsvState[o][b]
          /\ \A p \in Orders : p # o => rsvState'[p] = rsvState[p]
        BY <1>1, <2>3 DEF TypeInv, TypeOK
    <2>5. \A b \in Buckets, p \in Orders : rsvState'[p][b] = "CONSUMED" <=> rsvState[p][b] = "CONSUMED"
        BY <2>2, <2>4 DEF ActiveItems
    <2> QED
        BY <1>1, <2>2, <2>5, ReconcileQuiet
<1>4. ASSUME NEW cutoff \in 0 .. clock, ExpireReservations(cutoff) PROVE StockReconciles'
    <2>1. PICK S \in SweepBatches(cutoff) :
             rsvState' = [p \in Orders |-> [c \in Buckets |->
                IF <<p, c>> \in S THEN "EXPIRED" ELSE rsvState[p][c]]]
        BY <1>4 DEF ExpireReservations
    <2>2. \A p \in Orders, b \in Buckets : <<p, b>> \in S => rsvState[p][b] = "ACTIVE"
        BY DEF SweepBatches, Overdue
    <2>3. \A b \in Buckets, p \in Orders : rsvState'[p][b] = "CONSUMED" <=> rsvState[p][b] = "CONSUMED"
        BY <2>1, <2>2
    <2>4. rsvQty' = rsvQty
        BY <1>4 DEF ExpireReservations
    <2> QED
        BY <1>1, <2>3, <2>4, ReconcileQuiet
<1> QED
    BY <1>2, <1>3, <1>4

\* Every step keeps stock and records in line.
LEMMA ReconcileStep ==
    ASSUME OrderInv, TypeInv', ReceiptShape, StockReconciles, [Next]_vars PROVE StockReconciles'
<1>1. TypeInv
    BY DEF OrderInv
<1>2. ASSUME onHand' = onHand, moves' = moves, adjustments' = adjustments, rsvState' = rsvState,
             rsvQty' = rsvQty
      PROVE  StockReconciles'
    BY <1>1, <1>2, ReconcileQuiet
<1>3. CustomerStep => StockReconciles'
    BY <1>2, ReconcileOrders
    DEF CustomerStep, EditCart, CheckoutBegin, CheckoutLock, CancelBegin, CancelLock,
        LockActiveInventory, stock, reservations
<1>4. AdminStep => StockReconciles'
    BY <1>2, ReconcileOrders, ReconcileConfirm
    DEF AdminStep, ConfirmBegin, TerminateBegin, LockOrderThenRead, ConfirmLock, TerminateLock,
        LockActiveInventory, Prepare, ReadyForPickup, Transition, stock, reservations
<1>5. StockStep => StockReconciles'
    <2>1. ASSUME NEW s, NEW m, NEW mv, NEW kind, ReplayLookup(s, m, mv, kind) PROVE StockReconciles'
        BY <1>2, <2>1 DEF ReplayLookup, stock, reservations
    <2>2. ASSUME NEW s, NEW a, NEW d, DecideBegin(s, a, d) PROVE StockReconciles'
        BY <1>2, <2>2 DEF DecideBegin, stock, reservations
    <2> QED
        BY <1>1, <2>1, <2>2, ReconcileMove, ReconcileRequest, ReconcileDecide
        DEF StockStep, ReceiveBegin, TransferBegin
<1>6. Sweep => StockReconciles'
    BY ReconcileOrders DEF Sweep
<1>7. ASSUME NEW s, Rollback(s) PROVE StockReconciles'
    BY <1>2, <1>7 DEF Rollback, stock, reservations
<1>8. CASE Tick \/ UNCHANGED vars
    BY <1>2, <1>8 DEF Tick, vars, stock, reservations
<1> QED
    BY <1>3, <1>4, <1>5, <1>6, <1>7, <1>8 DEF Next

\* A receipt keeps having no source.
LEMMA ReceiptStep ==
    ASSUME TypeInv, ReceiptShape, [Next]_vars PROVE ReceiptShape'
<1>1. ASSUME NEW s \in Sessions, NEW t, tx' = [tx EXCEPT ![s] = t],
             t.kind = "receive" => t.move.from = 0
      PROVE  ReceiptShape'
    BY <1>1 DEF ReceiptShape, TypeInv, TypeOK
<1>2. tx' = tx => ReceiptShape'
    BY DEF ReceiptShape
<1>3. ASSUME NEW s \in Sessions, tx' = [tx EXCEPT ![s] = Idle] PROVE ReceiptShape'
    BY <1>1, <1>3, IdleFields
<1>4. ASSUME NEW s \in Sessions, NEW kind, NEW pc, NEW now, NEW ref, NEW items, NEW take, NEW view,
             NEW move, kind = "receive" => move.from = 0,
             tx' = [tx EXCEPT ![s] = Tx(kind, pc, now, ref, items, take, move, view)]
      PROVE  ReceiptShape'
    <2> DEFINE t == Tx(kind, pc, now, ref, items, take, move, view)
    <2>1. t.kind = kind /\ t.move = move /\ tx' = [tx EXCEPT ![s] = t]
        BY <1>4, TxFields
    <2> HIDE DEF t
    <2> QED
        BY <1>1, <1>4, <2>1
<1>5. CustomerStep => ReceiptShape'
    <2>1. ASSUME NEW s \in Sessions, NEW k, NEW r, CheckoutBegin(s, k, r) PROVE ReceiptShape'
        <3>1. PICK now : tx' = [tx EXCEPT ![s] =
                   Tx("checkout", "begun", now, k, Candidates(r), NoTake, NoMove, NoView)]
            BY <2>1 DEF CheckoutBegin
        <3> DEFINE t == Tx("checkout", "begun", now, k, Candidates(r), NoTake, NoMove, NoView)
        <3>2. t.kind = "checkout" /\ tx' = [tx EXCEPT ![s] = t]
            BY <3>1, TxFields
        <3> HIDE DEF t
        <3> QED
            BY <1>1, <3>2
    <2>2. ASSUME NEW s \in Sessions, CheckoutLock(s) PROVE ReceiptShape'
        <3>1. PICK take : tx' = [tx EXCEPT ![s] =
                Tx("checkout", "locked", tx[s].now, tx[s].ref, tx[s].items, take, NoMove, NoView)]
            BY <2>2 DEF CheckoutLock
        <3> DEFINE t == Tx("checkout", "locked", tx[s].now, tx[s].ref, tx[s].items, take, NoMove, NoView)
        <3>2. t.kind = "checkout" /\ tx' = [tx EXCEPT ![s] = t]
            BY <3>1, TxFields
        <3> HIDE DEF t
        <3> QED
            BY <1>1, <3>2
    <2>3. ASSUME NEW s \in Sessions, NEW o, CancelBegin(s, o) PROVE ReceiptShape'
        <3> DEFINE t == Tx("cancel", "begun", 0, o, {}, NoTake, NoMove, View(orders[o], onHand, version))
        <3>1. t.kind = "cancel"
            BY TxFields
        <3>2. tx' = [tx EXCEPT ![s] = t]
            BY <2>3 DEF CancelBegin
        <3> HIDE DEF t
        <3> QED
            BY <1>1, <3>1, <3>2
    <2>4. ASSUME NEW s \in Sessions, CancelLock(s) PROVE ReceiptShape'
        BY <1>4, <2>4 DEF CancelLock, LockActiveInventory
    <2>5. ASSUME NEW s \in Sessions, NEW o, CheckoutCommit(s, o) PROVE ReceiptShape'
        BY <1>3, <2>5 DEF CheckoutCommit
    <2> QED
        BY <1>2, <2>1, <2>2, <2>3, <2>4, <2>5 DEF CustomerStep, EditCart
<1>6. AdminStep => ReceiptShape'
    <2>1. ASSUME NEW s \in Sessions, NEW o, ConfirmBegin(s, o) \/ TerminateBegin(s, o) PROVE ReceiptShape'
        BY <1>4, <2>1 DEF ConfirmBegin, TerminateBegin, LockOrderThenRead
    <2>2. ASSUME NEW s \in Sessions, ConfirmLock(s) \/ TerminateLock(s) PROVE ReceiptShape'
        BY <1>4, <2>2 DEF ConfirmLock, TerminateLock, LockActiveInventory
    <2>3. ASSUME NEW s \in Sessions, ConfirmCommit(s) \/ ReleaseCommit(s) PROVE ReceiptShape'
        BY <1>3, <2>3 DEF ConfirmCommit, ReleaseCommit
    <2> QED
        BY <1>2, <2>1, <2>2, <2>3 DEF AdminStep, Prepare, ReadyForPickup, Transition
<1>7. StockStep => ReceiptShape'
    <2>1. ASSUME NEW s \in Sessions, NEW m, NEW b, NEW q, ReceiveBegin(s, m, b, q) PROVE ReceiptShape'
        <3> DEFINE mv == [from |-> 0, to |-> b, quantity |-> q]
                   t == Tx("receive", "begun", 0, m, {}, NoTake, mv, NoView)
        <3>1. t.move = mv /\ mv.from = 0
            BY TxFields
        <3>2. tx' = [tx EXCEPT ![s] = t]
            BY <2>1 DEF ReceiveBegin, ReplayLookup
        <3> HIDE DEF t, mv
        <3> QED
            BY <1>1, <3>1, <3>2
    <2>2. ASSUME NEW s \in Sessions, NEW m, NEW from, NEW to, NEW q, TransferBegin(s, m, from, to, q)
          PROVE  ReceiptShape'
        <3> DEFINE t == Tx("transfer", "begun", 0, m, {}, NoTake,
                           [from |-> from, to |-> to, quantity |-> q], NoView)
        <3>1. t.kind = "transfer"
            BY TxFields
        <3>2. tx' = [tx EXCEPT ![s] = t]
            BY <2>2 DEF TransferBegin, ReplayLookup
        <3> HIDE DEF t
        <3> QED
            BY <1>1, <3>1, <3>2
    <2>3. ASSUME NEW s \in Sessions, NEW a, NEW d \in {"approve", "reject"}, DecideBegin(s, a, d)
          PROVE  ReceiptShape'
        BY <1>4, <2>3 DEF DecideBegin
    <2>4. ASSUME NEW s \in Sessions,
                 \/ ReceiveCommit(s) \/ TransferCommit(s)
                 \/ DecideExpired(s) \/ DecideReject(s) \/ DecideApply(s)
          PROVE  ReceiptShape'
        BY <1>3, <2>4
        DEF ReceiveCommit, TransferCommit, DecideExpired, DecideReject, DecideApply, CloseAdjustment
    <2> QED
        BY <1>2, <2>1, <2>2, <2>3, <2>4 DEF StockStep, RequestAdjustment
<1>8. ASSUME NEW s \in Sessions, Rollback(s) PROVE ReceiptShape'
    BY <1>3, <1>8 DEF Rollback
<1> QED
    BY <1>2, <1>5, <1>6, <1>7, <1>8 DEF Next, Sweep, ExpireReservations, Tick, vars

\* Whatever is retried, doubled or interleaved, physical stock is what the
\* records of receipts, transfers, corrections and consumptions add up to.
THEOREM StockAlwaysReconciles ==
    Spec => []StockReconciles
<1>1. Init => ReconcileInv
    <2> SUFFICES ASSUME Init PROVE ReconcileInv
        OBVIOUS
    <2>1. OrderInv
        BY TypeInit, SubmissionInit, SettlementInit DEF OrderInv
    <2>2. ReceiptShape
        BY IdleFields DEF Init, ReceiptShape
    <2>3. ASSUME NEW b \in Buckets
          PROVE  MovedIn(b) = 0 /\ MovedOut(b) = 0 /\ Corrected(b) = 0 /\ Consumed(b) = 0
        <3>1. {m \in Moves : moves[m].to = b} = {} /\ {m \in Moves : moves[m].from = b} = {}
            BY NumBucketsAssumption DEF Init, NoMove, Buckets
        <3>2. {a \in Adjustments : adjustments[a].status = "APPLIED" /\ adjustments[a].item = b} = {}
            BY DEF Init, NoAdjustment, Adjustment
        <3>3. {o \in Orders : rsvState[o][b] = "CONSUMED"} = {}
            BY DEF Init
        <3> QED
            BY <3>1, <3>2, <3>3, TotalEmpty DEF MovedIn, MovedOut, Corrected, Consumed
    <2>4. StockReconciles
        BY <2>1, <2>3, PartsInt DEF Init, StockReconciles, OrderInv
    <2> QED
        BY <2>1, <2>2, <2>4 DEF ReconcileInv
<1>2. ReconcileInv /\ [Next]_vars => ReconcileInv'
    <2> SUFFICES ASSUME ReconcileInv, [Next]_vars PROVE ReconcileInv'
        OBVIOUS
    <2>1. OrderInv'
        BY TypeStep, SubmissionStep, SettlementStep DEF OrderInv, ReconcileInv
    <2>2. ReceiptShape' /\ StockReconciles'
        BY <2>1, ReceiptStep, ReconcileStep DEF OrderInv, ReconcileInv
    <2> QED
        BY <2>1, <2>2 DEF ReconcileInv
<1>3. ReconcileInv => StockReconciles
    BY DEF ReconcileInv
<1> QED
    BY <1>1, <1>2, <1>3, PTL DEF Spec

-----------------------------------------------------------------------------
(* Reserved units and sums *)

\* The operator of the abstract module is the one the lemmas are about.
LEMMA SameTotal ==
    ASSUME NEW f, NEW S PROVE Promise!Total(f, S) = Total(f, S)
BY DEF Promise!Total, Promise!MapThenSumSet, Promise!MapThenFoldSet,
       Total, MapThenSumSet, MapThenFoldSet

\* Units counted one by one are the sum of the quantities.
LEMMA UnitsTotal ==
    ASSUME NEW S, IsFiniteSet(S), NEW q, \A o \in S : q[o] \in Nat
    PROVE  Cardinality(UNION {{o} \X (1 .. q[o]) : o \in S}) = Total(q, S)
<1> DEFINE U(o) == {o} \X (1 .. q[o])
           All(T) == UNION {U(o) : o \in T}
           Good == {T \in SUBSET S : IsFiniteSet(All(T)) /\ Cardinality(All(T)) = Total(q, T)}
<1>1. \A o \in S : IsFiniteSet(U(o)) /\ Cardinality(U(o)) = q[o]
    BY CountUnits
<1>2. ASSUME NEW T \in SUBSET S, \A x \in T : T \ {x} \in Good PROVE T \in Good
    <2>1. CASE T = {}
        <3>1. All(T) = {}
            BY <2>1
        <3> QED
            BY <2>1, <3>1, FS_EmptySet, TotalEmpty
    <2>2. CASE T # {}
        <3>1. PICK x \in T : TRUE
            BY <2>2
        <3> DEFINE R == T \ {x}
        <3>2. IsFiniteSet(All(R)) /\ Cardinality(All(R)) = Total(q, R)
            BY <1>2
        <3>3. All(T) = All(R) \cup U(x)
            OBVIOUS
        <3>4. All(R) \cap U(x) = {}
            OBVIOUS
        <3>5. IsFiniteSet(U(x)) /\ Cardinality(U(x)) = q[x] /\ q[x] \in Nat
            BY <1>1
        <3>6. Total(q, T) = q[x] + Total(q, R)
            BY TotalSplits
        <3>7. Cardinality(All(R)) \in Nat
            BY <3>2, FS_CardinalityType
        <3> HIDE DEF U, All, R
        <3>8. /\ IsFiniteSet(All(R) \cup U(x))
              /\ Cardinality(All(R) \cup U(x)) =
                    Cardinality(All(R)) + Cardinality(U(x)) - Cardinality(All(R) \cap U(x))
            BY <3>2, <3>5, FS_Union
        <3>9. Cardinality(All(T)) = Total(q, T)
            BY <3>2, <3>3, <3>4, <3>5, <3>6, <3>7, <3>8, FS_EmptySet
        <3> QED
            BY <3>3, <3>8, <3>9
    <2> QED
        BY <2>1, <2>2
<1> HIDE DEF Good
<1>3. \A T \in SUBSET S : (\A x \in T : T \ {x} \in Good) => T \in Good
    BY <1>2
<1>4. \A T \in SUBSET S : T \in Good
    BY ONLY IsFiniteSet(S), <1>3, SubsetInduction
<1>5. S \in Good
    BY <1>4
<1> QED
    BY <1>5 DEF Good

-----------------------------------------------------------------------------
(* Free stock *)

\* A variant lies in finitely many buckets.
LEMMA BucketsFinite ==
    ASSUME NEW v PROVE BucketsOf(v) \subseteq Buckets /\ IsFiniteSet(BucketsOf(v))
<1>1. IsFiniteSet(Buckets)
    BY NumBucketsAssumption, FS_Interval DEF Buckets
<1>2. BucketsOf(v) \subseteq Buckets
    BY DEF BucketsOf
<1> QED
    BY <1>1, <1>2, FS_Subset

\* What is reserved of an item, order by order.
LEMMA ReservedByOrder ==
    ASSUME TypeInv, NEW b \in Buckets, NEW w,
           \A o \in Orders : w[o] = IF Live(o, b, clock) THEN rsvQty[o][b] ELSE 0
    PROVE  Reserved(b, clock) = Total(w, Orders)
<1> DEFINE L == {o \in Orders : Live(o, b, clock)}
           q == [o \in Orders |-> rsvQty[o][b]]
<1>1. \A o \in Orders : q[o] \in Nat
    BY MaxStockAssumption DEF TypeInv, TypeOK
<1>2. L \in SUBSET Orders /\ IsFiniteSet(L)
    BY OrdersAssumption, FS_Subset
<1>3. Reserved(b, clock) = Cardinality(UNION {{o} \X (1 .. q[o]) : o \in L})
    <2>1. {Units(o, b) : o \in L} = {{o} \X (1 .. q[o]) : o \in L}
        BY DEF Units
    <2> QED
        BY <2>1 DEF Reserved, ReservedUnits
<1>4. (\A o \in L : q[o] \in Int /\ w[o] = q[o]) /\ (\A o \in Orders \ L : w[o] = 0)
    BY <1>1
<1> HIDE DEF L, q
<1>5. Reserved(b, clock) = Total(q, L)
    BY <1>1, <1>2, <1>3, UnitsTotal
<1>6. Total(q, L) = Total(w, Orders)
    BY <1>2, <1>4, OrdersAssumption, TotalMasks
<1> QED
    BY <1>5, <1>6

\* What is reserved for an order of a variant is what it is promised while it
\* is held, and nothing otherwise.
LEMMA ReservedByVariant ==
    ASSUME TypeInv, SettlementInv, PromiseInv, NEW o \in Orders, NEW v \in Variants, NEW w,
           \A b \in BucketsOf(v) : w[b] = IF Live(o, b, clock) THEN rsvQty[o][b] ELSE 0
    PROVE  Total(w, BucketsOf(v)) = IF PhaseOf(o) = "held" THEN PromisedLines[o][v] ELSE 0
<1>1. BucketsOf(v) \subseteq Buckets /\ IsFiniteSet(BucketsOf(v))
    BY BucketsFinite
<1>2. \A b \in BucketsOf(v) : rsvQty[o][b] \in Nat /\ w[b] \in Nat
    BY <1>1, MaxStockAssumption DEF TypeInv, TypeOK
<1>3. Settled(o) /\ HeldInFull(o)
    BY DEF SettlementInv, PromiseInv
<1>4. CASE PhaseOf(o) = "held"
    <2>1. orders[o].status = "PENDING_CONFIRMATION" /\ expiresAt[o] > clock
        BY <1>4 DEF PhaseOf
    <2> DEFINE R == {b \in BucketsOf(v) : rsvState[o][b] = "ACTIVE"}
    <2>2. Total(rsvQty[o], R) = orders[o].request.lines[v]
        BY <1>3, <2>1 DEF HeldInFull, Covered
    <2>3. /\ R \in SUBSET BucketsOf(v) /\ \A b \in R : rsvQty[o][b] \in Int /\ w[b] = rsvQty[o][b]
          /\ \A b \in BucketsOf(v) \ R : w[b] = 0
        BY <1>2, <2>1 DEF Live
    <2>4. PromisedLines[o][v] = orders[o].request.lines[v]
        BY <2>1 DEF PromisedLines
    <2> HIDE DEF R
    <2>5. Total(rsvQty[o], R) = Total(w, BucketsOf(v))
        BY <1>1, <2>3, TotalMasks
    <2> QED
        BY <1>4, <2>2, <2>4, <2>5
<1>5. CASE PhaseOf(o) # "held"
    <2>1. \A b \in BucketsOf(v) : ~Live(o, b, clock)
        <3>1. CASE orders[o].status = "NONE"
            BY <1>1, <1>3, <3>1 DEF Settled, Live
        <3>2. CASE orders[o].status = "PENDING_CONFIRMATION"
            BY <1>5, <3>2 DEF PhaseOf, Live
        <3>3. CASE orders[o].status \in {"CONFIRMED", "PREPARING", "READY_FOR_PICKUP", "CANCELLED"}
            BY <1>1, <1>3, <3>3 DEF Settled, ActiveItems, Live
        <3> QED
            BY <3>1, <3>2, <3>3 DEF TypeInv, TypeOK, OrderRecord, OrderStatus
    <2>2. \A b \in BucketsOf(v) : w[b] = 0
        BY <2>1
    <2> QED
        BY <1>1, <1>2, <1>5, <2>2, TotalNat
<1> QED
    BY <1>4, <1>5

\* Free stock is what is on the shelf less what is promised.
LEMMA FreeBalance ==
    StockInv /\ SettlementInv /\ PromiseInv => Balance
<1> SUFFICES ASSUME TypeInv, NoOversell, SettlementInv, PromiseInv PROVE Balance
    BY DEF StockInv
<1> DEFINE Due(v) == Total([o \in Orders |-> Owed(o, v)], Orders)
<1>0. PromisedLines \in [Orders -> [Variants -> Nat]]
    <2> SUFFICES ASSUME NEW o \in Orders PROVE PromisedLines[o] \in [Variants -> Nat]
        BY DEF PromisedLines
    <2>1. orders[o].status # "NONE" => orders[o].request.lines \in [Variants -> Nat]
        BY RequestsAssumption DEF PromiseInv, HeldInFull
    <2> QED
        BY <2>1 DEF PromisedLines
<1>1. SUFFICES ASSUME NEW v \in Variants
               PROVE  Shelf(v) \in Nat /\ FreeStock[v] \in Nat /\ FreeStock[v] = Shelf(v) - Due(v)
    BY <1>0 DEF Balance, FreeStock
<1> DEFINE B == BucketsOf(v)
           spare == [b \in Buckets |-> onHand[b] - Reserved(b, clock)]
           held == [b \in B |-> Reserved(b, clock)]
           w == [o \in Orders |-> [b \in B |-> IF Live(o, b, clock) THEN rsvQty[o][b] ELSE 0]]
           owed == [o \in Orders |-> Owed(o, v)]
<1>2. B \subseteq Buckets /\ IsFiniteSet(B)
    BY BucketsFinite
<1>3. \A b \in B : /\ onHand[b] \in Nat /\ Reserved(b, clock) \in Nat
                   /\ spare[b] = onHand[b] - Reserved(b, clock) /\ held[b] = Reserved(b, clock)
                   /\ Reserved(b, clock) <= onHand[b]
    BY <1>2, ReservedNat, MaxStockAssumption DEF TypeInv, TypeOK, NoOversell
<1>4. FreeStock[v] = Total(spare, B) /\ Shelf(v) = Total(onHand, B) /\ Due(v) = Total(owed, Orders)
    BY DEF FreeStock, Shelf
<1>5. \A b \in B : held[b] = Total([o \in Orders |-> w[o][b]], Orders)
    <2> TAKE b \in B
    <2> DEFINE wb == [o \in Orders |-> w[o][b]]
    <2>1. \A o \in Orders : wb[o] = IF Live(o, b, clock) THEN rsvQty[o][b] ELSE 0
        OBVIOUS
    <2>2. b \in Buckets
        BY <1>2
    <2> HIDE DEF wb
    <2>3. Reserved(b, clock) = Total(wb, Orders)
        BY <2>1, <2>2, ReservedByOrder
    <2> QED
        BY <2>3 DEF wb
<1>6. \A o \in Orders : Total(w[o], B) = owed[o]
    <2> TAKE o \in Orders
    <2> DEFINE wo == w[o]
    <2>1. \A b \in B : wo[b] = IF Live(o, b, clock) THEN rsvQty[o][b] ELSE 0
        OBVIOUS
    <2> HIDE DEF wo
    <2>2. Total(wo, B) = Owed(o, v)
        BY <2>1, ReservedByVariant DEF Owed
    <2> QED
        BY <2>2 DEF wo
<1>7. \A o \in Orders, b \in B : w[o][b] \in Int
    BY <1>2, MaxStockAssumption DEF TypeInv, TypeOK
<1> DEFINE rows == [o \in Orders |-> Total(w[o], B)]
           cols == [b \in B |-> Total([o \in Orders |-> w[o][b]], Orders)]
<1>8. Total(rows, Orders) = Total(cols, B)
    <2> HIDE DEF w
    <2> QED
        BY <1>2, <1>7, OrdersAssumption, TotalSwaps
<1>9. rows = owed
    <2> HIDE DEF w
    <2> QED
        BY <1>6
<1>10. cols = held
    <2> HIDE DEF w
    <2> QED
        BY <1>5
<1> HIDE DEF w, owed, spare, held, rows, cols, B, Due
<1>11. Total(onHand, B) = Total(spare, B) + Total(held, B)
    <2>1. \A b \in B : spare[b] \in Int /\ held[b] \in Int /\ onHand[b] = spare[b] + held[b]
        BY <1>3
    <2> QED
        BY <1>2, <2>1, TotalAdds
<1>12. Total(spare, B) \in Nat
    <2>1. \A b \in B : spare[b] \in Nat
        BY <1>3
    <2> QED
        BY <1>2, <2>1, TotalNat
<1>13. Total(held, B) \in Nat
    <2>1. \A b \in B : held[b] \in Nat
        BY <1>3
    <2> QED
        BY <1>2, <2>1, TotalNat
<1> QED
    BY <1>4, <1>8, <1>9, <1>10, <1>11, <1>12, <1>13

-----------------------------------------------------------------------------
(* What a checkout takes is what the cart asks for *)

\* The cart of a checkout in flight stays as it is: an edit waits for the
\* profile row, and checkouts in flight are of different customers.
LEMMA CartsStay ==
    ASSUME OrderInv, [Next]_vars, NEW s \in Sessions, tx[s].kind = "checkout", tx'[s] = tx[s]
    PROVE  carts'[Owner[tx[s].ref]] = carts[Owner[tx[s].ref]]
<1>1. /\ tx \in [Sessions -> TxRecord] /\ carts \in [Customers -> CartRecord]
      /\ tx[s].ref \in Keys /\ Owner[tx[s].ref] \in Customers
    BY OwnerAssumption DEF OrderInv, TypeInv, TypeOK, TxInv, RefOK
<1>2. ASSUME NEW c \in Customers, NEW r, EditCart(c, r)
      PROVE  carts'[Owner[tx[s].ref]] = carts[Owner[tx[s].ref]]
    <2>1. Owner[tx[s].ref] # c
        BY <1>2, NoneAssumption DEF EditCart, CustomerFree
    <2>2. PICK row : carts' = [carts EXCEPT ![c] = row]
        BY <1>2 DEF EditCart
    <2> QED
        BY <1>1, <2>1, <2>2
<1>3. ASSUME NEW t \in Sessions, NEW o, CheckoutCommit(t, o)
      PROVE  carts'[Owner[tx[s].ref]] = carts[Owner[tx[s].ref]]
    <2>1. tx' = [tx EXCEPT ![t] = Idle] /\ tx[t].kind = "checkout"
        BY <1>3 DEF CheckoutCommit
    <2>2. t # s
        BY <1>1, <2>1, IdleFields
    <2>3. Owner[tx[s].ref] # Owner[tx[t].ref]
        BY <2>1, <2>2 DEF OrderInv, SubmissionInv, CheckoutsExclusive
    <2>4. PICK row : carts' = [carts EXCEPT ![Owner[tx[t].ref]] = row]
        BY <1>3 DEF CheckoutCommit
    <2> QED
        BY <1>1, <2>3, <2>4
<1>4. CASE carts' = carts
    BY <1>4
<1>5. CustomerStep => (carts' = carts \/ (\E c \in Customers, r \in Requests : EditCart(c, r))
                        \/ \E t \in Sessions, o \in Orders : CheckoutCommit(t, o))
    BY DEF CustomerStep, CheckoutBegin, CheckoutLock, CancelBegin, CancelLock, LockActiveInventory
<1>6. AdminStep => carts' = carts
    BY DEF AdminStep, ConfirmBegin, TerminateBegin, LockOrderThenRead, ConfirmLock, TerminateLock,
           LockActiveInventory, ConfirmCommit, ReleaseCommit, Prepare, ReadyForPickup, Transition
<1>7. StockStep => carts' = carts
    BY DEF StockStep, ReceiveBegin, TransferBegin, ReplayLookup, ReceiveCommit, TransferCommit,
           RequestAdjustment, DecideBegin, DecideExpired, DecideReject, DecideApply
<1>8. Sweep \/ (\E t \in Sessions : Rollback(t)) \/ Tick \/ UNCHANGED vars => carts' = carts
    BY DEF Sweep, ExpireReservations, Rollback, Tick, vars
<1> QED
    BY <1>2, <1>3, <1>4, <1>5, <1>6, <1>7, <1>8 DEF Next

\* Every step leaves a transaction alone, ends it, or makes it one that is no
\* locked checkout, but for the one that locks a checkout.
LEMMA CheckoutsLock ==
    ASSUME TypeInv, [Next]_vars, NEW s \in Sessions
    PROVE  \/ tx'[s] = tx[s]
           \/ tx'[s].kind # "checkout" \/ tx'[s].pc # "locked"
           \/ CheckoutLock(s)
<1> DEFINE Goal == \/ tx'[s] = tx[s] \/ tx'[s].kind # "checkout" \/ tx'[s].pc # "locked"
                   \/ CheckoutLock(s)
<1>1. ASSUME NEW q \in Sessions, NEW t, tx' = [tx EXCEPT ![q] = t],
             t.kind # "checkout" \/ t.pc # "locked"
      PROVE  Goal
    BY <1>1 DEF TypeInv, TypeOK
<1>2. ASSUME NEW q \in Sessions, tx' = [tx EXCEPT ![q] = Idle] PROVE Goal
    BY <1>1, <1>2, IdleFields
<1>3. ASSUME NEW q \in Sessions, NEW kind, NEW pc, NEW now, NEW ref, NEW items, NEW take, NEW view,
             NEW move, kind # "checkout" \/ pc # "locked",
             tx' = [tx EXCEPT ![q] = Tx(kind, pc, now, ref, items, take, move, view)]
      PROVE  Goal
    <2> DEFINE t == Tx(kind, pc, now, ref, items, take, move, view)
    <2>1. t.kind = kind /\ t.pc = pc
        BY TxFields
    <2>2. tx' = [tx EXCEPT ![q] = t]
        BY <1>3
    <2> HIDE DEF t
    <2> QED
        BY <1>1, <1>3, <2>1, <2>2
<1> HIDE DEF Goal
<1>4. CustomerStep => Goal
    <2>1. ASSUME NEW q \in Sessions, NEW k, NEW r, CheckoutBegin(q, k, r) PROVE Goal
        <3>1. PICK now : tx' = [tx EXCEPT ![q] =
                   Tx("checkout", "begun", now, k, Candidates(r), NoTake, NoMove, NoView)]
            BY <2>1 DEF CheckoutBegin
        <3> DEFINE t == Tx("checkout", "begun", now, k, Candidates(r), NoTake, NoMove, NoView)
        <3>2. t.pc = "begun"
            BY TxFields
        <3>3. tx' = [tx EXCEPT ![q] = t]
            BY <3>1
        <3> HIDE DEF t
        <3> QED
            BY <1>1, <3>2, <3>3
    <2>2. ASSUME NEW q \in Sessions, CheckoutLock(q) PROVE Goal
        <3>1. q = s \/ tx'[s] = tx[s]
            BY <2>2 DEF CheckoutLock, TypeInv, TypeOK
        <3> QED
            BY <2>2, <3>1 DEF Goal
    <2>3. ASSUME NEW q \in Sessions, NEW o, CancelBegin(q, o) PROVE Goal
        <3> DEFINE t == Tx("cancel", "begun", 0, o, {}, NoTake, NoMove, View(orders[o], onHand, version))
        <3>1. t.kind = "cancel"
            BY TxFields
        <3>2. tx' = [tx EXCEPT ![q] = t]
            BY <2>3 DEF CancelBegin
        <3> HIDE DEF t
        <3> QED
            BY <1>1, <3>1, <3>2
    <2>4. ASSUME NEW q \in Sessions, CancelLock(q) PROVE Goal
        BY <1>3, <2>4 DEF CancelLock, LockActiveInventory
    <2>5. ASSUME NEW q \in Sessions, NEW o, CheckoutCommit(q, o) PROVE Goal
        BY <1>2, <2>5 DEF CheckoutCommit
    <2>6. ASSUME NEW c, NEW r, EditCart(c, r) PROVE Goal
        BY <2>6 DEF EditCart, Goal
    <2> QED
        BY <2>1, <2>2, <2>3, <2>4, <2>5, <2>6 DEF CustomerStep
<1>5. AdminStep => Goal
    <2>1. ASSUME NEW q \in Sessions, NEW o, ConfirmBegin(q, o) \/ TerminateBegin(q, o) PROVE Goal
        BY <1>3, <2>1 DEF ConfirmBegin, TerminateBegin, LockOrderThenRead
    <2>2. ASSUME NEW q \in Sessions, ConfirmLock(q) \/ TerminateLock(q) PROVE Goal
        BY <1>3, <2>2 DEF ConfirmLock, TerminateLock, LockActiveInventory
    <2>3. ASSUME NEW q \in Sessions, ConfirmCommit(q) \/ ReleaseCommit(q) PROVE Goal
        BY <1>2, <2>3 DEF ConfirmCommit, ReleaseCommit
    <2>4. ASSUME NEW o, Prepare(o) \/ ReadyForPickup(o) PROVE Goal
        BY <2>4 DEF Prepare, ReadyForPickup, Transition, Goal
    <2> QED
        BY <2>1, <2>2, <2>3, <2>4 DEF AdminStep
<1>6. StockStep => Goal
    <2>1. ASSUME NEW q \in Sessions, NEW m, NEW mv, NEW kind \in {"receive", "transfer"},
                 ReplayLookup(q, m, mv, kind)
          PROVE  Goal
        BY <1>3, <2>1 DEF ReplayLookup
    <2>2. ASSUME NEW q \in Sessions, NEW a, NEW d \in {"approve", "reject"}, DecideBegin(q, a, d)
          PROVE  Goal
        BY <1>3, <2>2 DEF DecideBegin
    <2>3. ASSUME NEW q \in Sessions,
                 \/ ReceiveCommit(q) \/ TransferCommit(q)
                 \/ DecideExpired(q) \/ DecideReject(q) \/ DecideApply(q)
          PROVE  Goal
        BY <1>2, <2>3
        DEF ReceiveCommit, TransferCommit, DecideExpired, DecideReject, DecideApply, CloseAdjustment
    <2>4. ASSUME NEW a, NEW b, NEW d, RequestAdjustment(a, b, d) PROVE Goal
        BY <2>4 DEF RequestAdjustment, Goal
    <2> QED
        BY <2>1, <2>2, <2>3, <2>4 DEF StockStep, ReceiveBegin, TransferBegin
<1>7. ASSUME NEW q \in Sessions, Rollback(q) PROVE Goal
    BY <1>2, <1>7 DEF Rollback
<1>8. Sweep \/ Tick \/ UNCHANGED vars => Goal
    BY DEF Sweep, ExpireReservations, Tick, vars, Goal
<1>9. Goal
    BY <1>4, <1>5, <1>6, <1>7, <1>8 DEF Next
<1> QED
    BY <1>9 DEF Goal

\* What a locked checkout takes stays what its cart asks for.
LEMMA TakesStep ==
    ASSUME OrderInv, \A s \in Sessions : TakesCart(s), [Next]_vars
    PROVE  \A s \in Sessions : TakesCart(s)'
<1> TAKE s \in Sessions
<1>1. TypeInv /\ tx \in [Sessions -> TxRecord]
    BY DEF OrderInv, TypeInv, TypeOK
<1>2. CASE tx'[s] = tx[s]
    BY <1>2, CartsStay DEF TakesCart
<1>3. CASE tx'[s].kind # "checkout" \/ tx'[s].pc # "locked"
    BY <1>3 DEF TakesCart
<1>4. CASE CheckoutLock(s)
    <2> DEFINE r == carts[Owner[tx[s].ref]].request
               avail == [b \in tx[s].items |-> Available(b, tx[s].now)]
    <2>1. PICK take \in Allocations(r, tx[s].items, avail) : tx' = [tx EXCEPT ![s] =
                Tx("checkout", "locked", tx[s].now, tx[s].ref, tx[s].items, take, NoMove, NoView)]
        BY <1>4 DEF CheckoutLock
    <2>2. \A v \in Variants : Total(take, BucketsOf(v)) = r.lines[v]
        BY DEF Allocations
    <2>3. carts' = carts /\ tx'[s].take = take /\ tx'[s].ref = tx[s].ref
        BY <1>1, <1>4, <2>1 DEF CheckoutLock, Tx
    <2> QED
        BY <2>2, <2>3 DEF TakesCart
<1> QED
    BY <1>1, <1>2, <1>3, <1>4, CheckoutsLock

-----------------------------------------------------------------------------
(* A pending order in time is reserved in full *)

\* Time may pass and rows that ran out may be swept: what is held stays held.
LEMMA HeldSame ==
    ASSUME NEW o \in Orders, HeldInFull(o), clock \in Nat, clock' \in Nat, clock <= clock',
           expiresAt[o] \in Nat, expiresAt'[o] = expiresAt[o],
           orders'[o].request = orders[o].request,
           orders'[o].status # "NONE" => orders[o].status # "NONE",
           orders'[o].status = "PENDING_CONFIRMATION" =>
              /\ orders[o].status = "PENDING_CONFIRMATION"
              /\ expiresAt[o] > clock => rsvState'[o] = rsvState[o] /\ rsvQty'[o] = rsvQty[o]
    PROVE  HeldInFull(o)'
<1>1. orders'[o].status # "NONE" => orders'[o].request \in Requests
    BY DEF HeldInFull
<1>2. ASSUME orders'[o].status = "PENDING_CONFIRMATION", expiresAt'[o] > clock', NEW v \in Variants
      PROVE  Covered(o, v, "ACTIVE")' = orders'[o].request.lines[v]
    <2>1. expiresAt[o] > clock /\ orders[o].status = "PENDING_CONFIRMATION"
        BY <1>2
    <2>2. Covered(o, v, "ACTIVE") = orders[o].request.lines[v]
        BY <2>1 DEF HeldInFull
    <2>3. rsvState'[o] = rsvState[o] /\ rsvQty'[o] = rsvQty[o]
        BY <1>2, <2>1
    <2> QED
        BY <2>2, <2>3 DEF Covered
<1> QED
    BY <1>1, <1>2 DEF HeldInFull

\* The order a checkout makes is reserved in full.
LEMMA HeldCheckout ==
    ASSUME OrderInv, PromiseInv, TypeInv', NEW s \in Sessions, NEW o \in Orders, CheckoutCommit(s, o)
    PROVE  HeldInFull(o)'
<1> DEFINE take == tx[s].take
           r == carts[Owner[tx[s].ref]].request
<1>1. /\ rsvQty' = [rsvQty EXCEPT ![o] = take]
      /\ rsvState' = [rsvState EXCEPT ![o] =
              [b \in Buckets |-> IF take[b] > 0 THEN "ACTIVE" ELSE "NONE"]]
      /\ tx[s].kind = "checkout" /\ tx[s].pc = "locked"
    BY DEF CheckoutCommit
<1>2. take \in [Buckets -> 0 .. MaxStock]
    BY DEF OrderInv, TypeInv, TypeOK, TxRecord
<1>3. rsvQty'[o] = take /\ \A b \in Buckets : rsvState'[o][b] = IF take[b] > 0 THEN "ACTIVE" ELSE "NONE"
    BY <1>1 DEF OrderInv, TypeInv, TypeOK
<1>4. orders'[o].request = r
    BY DEF CheckoutCommit, OrderInv, TypeInv, TypeOK
<1>5. r \in Requests
    <2>1. tx[s].ref \in Keys /\ Owner[tx[s].ref] \in Customers
        BY <1>1, OwnerAssumption DEF OrderInv, TypeInv, TxInv, RefOK
    <2>2. r \in Requests \cup {None}
        BY <2>1 DEF OrderInv, TypeInv, TypeOK, CartRecord
    <2>3. r # None
        BY <1>1 DEF OrderInv, SubmissionInv, CheckoutOpen
    <2> QED
        BY <2>2, <2>3
<1>6. ASSUME NEW v \in Variants PROVE Covered(o, v, "ACTIVE")' = r.lines[v]
    <2> DEFINE R == {b \in BucketsOf(v) : take[b] > 0}
    <2>1. Total(take, BucketsOf(v)) = r.lines[v]
        BY <1>1 DEF PromiseInv, TakesCart
    <2>2. {b \in BucketsOf(v) : rsvState'[o][b] = "ACTIVE"} = R
        BY <1>3, BucketsFinite
    <2>3. Covered(o, v, "ACTIVE")' = Total(take, R)
        BY <1>3, <2>2 DEF Covered
    <2>4. /\ R \in SUBSET BucketsOf(v) /\ \A b \in BucketsOf(v) : take[b] \in Int
          /\ \A b \in BucketsOf(v) \ R : take[b] = 0
        BY <1>2, BucketsFinite, MaxStockAssumption
    <2>5. IsFiniteSet(BucketsOf(v))
        BY BucketsFinite
    <2> HIDE DEF R, take
    <2>6. Total(take, BucketsOf(v)) = Total(take, R)
        BY <2>4, <2>5, TotalFilters
    <2> QED
        BY <2>1, <2>3, <2>6
<1> QED
    BY <1>4, <1>5, <1>6 DEF HeldInFull

\* Every step keeps the promises.
LEMMA HeldStep ==
    ASSUME OrderInv, PromiseInv, TypeInv', [Next]_vars
    PROVE  \A o \in Orders : HeldInFull(o)'
<1>1. /\ TypeInv /\ clock \in Nat /\ expiresAt \in [Orders -> Nat] /\ orders \in [Orders -> OrderRecord]
      /\ rsvQty \in [Orders -> [Buckets -> 0 .. MaxStock]]
      /\ rsvState \in [Orders -> [Buckets -> ReservationState]]
      /\ \A o \in Orders : HeldInFull(o)
    BY DEF OrderInv, TypeInv, TypeOK, PromiseInv
<1> DEFINE Goal == \A o \in Orders : HeldInFull(o)'
<1>2. ASSUME orders' = orders, rsvQty' = rsvQty, rsvState' = rsvState, expiresAt' = expiresAt,
             clock' = clock \/ clock' = clock + 1
      PROVE  Goal
    BY <1>1, <1>2, HeldSame
<1>3. ASSUME NEW p \in Orders, NEW status, NEW payment, NEW cash,
             orders' = [orders EXCEPT ![p] = Advanced(orders[p], status, payment, cash)],
             orders[p].status # "NONE", status # "PENDING_CONFIRMATION", clock' = clock,
             expiresAt' = expiresAt, rsvQty' = rsvQty,
             \A o \in Orders : o # p => rsvState'[o] = rsvState[o]
      PROVE  Goal
    <2>1. /\ orders'[p].status = status /\ orders'[p].request = orders[p].request
          /\ \A o \in Orders : o # p => orders'[o] = orders[o]
        BY <1>1, <1>3, OrderAdvanced
    <2> SUFFICES ASSUME NEW o \in Orders PROVE HeldInFull(o)'
        OBVIOUS
    <2>2. CASE o = p
        BY <1>1, <1>3, <2>1, <2>2, HeldSame
    <2>3. CASE o # p
        BY <1>1, <1>3, <2>1, <2>3, HeldSame
    <2> QED
        BY <2>2, <2>3
<1>4. ASSUME NEW s \in Sessions, NEW p \in Orders, CheckoutCommit(s, p) PROVE Goal
    <2>1. HeldInFull(p)'
        BY <1>4, HeldCheckout
    <2>2. \A o \in Orders : o # p => /\ orders'[o] = orders[o] /\ rsvQty'[o] = rsvQty[o]
                                     /\ rsvState'[o] = rsvState[o] /\ expiresAt'[o] = expiresAt[o]
        BY <1>1, <1>4 DEF CheckoutCommit
    <2>3. clock' = clock
        BY <1>4 DEF CheckoutCommit
    <2>4. \A o \in Orders : o # p => HeldInFull(o)'
        BY <1>1, <2>2, <2>3, HeldSame
    <2> QED
        BY <2>1, <2>4
<1>5. ASSUME NEW s \in Sessions, ConfirmCommit(s) PROVE Goal
    <2>1. PICK p \in Orders : p = tx[s].ref
        BY <1>1, <1>5 DEF ConfirmCommit, TypeInv, TxInv, RefOK
    <2>2. /\ orders' = [orders EXCEPT ![p] = Advanced(orders[p], "CONFIRMED", orders[p].payment, orders[p].cash)]
          /\ clock' = clock /\ expiresAt' = expiresAt /\ rsvQty' = rsvQty
        BY <1>5, <2>1 DEF ConfirmCommit
    <2>3. \A o \in Orders : o # p => rsvState'[o] = rsvState[o]
        BY <1>1, <1>5, <2>1 DEF ConfirmCommit
    <2>4. orders[p].status # "NONE"
        BY <1>5, <2>1 DEF ConfirmCommit, OrderInv, SettlementInv, OrderTxOK
    <2> HIDE DEF Goal
    <2> QED
        BY <1>3, <2>2, <2>3, <2>4
<1>6. ASSUME NEW s \in Sessions, ReleaseCommit(s) PROVE Goal
    <2>1. PICK p \in Orders : p = tx[s].ref
        BY <1>1, <1>6 DEF ReleaseCommit, TypeInv, TxInv, RefOK
    <2>2. /\ orders' = [orders EXCEPT ![p] = Advanced(orders[p], "CANCELLED", "CANCELLED",
                           IF orders[p].cash = "EXPECTED" THEN "VOIDED" ELSE orders[p].cash)]
          /\ clock' = clock /\ expiresAt' = expiresAt /\ rsvQty' = rsvQty
        BY <1>6, <2>1 DEF ReleaseCommit
    <2>3. \A o \in Orders : o # p => rsvState'[o] = rsvState[o]
        BY <1>1, <1>6, <2>1 DEF ReleaseCommit
    <2>4. orders[p].status # "NONE"
        BY <1>6, <2>1 DEF ReleaseCommit, OrderInv, SettlementInv, OrderTxOK
    <2> HIDE DEF Goal
    <2> QED
        BY <1>3, <2>2, <2>3, <2>4
<1>7. ASSUME NEW p \in Orders, Prepare(p) \/ ReadyForPickup(p) PROVE Goal
    <2>1. \/ orders' = [orders EXCEPT ![p] = Advanced(orders[p], "PREPARING", orders[p].payment, orders[p].cash)]
          \/ orders' = [orders EXCEPT ![p] = Advanced(orders[p], "READY_FOR_PICKUP", orders[p].payment, orders[p].cash)]
        BY <1>7 DEF Prepare, ReadyForPickup, Transition
    <2>2. orders[p].status # "NONE" /\ clock' = clock /\ UNCHANGED reservations
        BY <1>7 DEF Prepare, ReadyForPickup, Transition
    <2> HIDE DEF Goal
    <2> QED
        BY <1>3, <2>1, <2>2 DEF reservations
<1>8. ASSUME NEW cutoff \in 0 .. clock, ExpireReservations(cutoff) PROVE Goal
    <2>1. PICK S \in SweepBatches(cutoff) : rsvState' = [o \in Orders |-> [b \in Buckets |->
                IF <<o, b>> \in S THEN "EXPIRED" ELSE rsvState[o][b]]]
        BY <1>8 DEF ExpireReservations
    <2>2. \A o \in Orders, b \in Buckets : <<o, b>> \in S => expiresAt[o] <= cutoff
        BY DEF SweepBatches, Overdue
    <2>3. \A o \in Orders : expiresAt[o] > clock => rsvState'[o] = rsvState[o]
        <3> SUFFICES ASSUME NEW o \in Orders, expiresAt[o] > clock PROVE rsvState'[o] = rsvState[o]
            OBVIOUS
        <3>1. rsvState'[o] = [b \in Buckets |-> IF <<o, b>> \in S THEN "EXPIRED" ELSE rsvState[o][b]]
            BY <2>1
        <3>2. \A b \in Buckets : <<o, b>> \notin S
            BY <1>1, <2>2
        <3>3. rsvState[o] \in [Buckets -> ReservationState]
            BY <1>1
        <3> QED
            BY <3>1, <3>2, <3>3
    <2>4. orders' = orders /\ clock' = clock /\ expiresAt' = expiresAt /\ rsvQty' = rsvQty
        BY <1>8 DEF ExpireReservations
    <2> QED
        BY <1>1, <2>3, <2>4, HeldSame
<1> HIDE DEF Goal
<1>9. CustomerStep => Goal
    BY <1>2, <1>4
    DEF CustomerStep, EditCart, CheckoutBegin, CheckoutLock, CancelBegin, CancelLock,
        LockActiveInventory, reservations
<1>10. AdminStep => Goal
    BY <1>2, <1>5, <1>6, <1>7
    DEF AdminStep, ConfirmBegin, TerminateBegin, LockOrderThenRead, ConfirmLock, TerminateLock,
        LockActiveInventory, reservations
<1>11. StockStep => Goal
    BY <1>2
    DEF StockStep, ReceiveBegin, TransferBegin, ReplayLookup, ReceiveCommit, TransferCommit,
        RequestAdjustment, DecideBegin, DecideExpired, DecideReject, DecideApply, reservations
<1>12. (\E s \in Sessions : Rollback(s)) \/ Tick \/ UNCHANGED vars => Goal
    BY <1>2 DEF Rollback, Tick, vars, reservations
<1>13. Goal
    BY <1>8, <1>9, <1>10, <1>11, <1>12 DEF Next, Sweep
<1> QED
    BY <1>13 DEF Goal

\* What orders are promised stays reserved for them.
LEMMA PromiseStep ==
    OrderInv /\ PromiseInv /\ TypeInv' /\ [Next]_vars => PromiseInv'
BY TakesStep, HeldStep DEF PromiseInv

\* No order, nothing promised.
LEMMA PromiseInit ==
    Init => PromiseInv
BY IdleFields DEF Init, PromiseInv, TakesCart, HeldInFull, NoOrder

-----------------------------------------------------------------------------
(* Steps *)

\* A step that changes no phase and no lines changes free stock at most.
LEMMA RestockStep ==
    ASSUME Balance', Phases' = Phases, PromisedLines' = PromisedLines
    PROVE  Promise!Restock
BY DEF Balance, Promise!Restock

\* When one order changes, free stock changes by what lies more on the shelf
\* less what is owed more to that order.
LEMMA FreeChanges ==
    ASSUME Balance, Balance', NEW p \in Orders, NEW v \in Variants,
           \A o \in Orders : o # p => PhaseOf(o)' = PhaseOf(o) /\ PromisedLines'[o] = PromisedLines[o]
    PROVE  /\ FreeStock'[v] = FreeStock[v] + (Shelf(v)' - Shelf(v)) - (Owed(p, v)' - Owed(p, v))
           /\ Owed(p, v) \in Nat /\ Owed(p, v)' \in Nat
           /\ FreeStock[v] \in Nat /\ FreeStock'[v] \in Nat /\ Shelf(v) \in Nat /\ Shelf(v)' \in Nat
<1> DEFINE f == [o \in Orders |-> Owed(o, v)]
           g == [o \in Orders |-> Owed(o, v)']
<1>1. \A o \in Orders : Owed(o, v) \in Nat /\ Owed(o, v)' \in Nat
    BY DEF Balance, Owed
<1>2. \A o \in Orders : o # p => Owed(o, v)' = Owed(o, v)
    BY DEF Owed
<1>3. /\ FreeStock[v] = Shelf(v) - Total(f, Orders) /\ FreeStock'[v] = Shelf(v)' - Total(g, Orders)
      /\ FreeStock[v] \in Nat /\ FreeStock'[v] \in Nat /\ Shelf(v) \in Nat /\ Shelf(v)' \in Nat
    BY DEF Balance
<1>4. (\A o \in Orders : f[o] \in Int /\ g[o] \in Int) /\ (\A o \in Orders \ {p} : g[o] = f[o])
    BY <1>1, <1>2
<1>5. IsFiniteSet(Orders)
    BY OrdersAssumption
<1>6. f[p] = Owed(p, v) /\ g[p] = Owed(p, v)'
    OBVIOUS
<1> HIDE DEF f, g
<1>7. Total(g, Orders) = Total(f, Orders) + g[p] - f[p]
    BY ONLY <1>4, <1>5, p \in Orders, TotalChanges
<1>8. Total(f, Orders) \in Int
    BY <1>4, <1>5, TotalInt
<1> QED
    BY <1>1, <1>3, <1>6, <1>7, <1>8

\* A checkout's commit places its order.
LEMMA PlaceStep ==
    ASSUME OrderInv, PromiseInv, PromiseInv', Balance, Balance', TypeInv', DecisionsHold,
           NEW s \in Sessions, NEW o \in Orders, CheckoutCommit(s, o)
    PROVE  Promise!Next
<1> DEFINE l == PromisedLines'[o]
<1>1. /\ TypeInv /\ orders \in [Orders -> OrderRecord] /\ expiresAt \in [Orders -> Nat] /\ clock \in Nat
      /\ tx[s].now \in Nat /\ tx[s].now <= clock
    BY DEF OrderInv, TypeInv, TypeOK, TxRecord, DecisionsHold, DecisionOK
<1>2. /\ orders[o].status = "NONE" /\ clock' = clock /\ onHand' = onHand
      /\ clock - tx[s].now <= TxTimeout
    BY DEF CheckoutCommit, WithinTimeout
<1>3. orders'[o].status = "PENDING_CONFIRMATION" /\ expiresAt'[o] = tx[s].now + ReservationTTL
    BY <1>1 DEF CheckoutCommit
<1>4. \A p \in Orders : p # o => orders'[p] = orders[p] /\ expiresAt'[p] = expiresAt[p]
    BY <1>1 DEF CheckoutCommit
<1>5. expiresAt'[o] > clock'
    BY <1>1, <1>2, <1>3, TTLAssumption
<1>6. PhaseOf(o) = "none" /\ PhaseOf(o)' = "held" /\ \A p \in Orders : p # o => PhaseOf(p)' = PhaseOf(p)
    BY <1>2, <1>3, <1>4, <1>5 DEF PhaseOf
<1>7. \A p \in Orders : p # o => PromisedLines'[p] = PromisedLines[p]
    BY <1>4 DEF PromisedLines
<1>8. l \in {r.lines : r \in Requests}
    BY <1>3 DEF PromisedLines, PromiseInv, HeldInFull
<1>9. Phases[o] = "none" /\ Phases' = [Phases EXCEPT ![o] = "held"]
    BY <1>6 DEF Phases
<1>10. PromisedLines' = [PromisedLines EXCEPT ![o] = l]
    BY <1>7 DEF Balance
<1>11. \A v \in Variants : Shelf(v)' = Shelf(v) /\ Owed(o, v) = 0 /\ Owed(o, v)' = l[v]
    BY <1>2, <1>6 DEF Shelf, Owed
<1>12. \A v \in Variants : FreeStock'[v] = FreeStock[v] - l[v] /\ l[v] <= FreeStock[v]
    <2> TAKE v \in Variants
    <2> HIDE DEF l
    <2>1. /\ FreeStock'[v] = FreeStock[v] + (Shelf(v)' - Shelf(v)) - (Owed(o, v)' - Owed(o, v))
          /\ Owed(o, v)' \in Nat /\ FreeStock[v] \in Nat /\ FreeStock'[v] \in Nat /\ Shelf(v) \in Nat
        BY <1>6, <1>7, FreeChanges
    <2> QED
        BY <1>11, <2>1
<1>13. FreeStock' = [v \in Variants |-> FreeStock[v] - l[v]]
    BY <1>12 DEF Balance
<1> HIDE DEF l
<1>14. Promise!Place(o, l)
    BY <1>9, <1>10, <1>12, <1>13 DEF Promise!Place, Promise!Enough
<1> QED
    BY <1>8, <1>14 DEF Promise!Next

\* What a confirmation takes off the shelf is what the order was promised.
LEMMA ShelfShipped ==
    ASSUME OrderInv, NEW s \in Sessions, NEW o \in Orders, o = tx[s].ref, ConfirmCommit(s),
           NEW v \in Variants
    PROVE  Shelf(v)' = Shelf(v) - orders[o].request.lines[v]
<1> DEFINE R == {b \in BucketsOf(v) : rsvState[o][b] = "ACTIVE"}
           gone == [b \in Buckets |-> IF b \in R THEN rsvQty[o][b] ELSE 0]
<1>1. tx[s].items = ActiveItems(o) /\ Covered(o, v, "ACTIVE") = orders[o].request.lines[v]
    BY DEF ConfirmCommit, OrderInv, SettlementInv, OrderTxOK
<1>2. onHand' = [b \in Buckets |-> IF b \in tx[s].items THEN onHand[b] - rsvQty[o][b] ELSE onHand[b]]
    BY DEF ConfirmCommit
<1>3. BucketsOf(v) \subseteq Buckets /\ IsFiniteSet(BucketsOf(v)) /\ R \in SUBSET BucketsOf(v)
    BY BucketsFinite
<1>4. \A b \in Buckets : onHand[b] \in Int /\ rsvQty[o][b] \in Int
    BY MaxStockAssumption DEF OrderInv, TypeInv, TypeOK
<1>5. \A b \in BucketsOf(v) : onHand'[b] \in Int /\ gone[b] \in Int /\ onHand[b] = onHand'[b] + gone[b]
    BY <1>1, <1>2, <1>3, <1>4 DEF ActiveItems
<1>6. (\A b \in R : rsvQty[o][b] \in Int /\ gone[b] = rsvQty[o][b]) /\ \A b \in BucketsOf(v) \ R : gone[b] = 0
    BY <1>3, <1>4
<1>7. Total(rsvQty[o], R) = orders[o].request.lines[v]
    BY <1>1 DEF Covered
<1> HIDE DEF R, gone
<1>8. Total(rsvQty[o], R) = Total(gone, BucketsOf(v))
    BY <1>3, <1>6, TotalMasks
<1>9. Total(onHand, BucketsOf(v)) = Total(onHand', BucketsOf(v)) + Total(gone, BucketsOf(v))
    BY <1>3, <1>5, TotalAdds
<1>10. Total(onHand', BucketsOf(v)) \in Int /\ Total(gone, BucketsOf(v)) \in Int
    BY <1>3, <1>5, TotalInt
<1>11. Shelf(v)' = Total(onHand', BucketsOf(v)) /\ Shelf(v) = Total(onHand, BucketsOf(v))
    BY DEF Shelf, BucketsOf
<1> QED
    BY <1>7, <1>8, <1>9, <1>10, <1>11

\* A confirmation ships its order: out of its promise, or, when that has
\* lapsed since the confirmation checked it, out of free stock.
LEMMA ShipStep ==
    ASSUME OrderInv, PromiseInv, Balance, Balance', NEW s \in Sessions, ConfirmCommit(s)
    PROVE  Promise!Next
<1>1. PICK o \in Orders : o = tx[s].ref
    BY DEF ConfirmCommit, OrderInv, TypeInv, TxInv, RefOK
<1>2. /\ TypeInv /\ orders \in [Orders -> OrderRecord]
      /\ clock' = clock /\ expiresAt' = expiresAt
      /\ orders' = [orders EXCEPT ![o] = Advanced(orders[o], "CONFIRMED", orders[o].payment, orders[o].cash)]
    BY <1>1 DEF OrderInv, TypeInv, TypeOK, ConfirmCommit
<1>3. orders[o].status = "PENDING_CONFIRMATION"
    BY <1>1 DEF ConfirmCommit, OrderUnchanged, OrderInv, SettlementInv, OrderTxOK
<1>4. /\ orders'[o].status = "CONFIRMED" /\ orders'[o].request = orders[o].request
      /\ \A p \in Orders : p # o => orders'[p] = orders[p]
    BY <1>2, OrderAdvanced
<1>5. PhaseOf(o) \in {"held", "lapsed"} /\ PhaseOf(o)' = "shipped"
    BY <1>3, <1>4 DEF PhaseOf
<1>6. \A p \in Orders : p # o => PhaseOf(p)' = PhaseOf(p)
    BY <1>2, <1>4 DEF PhaseOf
<1>7. \A p \in Orders : PromisedLines'[p] = PromisedLines[p]
    BY <1>3, <1>4 DEF PromisedLines
<1>8. PromisedLines' = PromisedLines
    BY <1>7 DEF Balance
<1>9. Phases[o] = PhaseOf(o) /\ Phases' = [Phases EXCEPT ![o] = "shipped"]
    BY <1>5, <1>6 DEF Phases
<1>10. \A v \in Variants : /\ Shelf(v)' = Shelf(v) - PromisedLines[o][v] /\ Owed(o, v)' = 0
                           /\ Owed(o, v) = IF PhaseOf(o) = "held" THEN PromisedLines[o][v] ELSE 0
    <2> TAKE v \in Variants
    <2>1. Shelf(v)' = Shelf(v) - orders[o].request.lines[v]
        BY <1>1, ShelfShipped
    <2>2. PromisedLines[o] = orders[o].request.lines
        BY <1>3 DEF PromisedLines
    <2> QED
        BY <1>5, <2>1, <2>2 DEF Owed
<1>11. \A v \in Variants : PromisedLines[o][v] \in Nat
    BY DEF Balance
<1>12. \A v \in Variants :
          /\ FreeStock'[v] = FreeStock[v] - (IF PhaseOf(o) = "held" THEN 0 ELSE PromisedLines[o][v])
          /\ FreeStock[v] \in Nat /\ FreeStock'[v] \in Nat
    <2> TAKE v \in Variants
    <2>1. /\ FreeStock'[v] = FreeStock[v] + (Shelf(v)' - Shelf(v)) - (Owed(o, v)' - Owed(o, v))
          /\ FreeStock[v] \in Nat /\ FreeStock'[v] \in Nat /\ Shelf(v) \in Nat
        BY <1>6, <1>7, FreeChanges
    <2> QED
        BY <1>5, <1>10, <1>11, <2>1
<1>13. CASE PhaseOf(o) = "held"
    <2>1. FreeStock' = FreeStock
        BY <1>12, <1>13 DEF Balance
    <2> QED
        BY <1>8, <1>9, <1>13, <2>1 DEF Promise!Next, Promise!Ship
<1>14. CASE PhaseOf(o) = "lapsed"
    <2>1. FreeStock' = [v \in Variants |-> FreeStock[v] - PromisedLines[o][v]]
        BY <1>12, <1>14 DEF Balance
    <2>2. \A v \in Variants : PromisedLines[o][v] <= FreeStock[v]
        BY <1>11, <1>12, <1>14
    <2> QED
        BY <1>8, <1>9, <1>14, <2>1, <2>2 DEF Promise!Next, Promise!Ship, Promise!Enough
<1> QED
    BY <1>5, <1>13, <1>14

\* A termination or cancellation closes its order and returns what was held.
LEMMA CloseStep ==
    ASSUME OrderInv, PromiseInv, Balance, Balance', NEW s \in Sessions, ReleaseCommit(s)
    PROVE  Promise!Next
<1>1. PICK o \in Orders : o = tx[s].ref
    BY DEF ReleaseCommit, OrderInv, TypeInv, TxInv, RefOK
<1>2. /\ TypeInv /\ orders \in [Orders -> OrderRecord]
      /\ clock' = clock /\ expiresAt' = expiresAt /\ onHand' = onHand
      /\ orders' = [orders EXCEPT ![o] = Advanced(orders[o], "CANCELLED", "CANCELLED",
                           IF orders[o].cash = "EXPECTED" THEN "VOIDED" ELSE orders[o].cash)]
    BY <1>1 DEF OrderInv, TypeInv, TypeOK, ReleaseCommit
<1>3. orders[o].status \in EarlyCancellation /\ orders[o].status \in OrderStatus
    BY <1>1 DEF ReleaseCommit, OrderUnchanged, OrderInv, SettlementInv, OrderTxOK, TypeInv, TypeOK, OrderRecord
<1>4. /\ orders'[o].status = "CANCELLED" /\ orders'[o].request = orders[o].request
      /\ \A p \in Orders : p # o => orders'[p] = orders[p]
    BY <1>2, OrderAdvanced
<1>5. PhaseOf(o) \in {"held", "lapsed", "shipped"} /\ PhaseOf(o)' = "closed"
    BY <1>3, <1>4 DEF PhaseOf, EarlyCancellation, OrderStatus
<1>6. \A p \in Orders : p # o => PhaseOf(p)' = PhaseOf(p)
    BY <1>2, <1>4 DEF PhaseOf
<1>7. \A p \in Orders : PromisedLines'[p] = PromisedLines[p]
    BY <1>3, <1>4 DEF PromisedLines, EarlyCancellation
<1>8. PromisedLines' = PromisedLines
    BY <1>7 DEF Balance
<1>9. Phases[o] = PhaseOf(o) /\ Phases' = [Phases EXCEPT ![o] = "closed"]
    BY <1>5, <1>6 DEF Phases
<1>10. \A v \in Variants : /\ Shelf(v)' = Shelf(v) /\ Owed(o, v)' = 0
                           /\ Owed(o, v) = IF PhaseOf(o) = "held" THEN PromisedLines[o][v] ELSE 0
    BY <1>2, <1>5 DEF Shelf, Owed
<1>11. \A v \in Variants :
          FreeStock'[v] = FreeStock[v] + (IF PhaseOf(o) = "held" THEN PromisedLines[o][v] ELSE 0)
    <2> TAKE v \in Variants
    <2>1. /\ FreeStock'[v] = FreeStock[v] + (Shelf(v)' - Shelf(v)) - (Owed(o, v)' - Owed(o, v))
          /\ FreeStock[v] \in Nat /\ Shelf(v) \in Nat /\ Owed(o, v) \in Nat
        BY <1>6, <1>7, FreeChanges
    <2> QED
        BY <1>10, <2>1
<1>12. FreeStock' = [v \in Variants |->
                        FreeStock[v] + (IF Phases[o] = "held" THEN PromisedLines[o][v] ELSE 0)]
    BY <1>9, <1>11 DEF Balance
<1>13. Promise!Close(o)
    BY <1>5, <1>8, <1>9, <1>12 DEF Promise!Close
<1> QED
    BY <1>13 DEF Promise!Next

\* When time passes, the promises whose time has come lapse together.
LEMMA LapseStep ==
    ASSUME OrderInv, PromiseInv, Balance, Balance', Tick
    PROVE  Promise!Next
<1> DEFINE S == {o \in Orders : PhaseOf(o) = "held" /\ PhaseOf(o)' # "held"}
<1>1. /\ clock' = clock + 1 /\ orders' = orders /\ expiresAt' = expiresAt /\ onHand' = onHand
      /\ clock \in Nat /\ expiresAt \in [Orders -> Nat]
    BY DEF Tick, stock, reservations, OrderInv, TypeInv, TypeOK
<1>2. \A o \in Orders : PhaseOf(o)' = IF o \in S THEN "lapsed" ELSE PhaseOf(o)
    BY <1>1 DEF PhaseOf
<1>3. PromisedLines' = PromisedLines
    BY <1>1 DEF PromisedLines
<1>4. \A o \in S : Phases[o] = "held"
    BY DEF Phases
<1>5. Phases' = [o \in Orders |-> IF o \in S THEN "lapsed" ELSE Phases[o]]
    BY <1>2 DEF Phases
<1>6. \A o \in S : PhaseOf(o) = "held"
    OBVIOUS
<1>7. S \in SUBSET Orders
    OBVIOUS
<1> HIDE DEF S
<1>8. ASSUME NEW v \in Variants
      PROVE  FreeStock'[v] = FreeStock[v] + Total([o \in Orders |-> PromisedLines[o][v]], S)
    <2> DEFINE f == [o \in Orders |-> Owed(o, v)]
               g == [o \in Orders |-> Owed(o, v)']
               l == [o \in Orders |-> PromisedLines[o][v]]
               d == [o \in Orders |-> IF o \in S THEN PromisedLines[o][v] ELSE 0]
    <2>1. \A o \in Orders : /\ PromisedLines[o][v] \in Nat /\ Owed(o, v) \in Nat /\ Owed(o, v)' \in Nat
                            /\ Owed(o, v) = Owed(o, v)' + IF o \in S THEN PromisedLines[o][v] ELSE 0
        BY <1>2, <1>3, <1>6 DEF Balance, Owed
    <2>2. \A o \in Orders : g[o] \in Int /\ d[o] \in Int /\ f[o] = g[o] + d[o]
        BY <2>1
    <2>3. (\A o \in S : l[o] \in Int /\ d[o] = l[o]) /\ (\A o \in Orders \ S : d[o] = 0)
        BY <1>7, <2>1
    <2>4. /\ FreeStock[v] = Shelf(v) - Total(f, Orders) /\ FreeStock'[v] = Shelf(v)' - Total(g, Orders)
          /\ FreeStock[v] \in Nat /\ FreeStock'[v] \in Nat /\ Shelf(v) \in Nat /\ Shelf(v)' = Shelf(v)
        BY <1>1 DEF Balance, Shelf
    <2> HIDE DEF f, g, d, l
    <2>5. Total(f, Orders) = Total(g, Orders) + Total(d, Orders)
        BY <2>2, OrdersAssumption, TotalAdds
    <2>6. Total(l, S) = Total(d, Orders)
        BY <1>7, <2>3, OrdersAssumption, TotalMasks
    <2>7. Total(g, Orders) \in Int /\ Total(d, Orders) \in Int
        BY <2>2, OrdersAssumption, TotalInt
    <2>8. FreeStock'[v] = FreeStock[v] + Total(l, S)
        BY <2>4, <2>5, <2>6, <2>7
    <2> QED
        BY <2>8 DEF l
<1>9. FreeStock' = [v \in Variants |-> FreeStock[v] + Promise!Total([o \in Orders |-> PromisedLines[o][v]], S)]
    BY <1>8, SameTotal DEF Balance
<1>10. Promise!Lapse(S)
    BY <1>3, <1>4, <1>5, <1>9 DEF Promise!Lapse
<1> QED
    BY <1>7, <1>10 DEF Promise!Next

\* Every step of Store is a step of the promise, or leaves it unchanged.
LEMMA RefinementStep ==
    ASSUME StockInv, OrderInv, PromiseInv, PromiseInv', TypeInv', Balance, Balance', [Next]_vars
    PROVE  Promise!Next
<1>1. ASSUME orders' = orders, expiresAt' = expiresAt, clock' = clock PROVE Promise!Next
    <2>1. Phases' = Phases /\ PromisedLines' = PromisedLines
        BY <1>1 DEF Phases, PhaseOf, PromisedLines
    <2> QED
        BY <2>1, RestockStep DEF Promise!Next
<1>2. ASSUME NEW o \in Orders, Prepare(o) \/ ReadyForPickup(o) PROVE Promise!Next
    <2>1. \/ orders' = [orders EXCEPT ![o] = Advanced(orders[o], "PREPARING", orders[o].payment, orders[o].cash)]
          \/ orders' = [orders EXCEPT ![o] = Advanced(orders[o], "READY_FOR_PICKUP", orders[o].payment, orders[o].cash)]
        BY <1>2 DEF Prepare, ReadyForPickup, Transition
    <2>2. /\ orders[o].status \in {"CONFIRMED", "PREPARING"} /\ clock' = clock /\ expiresAt' = expiresAt
          /\ TypeInv
        BY <1>2 DEF Prepare, ReadyForPickup, Transition, reservations, OrderInv
    <2>3. /\ orders'[o].status \in {"PREPARING", "READY_FOR_PICKUP"}
          /\ orders'[o].request = orders[o].request /\ \A p \in Orders : p # o => orders'[p] = orders[p]
        <3>1. PICK to \in {"PREPARING", "READY_FOR_PICKUP"} : orders' =
                 [orders EXCEPT ![o] = Advanced(orders[o], to, orders[o].payment, orders[o].cash)]
            BY <2>1
        <3> QED
            BY <2>2, <3>1, OrderAdvanced
    <2>4. \A p \in Orders : PhaseOf(p)' = PhaseOf(p)
        BY <2>2, <2>3 DEF PhaseOf
    <2>5. \A p \in Orders : PromisedLines'[p] = PromisedLines[p]
        BY <2>2, <2>3 DEF PromisedLines
    <2>6. Phases' = Phases /\ PromisedLines' = PromisedLines
        BY <2>4, <2>5 DEF Phases, Balance
    <2> QED
        BY <2>6, RestockStep DEF Promise!Next
<1>3. CustomerStep => Promise!Next
    <2>1. ASSUME NEW s \in Sessions, NEW o \in Orders, CheckoutCommit(s, o) PROVE Promise!Next
        BY <2>1, PlaceStep DEF StockInv
    <2> QED
        BY <1>1, <2>1
        DEF CustomerStep, EditCart, CheckoutBegin, CheckoutLock, CancelBegin, CancelLock,
            LockActiveInventory, reservations
<1>4. AdminStep => Promise!Next
    BY <1>1, <1>2, ShipStep, CloseStep
    DEF AdminStep, ConfirmBegin, TerminateBegin, LockOrderThenRead, ConfirmLock, TerminateLock,
        LockActiveInventory, reservations
<1>5. StockStep => Promise!Next
    BY <1>1
    DEF StockStep, ReceiveBegin, TransferBegin, ReplayLookup, ReceiveCommit, TransferCommit,
        RequestAdjustment, DecideBegin, DecideExpired, DecideReject, DecideApply, reservations
<1>6. Sweep \/ (\E s \in Sessions : Rollback(s)) \/ UNCHANGED vars => Promise!Next
    BY <1>1 DEF Sweep, ExpireReservations, Rollback, vars, reservations
<1> QED
    BY <1>3, <1>4, <1>5, <1>6, LapseStep DEF Next

\* Before the first order everything on the shelf is free.
LEMMA RefinementInit ==
    ASSUME Init, Balance PROVE Promise!Init
<1>1. \A o \in Orders : orders[o].status = "NONE"
    BY DEF Init, NoOrder
<1>2. Phases = [o \in Orders |-> "none"] /\ PromisedLines = [o \in Orders |-> [v \in Variants |-> 0]]
    BY <1>1 DEF Phases, PhaseOf, PromisedLines
<1> QED
    BY <1>2 DEF Promise!Init, Balance

\* Store implements the promise: however checkouts, confirmations,
\* cancellations, sweeps, receipts, transfers, adjustments and the clock
\* interleave, an order is reserved, lapses, ships or closes as a whole and
\* only free stock is ever promised.
THEOREM PromiseKept ==
    Spec => KeepsPromise
<1> DEFINE RefInv == StockInv /\ OrderInv /\ PromiseInv
<1>1. Init => RefInv
    BY StockInvInit, TypeInit, SubmissionInit, SettlementInit, PromiseInit DEF OrderInv
<1>2. RefInv /\ [Next]_vars => RefInv'
    <2> SUFFICES ASSUME RefInv, [Next]_vars PROVE RefInv'
        OBVIOUS
    <2>1. StockInv' /\ TypeInv'
        BY StockInvStep DEF StockInv
    <2>2. OrderInv'
        BY <2>1, SubmissionStep, SettlementStep DEF OrderInv
    <2>3. PromiseInv'
        BY <2>1, PromiseStep
    <2> QED
        BY <2>1, <2>2, <2>3
<1>3. RefInv => Balance
    BY FreeBalance DEF OrderInv
<1>4. Init /\ Balance => Promise!Init
    BY RefinementInit
<1>5. RefInv /\ RefInv' /\ Balance /\ Balance' /\ [Next]_vars => Promise!Next
    BY RefinementStep DEF StockInv
<1> HIDE DEF RefInv
<1> QED
    BY <1>1, <1>2, <1>3, <1>4, <1>5, PTL DEF Spec, KeepsPromise, Promise!Spec

=============================================================================
