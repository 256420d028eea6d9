---------------------------- MODULE OrderIntake ----------------------------
(***************************************************************************)
(* Checkout, confirmation, cancellation and preparation of orders          *)
(* (checkout-order.service.ts, admin-orders.service.ts,                    *)
(* customer-orders.service.ts).  Validation that only refuses a request    *)
(* (consent, blocklist, prices, delivery rules) is the choice not to       *)
(* begin or to abort.                                                      *)
(***************************************************************************)
EXTENDS StoreDb

\* Every refusal, timeout, deadlock victim, failed compare-and-set and crash
\* ends the same way: the transaction is rolled back and its locks are freed.
Rollback(s) ==
    /\ tx[s] # Idle
    /\ tx' = [tx EXCEPT ![s] = Idle]
    /\ UNCHANGED <<clock, stock, orders, reservations, claims, carts, adjustments, moves>>

-----------------------------------------------------------------------------
(* Cart and checkout *)

Cart(id, request) == [id |-> id, request |-> request]

\* A customer opens a cart, or changes the lines of the one they have, under
\* the lock of their profile row.
EditCart(c, r) ==
    /\ "cart" \in Ops
    /\ CustomerFree(c, None)
    /\ carts[c].request # r
    /\ \/ /\ carts[c].request = None
          /\ carts[c].id < MaxCarts
          /\ carts' = [carts EXCEPT ![c] = Cart(carts[c].id + 1, r)]
       \/ /\ carts[c].request # None
          /\ carts' = [carts EXCEPT ![c] = Cart(carts[c].id, r)]
    /\ UNCHANGED <<clock, stock, orders, reservations, claims, adjustments, moves, tx>>

\* Mutant: a completed claim is not looked at.
ClaimUnchecked(s, k) == KeyFree(k, s)
\* The claim of an idempotency key waits for an uncommitted claim of the same
\* key.  A completed claim is answered with its order, or refused if the
\* request differs, and nothing changes.
ClaimIdempotency(s, k) ==
    /\ KeyFree(k, s)
    /\ claims[k] = None

\* The transaction is rolled back when it stays open longer.
WithinTimeout(t) == clock - t.now <= TxTimeout

\* The buckets the non-locking candidate query finds.
Candidates(r) == {b \in Buckets : onHand[b] > 0 /\ r.lines[VariantOf[b]] > 0}

\* The clock is read first, so the wait for the key and for the cart is
\* already behind it.
CheckoutBegin(s, k, r) ==
    /\ "checkout" \in Ops
    /\ tx[s] = Idle
    /\ ClaimIdempotency(s, k)
    /\ CustomerFree(Owner[k], s)
    /\ carts[Owner[k]].request = r
    /\ \E now \in {n \in 0 .. clock : clock - n <= TxTimeout} :
          tx' = [tx EXCEPT ![s] =
                   Tx("checkout", "begun", now, k, Candidates(r), NoTake, NoMove, NoView)]
    /\ UNCHANGED <<clock, stock, orders, reservations, claims, carts, adjustments, moves>>

\* What allocateInventory returns: per line, buckets are drained in the order
\* of their ids until the requested quantity is met.
Allocations(r, C, avail) ==
    {take \in [Buckets -> 0 .. MaxStock] :
        /\ \A b \in Buckets : take[b] <= (IF b \in C THEN avail[b] ELSE 0)
        /\ \A v \in Variants : Total(take, BucketsOf(v)) = r.lines[v]
        /\ \A b, c \in C :
              b < c /\ VariantOf[b] = VariantOf[c] /\ take[c] > 0 => take[b] = avail[b]}

\* Mutant: reservations are not subtracted.
PhysicalStock(b, now) == onHand[b]
\* What the locked checkout may allocate from a bucket, as of its own clock.
Available(b, now) == onHand[b] - Reserved(b, now)

\* The cart, and with it the request that matched it, is locked since begin.
CheckoutLock(s) ==
    LET t == tx[s]
        avail == [b \in t.items |-> Available(b, t.now)]
    IN  /\ t.kind = "checkout" /\ t.pc = "begun"
        /\ WithinTimeout(t)
        /\ ItemsFree(t.items, s)
        /\ \A b \in t.items : avail[b] >= 0
        /\ \E take \in Allocations(carts[Owner[t.ref]].request, t.items, avail) :
              tx' = [tx EXCEPT ![s] =
                       Tx("checkout", "locked", t.now, t.ref, t.items, take, NoMove, NoView)]
        /\ UNCHANGED <<clock, stock, orders, reservations, claims, carts, adjustments, moves>>

\* The order with its delivery and cash expectation, its reservations and
\* their zero-delta movements, the completed claim and the converted cart.
CheckoutCommit(s, o) ==
    LET t == tx[s]
        c == Owner[t.ref]
    IN  /\ t.kind = "checkout" /\ t.pc = "locked"
        /\ WithinTimeout(t)
        /\ orders[o].status = "NONE"
        /\ orders' = [orders EXCEPT ![o] =
              [status |-> "PENDING_CONFIRMATION", version |-> 1, payment |-> "CASH_EXPECTED",
               delivery |-> "PENDING_CONFIRMATION", deliveryVersion |-> 1, cash |-> "EXPECTED",
               key |-> t.ref, cart |-> carts[c].id, request |-> carts[c].request]]
        /\ rsvQty' = [rsvQty EXCEPT ![o] = t.take]
        /\ rsvState' = [rsvState EXCEPT ![o] =
              [b \in Buckets |-> IF t.take[b] > 0 THEN "ACTIVE" ELSE "NONE"]]
        /\ expiresAt' = [expiresAt EXCEPT ![o] = t.now + ReservationTTL]
        /\ lastAfter' = [b \in Buckets |-> IF t.take[b] > 0 THEN onHand[b] ELSE lastAfter[b]]
        /\ claims' = [claims EXCEPT ![t.ref] = o]
        /\ carts' = [carts EXCEPT ![c] = Cart(carts[c].id, None)]
        /\ tx' = [tx EXCEPT ![s] = Idle]
        /\ UNCHANGED <<clock, onHand, version, adjustments, moves>>

-----------------------------------------------------------------------------
(* Administrator and customer operations on one order *)

EarlyCancellation == {"PENDING_CONFIRMATION", "CONFIRMED", "ON_HOLD", "PREPARING",
                      "READY_FOR_PICKUP", "ASSIGNED_TO_COURIER"}

\* lockOrder: FOR UPDATE first, then the read that fixes the read view.
LockOrderThenRead(s, o, kind) ==
    /\ tx[s] = Idle
    /\ OrderFree(o, s)
    /\ tx' = [tx EXCEPT ![s] =
                Tx(kind, "begun", 0, o, {}, NoTake, NoMove, View(orders[o], onHand, version))]
    /\ UNCHANGED <<clock, stock, orders, reservations, claims, carts, adjustments, moves>>

ConfirmBegin(s, o) ==
    /\ "confirm" \in Ops
    /\ orders[o].status = "PENDING_CONFIRMATION"
    /\ orders[o].delivery = "PENDING_CONFIRMATION"
    /\ LockOrderThenRead(s, o, "confirm")

\* cancel from any early status, reject from PENDING_CONFIRMATION only: the
\* second is a special case of the first and has the same effect.
TerminateBegin(s, o) ==
    /\ "terminate" \in Ops
    /\ orders[o].status \in EarlyCancellation
    /\ orders[o].delivery = orders[o].status
    /\ orders[o].cash \in {"EXPECTED", "VOIDED"}
    /\ orders[o].payment \in {"PAYMENT_PENDING", "CASH_EXPECTED"}
    /\ LockOrderThenRead(s, o, "terminate")

\* lockOwnedOrder reads before it locks, so the read view predates the lock
\* and every check below is made on it.
CancelBegin(s, o) ==
    /\ "cancel" \in Ops
    /\ tx[s] = Idle
    /\ orders[o].status = "PENDING_CONFIRMATION"
    /\ orders[o].delivery = "PENDING_CONFIRMATION"
    /\ orders[o].payment \in {"PAYMENT_PENDING", "CASH_EXPECTED"}
    /\ orders[o].cash = "EXPECTED"
    /\ tx' = [tx EXCEPT ![s] =
                Tx("cancel", "begun", 0, o, {}, NoTake, NoMove, View(orders[o], onHand, version))]
    /\ UNCHANGED <<clock, stock, orders, reservations, claims, carts, adjustments, moves>>

\* The ACTIVE reservations of the order and their items are locked as they
\* are now; what is read of them afterwards comes from the read view.
LockActiveInventory(s) ==
    LET o == tx[s].ref
    IN  /\ ItemsFree(ActiveItems(o), s)
        /\ tx' = [tx EXCEPT ![s] = Tx(tx[s].kind, "locked", clock, o, ActiveItems(o),
                                      NoTake, NoMove, tx[s].view)]
        /\ UNCHANGED <<clock, stock, orders, reservations, claims, carts, adjustments, moves>>

\* Mutant: some reservation is left, that is all.
PartlyCovered(o) == ActiveItems(o) # {}
\* assertReservationCoverage: complete, unexpired, quantities as ordered.
CoverageOK(o) ==
    /\ ActiveItems(o) # {}
    /\ expiresAt[o] > clock
    /\ \A v \in Variants : Covered(o, v, "ACTIVE") = orders[o].request.lines[v]

ConfirmLock(s) ==
    /\ tx[s].kind = "confirm" /\ tx[s].pc = "begun"
    /\ CoverageOK(tx[s].ref)
    /\ LockActiveInventory(s)

TerminateLock(s) ==
    /\ tx[s].kind = "terminate" /\ tx[s].pc = "begun"
    /\ LockActiveInventory(s)

CancelLock(s) ==
    /\ tx[s].kind = "cancel" /\ tx[s].pc = "begun"
    /\ OrderFree(tx[s].ref, s)
    /\ LockActiveInventory(s)

\* The check of the resulting stock as read, then the conditional UPDATE of
\* one item: version as read, stock still enough.
ItemUnchanged(s, b) ==
    /\ tx[s].view.onHand[b] >= rsvQty[tx[s].ref][b]
    /\ version[b] = tx[s].view.version[b]
    /\ onHand[b] >= rsvQty[tx[s].ref][b]

\* Mutant: the UPDATE names only the id.
OrderUnchecked(o, seen) == seen.status # "NONE"
\* The conditional UPDATEs of order and delivery.
OrderUnchanged(o, seen) ==
    /\ orders[o].status = seen.status /\ orders[o].version = seen.version
    /\ orders[o].delivery = seen.delivery /\ orders[o].deliveryVersion = seen.deliveryVersion

\* Order and delivery move to a status together, each one version up.
Advanced(rec, status, payment, cash) ==
    [status |-> status, version |-> rec.version + 1, payment |-> payment,
     delivery |-> status, deliveryVersion |-> rec.deliveryVersion + 1, cash |-> cash,
     key |-> rec.key, cart |-> rec.cart, request |-> rec.request]

ConfirmCommit(s) ==
    LET t == tx[s]
        o == t.ref
    IN  /\ t.kind = "confirm" /\ t.pc = "locked"
        /\ \A b \in t.items : ItemUnchanged(s, b)
        /\ OrderUnchanged(o, t.view.order)
        /\ onHand' = [b \in Buckets |-> IF b \in t.items THEN onHand[b] - rsvQty[o][b] ELSE onHand[b]]
        /\ version' = [b \in Buckets |-> IF b \in t.items THEN version[b] + 1 ELSE version[b]]
        /\ lastAfter' = [b \in Buckets |-> IF b \in t.items THEN t.view.onHand[b] - rsvQty[o][b]
                                                            ELSE lastAfter[b]]
        /\ rsvState' = [rsvState EXCEPT ![o] =
              [b \in Buckets |-> IF b \in t.items THEN "CONSUMED" ELSE rsvState[o][b]]]
        /\ orders' = [orders EXCEPT ![o] = Advanced(orders[o], "CONFIRMED", orders[o].payment, orders[o].cash)]
        /\ tx' = [tx EXCEPT ![s] = Idle]
        /\ UNCHANGED <<clock, rsvQty, expiresAt, claims, carts, adjustments, moves>>

\* Reservations still ACTIVE are released with a movement that repeats the
\* physical stock of the read view; the expected cash is voided.
ReleaseCommit(s) ==
    LET t == tx[s]
        o == t.ref
    IN  /\ t.kind \in {"terminate", "cancel"} /\ t.pc = "locked"
        /\ t.kind = "cancel" => orders[o].cash = "EXPECTED"
        /\ OrderUnchanged(o, t.view.order)
        /\ lastAfter' = [b \in Buckets |-> IF b \in t.items THEN t.view.onHand[b] ELSE lastAfter[b]]
        /\ rsvState' = [rsvState EXCEPT ![o] =
              [b \in Buckets |-> IF b \in t.items THEN "RELEASED" ELSE rsvState[o][b]]]
        /\ orders' = [orders EXCEPT ![o] =
              Advanced(orders[o], "CANCELLED", "CANCELLED",
                       IF orders[o].cash = "EXPECTED" THEN "VOIDED" ELSE orders[o].cash)]
        /\ tx' = [tx EXCEPT ![s] = Idle]
        /\ UNCHANGED <<clock, onHand, version, rsvQty, expiresAt, claims, carts, adjustments, moves>>

\* transitionIntake: the order row is locked before anything is read.
Transition(o, from, to) ==
    /\ "transition" \in Ops
    /\ OrderFree(o, None)
    /\ orders[o].status = from /\ orders[o].delivery = from
    /\ orders' = [orders EXCEPT ![o] = Advanced(orders[o], to, orders[o].payment, orders[o].cash)]
    /\ UNCHANGED <<clock, stock, reservations, claims, carts, adjustments, moves, tx>>

Prepare(o) == Transition(o, "CONFIRMED", "PREPARING")

ReadyForPickup(o) ==
    /\ orders[o].status = "PREPARING" => orders[o].request.method = "STORE_PICKUP"
    /\ Transition(o, "PREPARING", "READY_FOR_PICKUP")

=============================================================================
