---------------------------- MODULE InventoryOps ----------------------------
(***************************************************************************)
(* What administrators and the worker do to physical stock and to          *)
(* reservations outside an order: batch receipts, cross-location           *)
(* transfers, dual-controlled adjustments (admin-inventory.service.ts) and *)
(* the expiry sweep (outbox-processor.ts).  All of these transactions are  *)
(* READ COMMITTED.                                                         *)
(***************************************************************************)
EXTENDS StoreDb

-----------------------------------------------------------------------------
(* Batch receipts and transfers, retried under an Idempotency-Key *)

\* The replay lookup runs before the transaction and outside it: two calls
\* with one key may both find nothing.
ReplayLookup(s, m, mv, kind) ==
    /\ tx[s] = Idle
    /\ moves[m] = NoMove
    /\ tx' = [tx EXCEPT ![s] = Tx(kind, "begun", 0, m, {}, NoTake, mv, NoView)]
    /\ UNCHANGED <<clock, stock, orders, reservations, claims, carts, adjustments, moves>>

ReceiveBegin(s, m, b, q) ==
    /\ "receive" \in Ops
    /\ ReplayLookup(s, m, [from |-> 0, to |-> b, quantity |-> q], "receive")

\* Transfers join buckets of one variant at different locations.
TransferBegin(s, m, from, to, q) ==
    /\ "transfer" \in Ops
    /\ from # to /\ VariantOf[from] = VariantOf[to]
    /\ ReplayLookup(s, m, [from |-> from, to |-> to, quantity |-> q], "transfer")

\* Mutant: the key hash is not unique.
MoveUnchecked(m) == m \in Moves
\* The unique key hash of the inserted row turns the loser of a race into a
\* rollback, answered by the winner's result.
MoveUnused(m) == moves[m] = NoMove

\* A relative increment of one locked item and its movement.
ReceiveCommit(s) ==
    LET t == tx[s]
        b == t.move.to
        q == t.move.quantity
    IN  /\ t.kind = "receive"
        /\ ItemsFree({b}, s)
        /\ MoveUnused(t.ref)
        /\ onHand[b] <= MaxStock - q
        /\ onHand' = [onHand EXCEPT ![b] = @ + q]
        /\ version' = [version EXCEPT ![b] = @ + 1]
        /\ lastAfter' = [lastAfter EXCEPT ![b] = onHand[b] + q]
        /\ moves' = [moves EXCEPT ![t.ref] = t.move]
        /\ tx' = [tx EXCEPT ![s] = Idle]
        /\ UNCHANGED <<clock, orders, reservations, claims, carts, adjustments>>

\* calculateInventoryTransfer: only unreserved stock leaves the source.
TransferAllowed(from, to, q) ==
    /\ onHand[from] - Reserved(from, clock) >= q
    /\ onHand[to] <= MaxStock - q

\* A call whose expectedSourceVersion is not the source's is rolled back.
TransferCommit(s) ==
    LET t == tx[s]
        mv == t.move
    IN  /\ t.kind = "transfer"
        /\ ItemsFree({mv.from, mv.to}, s)
        /\ MoveUnused(t.ref)
        /\ TransferAllowed(mv.from, mv.to, mv.quantity)
        /\ onHand' = [onHand EXCEPT ![mv.from] = @ - mv.quantity, ![mv.to] = @ + mv.quantity]
        /\ version' = [version EXCEPT ![mv.from] = @ + 1, ![mv.to] = @ + 1]
        /\ lastAfter' = [lastAfter EXCEPT ![mv.from] = onHand[mv.from] - mv.quantity,
                                          ![mv.to] = onHand[mv.to] + mv.quantity]
        /\ moves' = [moves EXCEPT ![t.ref] = mv]
        /\ tx' = [tx EXCEPT ![s] = Idle]
        /\ UNCHANGED <<clock, orders, reservations, claims, carts, adjustments>>

-----------------------------------------------------------------------------
(* Dual-controlled adjustments *)

\* A correction is only recorded; the stock moves when it is approved.  ADD,
\* REMOVE and SET differ in how they compute the delta.  The clock is read
\* before the wait for the item.
RequestAdjustment(a, b, delta) ==
    /\ "adjust" \in Ops
    /\ ItemsFree({b}, None)
    /\ adjustments[a].status = "NONE"
    /\ delta # 0
    /\ \E now \in {n \in 0 .. clock : clock - n <= TxTimeout} :
          /\ onHand[b] + delta \in Reserved(b, now) .. MaxStock
          /\ adjustments' = [adjustments EXCEPT ![a] =
                Adjustment("PENDING_APPROVAL", b, delta, version[b], onHand[b], now + ApprovalTTL)]
    /\ UNCHANGED <<clock, stock, orders, reservations, claims, carts, moves, tx>>

\* A second administrator calls; the clock is read before the transaction.  A
\* repeated decision on a closed adjustment is answered from it.
DecideBegin(s, a, decision) ==
    /\ "adjust" \in Ops
    /\ tx[s] = Idle
    /\ adjustments[a].status = "PENDING_APPROVAL"
    /\ tx' = [tx EXCEPT ![s] = Tx(decision, "begun", clock, a, {}, NoTake, NoMove, NoView)]
    /\ UNCHANGED <<clock, stock, orders, reservations, claims, carts, adjustments, moves>>

Pending(s) ==
    /\ tx[s].kind \in {"approve", "reject"}
    /\ adjustments[tx[s].ref].status = "PENDING_APPROVAL"

PastApproval(s) == adjustments[tx[s].ref].expiresAt <= tx[s].now

\* The item moved on since the request was filed.
Stale(adj) == version[adj.item] # adj.expectedVersion \/ onHand[adj.item] # adj.onHandBefore

CloseAdjustment(s, status) ==
    LET adj == adjustments[tx[s].ref]
    IN  /\ adjustments' = [adjustments EXCEPT ![tx[s].ref] =
              Adjustment(status, adj.item, adj.delta, adj.expectedVersion, adj.onHandBefore,
                         adj.expiresAt)]
        /\ tx' = [tx EXCEPT ![s] = Idle]

DecideExpired(s) ==
    /\ Pending(s)
    /\ PastApproval(s)
    /\ CloseAdjustment(s, "EXPIRED")
    /\ UNCHANGED <<clock, stock, orders, reservations, claims, carts, moves>>

DecideReject(s) ==
    /\ Pending(s) /\ ~PastApproval(s)
    /\ \/ tx[s].kind = "reject"
       \/ /\ tx[s].kind = "approve"
          /\ ItemsFree({adjustments[tx[s].ref].item}, s)
          /\ Stale(adjustments[tx[s].ref])
    /\ CloseAdjustment(s, "REJECTED")
    /\ UNCHANGED <<clock, stock, orders, reservations, claims, carts, moves>>

\* Mutant: reservations made since the request are forgotten.
AdjustmentInRange(b, after, now) == after \in 0 .. MaxStock
\* Never below what live reservations hold, never outside the column's range.
AdjustmentFits(b, after, now) == after \in 0 .. MaxStock /\ after >= Reserved(b, now)

DecideApply(s) ==
    LET adj == adjustments[tx[s].ref]
        b == adj.item
        after == onHand[b] + adj.delta
    IN  /\ Pending(s) /\ ~PastApproval(s)
        /\ tx[s].kind = "approve"
        /\ ItemsFree({b}, s)
        /\ ~Stale(adj)
        /\ AdjustmentFits(b, after, tx[s].now)
        /\ onHand' = [onHand EXCEPT ![b] = after]
        /\ version' = [version EXCEPT ![b] = @ + 1]
        /\ lastAfter' = [lastAfter EXCEPT ![b] = after]
        /\ CloseAdjustment(s, "APPLIED")
        /\ UNCHANGED <<clock, orders, reservations, claims, carts, moves>>

-----------------------------------------------------------------------------
(* The worker's expiry sweep *)

\* Mutant: the sweep does not ask for ACTIVE rows.
OverdueAny(cutoff) ==
    {r \in Orders \X Buckets : rsvState[r[1]][r[2]] # "NONE" /\ expiresAt[r[1]] <= cutoff}
\* ACTIVE rows that expired at or before the cutoff.
Overdue(cutoff) ==
    {r \in Orders \X Buckets : rsvState[r[1]][r[2]] = "ACTIVE" /\ expiresAt[r[1]] <= cutoff}

\* Mutant: a backlog larger than a batch is left alone.
WholeBacklog(cutoff) ==
    IF Overdue(cutoff) # {} /\ Cardinality(Overdue(cutoff)) <= BatchSize THEN {Overdue(cutoff)} ELSE {}
\* ORDER BY inventoryItemId LIMIT batchSize: the rows of the lowest items.
SweepBatches(cutoff) ==
    {S \in SUBSET Overdue(cutoff) :
        /\ S # {}
        /\ Cardinality(S) = Min({BatchSize, Cardinality(Overdue(cutoff))})
        /\ \A r \in S, q \in Overdue(cutoff) \ S : r[2] <= q[2]}

\* The cutoff is the time the sweep was enqueued; it may run later.
ExpireReservations(cutoff) ==
    /\ "expire" \in Ops
    /\ \E S \in SweepBatches(cutoff) :
          /\ ItemsFree({r[2] : r \in S}, None)
          /\ rsvState' = [o \in Orders |-> [b \in Buckets |->
                IF <<o, b>> \in S THEN "EXPIRED" ELSE rsvState[o][b]]]
          /\ lastAfter' = [b \in Buckets |->
                IF \E o \in Orders : <<o, b>> \in S THEN onHand[b] ELSE lastAfter[b]]
    /\ UNCHANGED <<clock, onHand, version, orders, rsvQty, expiresAt, claims, carts,
                   adjustments, moves, tx>>

=============================================================================
