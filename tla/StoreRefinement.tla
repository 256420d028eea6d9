-------------------------- MODULE StoreRefinement --------------------------
(* The interleaved transactions of Store keep the promise of StockPromise. *)
EXTENDS Store

\* An order holds its promise while its reservations are unexpired; the sweep
\* that marks them EXPIRED only records what the clock has already done.
PhaseOf(o) ==
    CASE orders[o].status = "NONE" -> "none"
      [] orders[o].status = "CANCELLED" -> "closed"
      [] orders[o].status = "PENDING_CONFIRMATION" ->
            IF expiresAt[o] > clock THEN "held" ELSE "lapsed"
      [] OTHER -> "shipped"

FreeStock ==
    [v \in Variants |->
        Total([b \in Buckets |-> onHand[b] - Reserved(b, clock)], BucketsOf(v))]

PromisedLines ==
    [o \in Orders |-> IF orders[o].status = "NONE" THEN [v \in Variants |-> 0]
                                                   ELSE orders[o].request.lines]

Phases == [o \in Orders |-> PhaseOf(o)]

Promise == INSTANCE StockPromise
    WITH Lines <- {r.lines : r \in Requests},
         free <- FreeStock, phase <- Phases, lines <- PromisedLines

\* Checkout, confirmation, cancellation, expiry, receipts, transfers and
\* adjustments, however their transactions interleave, are steps of the
\* abstract promise: an order is reserved, lapses, ships or closes as a whole,
\* and whatever else moves stock leaves what is promised untouched.
KeepsPromise == Promise!Spec

-----------------------------------------------------------------------------
(* Why they are: free stock is what lies on the shelves less what is owed to *)
(* the orders whose promise holds.                                           *)

Shelf(v) == Total(onHand, BucketsOf(v))
Owed(o, v) == IF PhaseOf(o) = "held" THEN PromisedLines[o][v] ELSE 0

Balance ==
    /\ FreeStock \in [Variants -> Nat]
    /\ PromisedLines \in [Orders -> [Variants -> Nat]]
    /\ \A v \in Variants :
          /\ Shelf(v) \in Nat
          /\ FreeStock[v] = Shelf(v) - Total([o \in Orders |-> Owed(o, v)], Orders)

=============================================================================
