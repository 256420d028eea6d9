-------------------------- MODULE FulfilmentProofs --------------------------
(***************************************************************************)
(* The safety of delivery operations and cash reconciliation, for any      *)
(* number of deliveries, couriers, manifests, remittances and requests     *)
(* that overlap.  Every step that changes rows is an instance of the move  *)
(* below; what a move may do is all that the invariant depends on.         *)
(***************************************************************************)
EXTENDS Fulfilment, SumProofs

\* The request keeps what it has read, and the rows whose version it still
\* holds, and the one it has locked, are as it has read them.
Kept(q) ==
    /\ tx[q] # None
    /\ tx'[q].op = tx[q].op /\ tx'[q].on = tx[q].on /\ tx'[q].arg = tx[q].arg
    /\ tx'[q].dels \subseteq tx[q].dels /\ tx'[q].ords \subseteq tx[q].ords
    /\ \A d \in Deliveries : /\ d \in tx'[q].dels => db'.del[d] = db.del[d]
                             /\ d \in tx'[q].ords => db'.ord[d] = db.ord[d]
    /\ tx[q].op = "transitionManifest" => db'.man[tx[q].on] = db.man[tx[q].on]
    /\ tx[q].op = "reconcileRemittance" => db'.rem[tx[q].on] = db.rem[tx[q].on]

\* How a step moves a delivery, with its order.
DeliveryMove(d) ==
    /\ db'.ord[d].status = db'.del[d].status
    /\ db'.del[d].courier # db.del[d].courier => db.del[d].status \in EARLY_CANCELLATION_STATUSES
    /\ \/ db'.del[d].status = db.del[d].status /\ db'.del[d].age = db.del[d].age
       \/ /\ canTransitionDelivery(db.del[d].status, db'.del[d].status)
          /\ db'.del[d].status = "DELIVERED" =>
                CashForCompletion(d) = db.ord[d].cod /\ db'.del[d].age = "PASSED"
       \/ /\ db.del[d].status \in EARLY_CANCELLATION_STATUSES
          /\ db'.del[d].status = "CANCELLED" /\ db'.ord[d].pay = "CANCELLED"
          /\ db'.col[d].status = "VOIDED" /\ db'.col[d].collected = 0

\* How a step moves the cash of a delivery.
CashMove(d) ==
    /\ db'.ord[d].cod = db.ord[d].cod
    /\ Banked(d) =>
          /\ Banked(d)'
          /\ db'.col[d].collected = db.col[d].collected
          /\ db.col[d].status = "REMITTED" => db'.col[d].status = "REMITTED"
          /\ db.col[d].disc # "OPEN" => /\ db'.col[d].disc = db.col[d].disc
                                        /\ db'.col[d].status \in {db.col[d].status, "REMITTED"}
    /\ Banked(d)' => db'.col[d].collected > 0
    /\ ~Banked(d)' => db'.col[d].collected = 0 /\ db'.col[d].disc = "NONE"
    /\ db.ord[d].status = "CANCELLED" => db'.col[d] = db.col[d] /\ db'.ord[d].pay = db.ord[d].pay
    /\ db'.col[d].status = "REMITTED" /\ db.col[d].status # "REMITTED" =>
          \E r \in Remittances :
              Settled(d) /\ Banked(d) /\ VerifiedWith(d, r) = Accountable(d) /\ db'.rem[r].status = "VERIFIED"
    /\ db'.ord[d].pay = "CASH_REMITTED" <=>
          db'.col[d].status = "REMITTED" /\ Accountable(d)' = db'.ord[d].cod

\* How a step moves a remittance.
RemittanceMove(r) ==
    /\ db.rem[r].status # "FREE" => db'.rem[r].status # "FREE" /\ db'.rem[r].items = db.rem[r].items
    /\ db.rem[r].status = "VERIFIED" => db'.rem[r] = db.rem[r]
    /\ db'.rem[r].status = "FREE" => db'.rem[r] = db.rem[r]
    /\ db'.rem[r].disc = "OPEN" => db'.rem[r].status = "DISCREPANCY"

\* What a step allocates: nothing, or a new remittance within the balances.
AllocationMove ==
    \/ \A r \in Remittances : db'.rem[r].items = db.rem[r].items
    \/ \E r \in Remittances :
          /\ db.rem[r].status = "FREE"
          /\ \A q \in Remittances \ {r} : db'.rem[q].items = db.rem[q].items
          /\ \A d \in Deliveries : db'.rem[r].items[d] > 0 =>
                /\ Settled(d) /\ Banked(d)
                /\ Allocated(d, Remittances) + db'.rem[r].items[d] <= Accountable(d)

\* How a step moves a manifest.
ManifestMove(m) ==
    \/ db'.man[m] = db.man[m]
    \/ db'.man[m].status \notin {"HANDED_OVER", "CLOSED"}
    \/ /\ db'.man[m].items = db.man[m].items /\ db'.man[m].courier = db.man[m].courier
       /\ \/ db.man[m].status = "HANDED_OVER"
          \/ \A d \in db.man[m].items : /\ db'.del[d].courier = db.man[m].courier
                                        /\ db'.del[d].status = "HANDED_TO_COURIER"

Moves ==
    /\ db' \in Rows /\ DOMAIN tx' = Sessions
    /\ \A q \in Sessions : tx'[q] # None => Kept(q)
    /\ \A d \in Deliveries : DeliveryMove(d) /\ CashMove(d)
    /\ \A r \in Remittances : RemittanceMove(r)
    /\ AllocationMove
    /\ \A m \in Manifests : ManifestMove(m)

-----------------------------------------------------------------------------
(* Amounts *)

\* Every allocated amount is a natural number, so is what they sum up to, and
\* more remittances allocate no less.
LEMMA AllocatedGrows ==
    ASSUME db \in Rows, NEW d \in Deliveries, NEW R \in SUBSET Remittances
    PROVE  Allocated(d, R) \in Nat /\ Allocated(d, R) <= Allocated(d, Remittances)
<1> DEFINE f == [r \in Remittances |-> db.rem[r].items[d]]
<1>1. \A r \in Remittances : f[r] \in Nat
    BY FulfilmentAssumption DEF Rows, RemittanceRow
<1>2. Total(f, R) \in Nat /\ Total(f, R) <= Total(f, Remittances)
    <2> HIDE DEF f
    <2> QED
        BY <1>1, FulfilmentAssumption, TotalMonotone
<1> QED
    BY <1>2 DEF Allocated

\* One allocation is part of what all remittances allocate.
LEMMA ItemAllocated ==
    ASSUME db \in Rows, NEW d \in Deliveries, NEW r \in Remittances
    PROVE  db.rem[r].items[d] \in Nat /\ db.rem[r].items[d] <= Allocated(d, Remittances)
<1> DEFINE f == [q \in Remittances |-> db.rem[q].items[d]]
<1>1. \A q \in Remittances : f[q] \in Nat
    BY FulfilmentAssumption DEF Rows, RemittanceRow
<1>2. \A q \in Remittances : f[q] \in Int
    BY <1>1
<1>3. f[r] = db.rem[r].items[d]
    OBVIOUS
<1>4. Total(f, Remittances \ {r}) \in Nat
    <2> HIDE DEF f
    <2> QED
        BY <1>1, FulfilmentAssumption, TotalMonotone
<1>5. Total(f, Remittances) = f[r] + Total(f, Remittances \ {r})
    <2> HIDE DEF f
    <2> QED
        BY <1>2, FulfilmentAssumption, TotalSplits
<1>6. Allocated(d, Remittances) = Total(f, Remittances)
    BY DEF Allocated
<1> HIDE DEF f
<1> QED
    BY <1>1, <1>3, <1>4, <1>5, <1>6

\* Only a collection that holds settled cash is allocated.
LEMMA AllocatedIsBanked ==
    ASSUME db \in Rows, RowsOK, NoOverAllocation, NEW d \in Deliveries, NEW r \in Remittances,
           db.rem[r].items[d] > 0
    PROVE  Settled(d) /\ Banked(d)
<1>1. Allocated(d, Remittances) > 0 /\ Allocated(d, Remittances) \in Nat
    BY ItemAllocated, AllocatedGrows
<1>2. Settled(d) /\ Accountable(d) > 0
    BY <1>1 DEF NoOverAllocation, Rows, OrderRow, CollectionRow, Accountable
<1>3. db.ord[d].cod > 0 /\ db.ord[d].cod \in Nat
    BY FulfilmentAssumption DEF Rows, OrderRow
<1> QED
    BY <1>2, <1>3 DEF RowsOK, Settled, cashDifference

-----------------------------------------------------------------------------
(* A move keeps the invariant *)

\* No allocation shrinks.
LEMMA MoveAllocates ==
    ASSUME db \in Rows, RemittancesOK, Moves, NEW d \in Deliveries,
           NEW R \in SUBSET Remittances, NEW T \in SUBSET Remittances, R \subseteq T
    PROVE  Allocated(d, R) <= Allocated(d, T)'
<1> DEFINE f == [r \in Remittances |-> db.rem[r].items[d]]
           g == [r \in Remittances |-> db'.rem[r].items[d]]
<1>1. \A r \in Remittances : f[r] \in Nat /\ g[r] \in Nat
    BY FulfilmentAssumption DEF Rows, RemittanceRow, Moves
<1>2. \A r \in Remittances : f[r] <= g[r]
    <2> SUFFICES ASSUME NEW r \in Remittances PROVE f[r] <= g[r]
        OBVIOUS
    <2>1. db.rem[r].status = "FREE" => db.rem[r].items[d] = 0
        BY DEF RemittancesOK
    <2>2. db.rem[r].status # "FREE" => db'.rem[r].items = db.rem[r].items
        BY DEF Moves, RemittanceMove
    <2> QED
        BY <1>1, <2>1, <2>2
<1>3. IsFiniteSet(R) /\ IsFiniteSet(T)
    BY FulfilmentAssumption, FS_Subset
<1>4. Allocated(d, R) = Total(f, R) /\ Allocated(d, T)' = Total(g, T)
    BY DEF Allocated
<1> HIDE DEF f, g
<1>5. \A r \in R : f[r] \in Int /\ g[r] \in Int /\ f[r] <= g[r]
    BY <1>1, <1>2
<1>6. Total(f, R) <= Total(g, R)
    BY <1>3, <1>5, TotalBelow
<1>7. \A r \in T : g[r] \in Nat
    BY <1>1
<1>8. Total(g, R) \in Nat /\ Total(g, R) <= Total(g, T)
    BY <1>3, <1>7, TotalMonotone
<1>9. Total(f, R) \in Int /\ Total(g, T) \in Int
    <2>1. \A r \in R : f[r] \in Nat
        BY <1>1
    <2>2. Total(f, R) \in Nat
        BY <2>1, <1>3, TotalNat
    <2>3. Total(g, T) \in Nat
        BY <1>7, <1>3, TotalNat
    <2> QED
        BY <2>2, <2>3
<1> QED
    BY <1>4, <1>6, <1>8, <1>9

\* A settled balance stays what it is.
LEMMA MoveSettles ==
    ASSUME db \in Rows, Moves, NEW d \in Deliveries, Banked(d), Settled(d)
    PROVE  Banked(d)' /\ Settled(d)' /\ Accountable(d)' = Accountable(d)
<1>1. CashMove(d)
    BY DEF Moves
<1>2. db.col[d].disc # "OPEN"
    BY DEF Settled
<1> QED
    BY <1>1, <1>2 DEF CashMove, Settled, Accountable, cashDifference

\* Nothing is allocated beyond its balance.
LEMMA MoveNoOverAllocation ==
    ASSUME db \in Rows, RowsOK, RemittancesOK, NoOverAllocation, Moves
    PROVE  NoOverAllocation'
<1> SUFFICES ASSUME NEW d \in Deliveries
             PROVE  Allocated(d, Remittances)' <= IF Settled(d)' THEN Accountable(d)' ELSE 0
    BY DEF NoOverAllocation
<1> DEFINE f == [r \in Remittances |-> db.rem[r].items[d]]
           g == [r \in Remittances |-> db'.rem[r].items[d]]
<1>1. Allocated(d, Remittances) = Total(f, Remittances) /\ Allocated(d, Remittances)' = Total(g, Remittances)
    BY DEF Allocated
<1>2. \A r \in Remittances : f[r] \in Nat /\ g[r] \in Nat
    BY FulfilmentAssumption DEF Rows, RemittanceRow, Moves
<1>3. \A r \in Remittances : f[r] \in Int /\ g[r] \in Int
    BY <1>2
<1>4. Accountable(d)' \in Nat
    <2>1. db'.ord[d].cod \in Nat /\ db'.col[d].collected \in Nat
        BY FulfilmentAssumption DEF Moves, Rows, OrderRow, CollectionRow
    <2> QED
        BY <2>1 DEF Accountable
<1>5. Allocated(d, Remittances) \in Nat
    BY AllocatedGrows
<1>6. CASE Allocated(d, Remittances)' = Allocated(d, Remittances)
    <2>1. CASE Allocated(d, Remittances) = 0
        BY <1>6, <2>1, <1>4
    <2>2. CASE Allocated(d, Remittances) # 0
        <3>1. PICK r \in Remittances : db.rem[r].items[d] > 0
            <4> SUFFICES ASSUME \A r \in Remittances : ~(db.rem[r].items[d] > 0) PROVE FALSE
                OBVIOUS
            <4>1. \A r \in Remittances : f[r] \in Nat /\ f[r] = 0
                BY <1>2
            <4> HIDE DEF f
            <4>2. Total(f, Remittances) = 0
                BY <4>1, FulfilmentAssumption, TotalNat
            <4> QED
                BY <1>1, <4>2, <2>2
        <3>2. Settled(d) /\ Banked(d)
            BY <3>1, AllocatedIsBanked
        <3>3. Settled(d)' /\ Accountable(d)' = Accountable(d)
            BY <3>2, MoveSettles
        <3>4. Allocated(d, Remittances) <= Accountable(d)
            BY <3>2 DEF NoOverAllocation
        <3> QED
            BY <1>6, <3>3, <3>4
    <2> QED
        BY <2>1, <2>2
<1>7. CASE \A r \in Remittances : db'.rem[r].items = db.rem[r].items
    <2>1. \A r \in Remittances : f[r] = g[r] /\ f[r] \in Int
        BY <1>7, <1>3
    <2> HIDE DEF f, g
    <2>2. Total(f, Remittances) = Total(g, Remittances)
        BY <2>1, FulfilmentAssumption, TotalSame
    <2> QED
        BY <1>1, <2>2, <1>6
<1>8. ASSUME NEW r \in Remittances,
             db.rem[r].status = "FREE",
             \A q \in Remittances \ {r} : db'.rem[q].items = db.rem[q].items,
             db'.rem[r].items[d] > 0 =>
                /\ Settled(d) /\ Banked(d)
                /\ Allocated(d, Remittances) + db'.rem[r].items[d] <= Accountable(d)
      PROVE  Allocated(d, Remittances)' <= IF Settled(d)' THEN Accountable(d)' ELSE 0
    <2>1. f[r] = 0 /\ g[r] = db'.rem[r].items[d]
        BY <1>8 DEF RemittancesOK
    <2>2. \A q \in Remittances \ {r} : g[q] = f[q]
        BY <1>8
    <2> HIDE DEF f, g
    <2>3. Total(g, Remittances) = Total(f, Remittances) + g[r] - f[r]
        BY <1>3, <2>2, FulfilmentAssumption, TotalChanges
    <2>4. g[r] \in Nat
        BY <1>2
    <2>5. Allocated(d, Remittances)' = Allocated(d, Remittances) + g[r]
        BY <1>1, <1>5, <2>1, <2>3, <2>4
    <2>6. CASE g[r] = 0
        BY <2>5, <2>6, <1>5, <1>6
    <2>7. CASE g[r] # 0
        <3>1. g[r] > 0
            BY <2>4, <2>7
        <3>2. Settled(d) /\ Banked(d) /\ Allocated(d, Remittances) + g[r] <= Accountable(d)
            BY <1>8, <2>1, <3>1
        <3>3. Settled(d)' /\ Accountable(d)' = Accountable(d)
            BY <3>2, MoveSettles
        <3> QED
            BY <2>5, <3>2, <3>3
    <2> QED
        BY <2>6, <2>7
<1> QED
    <2>1. AllocationMove
        BY DEF Moves
    <2>2. CASE \E r \in Remittances :
          /\ db.rem[r].status = "FREE"
          /\ \A q \in Remittances \ {r} : db'.rem[q].items = db.rem[q].items
          /\ \A x \in Deliveries : db'.rem[r].items[x] > 0 =>
                /\ Settled(x) /\ Banked(x)
                /\ Allocated(x, Remittances) + db'.rem[r].items[x] <= Accountable(x)
        <3>1. PICK r \in Remittances :
          /\ db.rem[r].status = "FREE"
          /\ \A q \in Remittances \ {r} : db'.rem[q].items = db.rem[q].items
          /\ \A x \in Deliveries : db'.rem[r].items[x] > 0 =>
                /\ Settled(x) /\ Banked(x)
                /\ Allocated(x, Remittances) + db'.rem[r].items[x] <= Accountable(x)
            BY <2>2
        <3> HIDE DEF f, g
        <3>2. db'.rem[r].items[d] > 0 =>
                /\ Settled(d) /\ Banked(d)
                /\ Allocated(d, Remittances) + db'.rem[r].items[d] <= Accountable(d)
            BY <3>1
        <3> QED
            BY <3>1, <3>2, <1>8
    <2> QED
        BY <1>7, <2>1, <2>2 DEF AllocationMove

\* What covers a settled collection still covers it, and no more.
LEMMA MoveCovers ==
    ASSUME FulfilmentInv, Moves, NEW d \in Deliveries, Settled(d), Banked(d),
           NEW R \in SUBSET Remittances, NEW T \in SUBSET Remittances, R \subseteq T,
           Allocated(d, R) = Accountable(d)
    PROVE  Settled(d)' /\ Banked(d)' /\ Allocated(d, T)' = Accountable(d)' /\ Accountable(d)' = Accountable(d)
<1>1. Settled(d)' /\ Banked(d)' /\ Accountable(d)' = Accountable(d)
    BY MoveSettles DEF FulfilmentInv, FulfilmentTypeOK
<1>2. Accountable(d) <= Allocated(d, T)'
    BY MoveAllocates DEF FulfilmentInv, FulfilmentTypeOK
<1>3. NoOverAllocation'
    BY MoveNoOverAllocation DEF FulfilmentInv, FulfilmentTypeOK
<1>4. Allocated(d, Remittances)' <= Accountable(d)'
    BY <1>1, <1>3 DEF NoOverAllocation
<1>5. Allocated(d, T)' \in Nat /\ Allocated(d, T)' <= Allocated(d, Remittances)' /\ Allocated(d, Remittances)' \in Nat
    <2>1. db' \in Rows
        BY DEF Moves
    <2> DEFINE g == [r \in Remittances |-> db'.rem[r].items[d]]
    <2>2. \A r \in Remittances : g[r] \in Nat
        BY <2>1, FulfilmentAssumption DEF Rows, RemittanceRow
    <2>3. Allocated(d, T)' = Total(g, T) /\ Allocated(d, Remittances)' = Total(g, Remittances)
        BY DEF Allocated
    <2> HIDE DEF g
    <2>4. Total(g, T) \in Nat /\ Total(g, T) <= Total(g, Remittances)
        BY <2>2, FulfilmentAssumption, TotalMonotone
    <2>5. Total(g, Remittances) \in Nat
        BY <2>2, FulfilmentAssumption, TotalNat
    <2> QED
        BY <2>3, <2>4, <2>5
<1>6. Accountable(d) \in Nat
    <2>1. db.ord[d].cod \in Nat /\ db.col[d].collected \in Nat
        BY FulfilmentAssumption DEF FulfilmentInv, FulfilmentTypeOK, Rows, OrderRow, CollectionRow
    <2> QED
        BY <2>1 DEF Accountable
<1> QED
    BY <1>1, <1>2, <1>4, <1>5, <1>6

\* A collection counts as remitted only when it is covered.
LEMMA MoveRemitted ==
    ASSUME FulfilmentInv, Moves
    PROVE  RemittedIsVerified'
<1> SUFFICES ASSUME NEW d \in Deliveries
             PROVE  /\ db'.col[d].status = "REMITTED" =>
                         Allocated(d, {r \in Remittances : db.rem[r].status = "VERIFIED"})' = Accountable(d)'
                    /\ db'.ord[d].pay = "CASH_REMITTED" <=>
                         db'.col[d].status = "REMITTED" /\ Accountable(d)' = db'.ord[d].cod
    BY DEF RemittedIsVerified
<1>1. CashMove(d)
    BY DEF Moves
<1>2. PICK V \in SUBSET Remittances : V = {r \in Remittances : db.rem[r].status = "VERIFIED"}
    OBVIOUS
<1>3. PICK W \in SUBSET Remittances : W = {r \in Remittances : db'.rem[r].status = "VERIFIED"}
    OBVIOUS
<1>4. V \subseteq W
    BY <1>2, <1>3 DEF Moves, RemittanceMove
<1>5. ASSUME db'.col[d].status = "REMITTED"
      PROVE  Allocated(d, W)' = Accountable(d)'
    <2>1. CASE db.col[d].status = "REMITTED"
        <3>1. Banked(d) /\ db.col[d].collected \in Nat /\ db.ord[d].cod \in Nat \ {0}
            BY <2>1, FulfilmentAssumption DEF Banked, FulfilmentInv, FulfilmentTypeOK, Rows, OrderRow, CollectionRow
        <3>2. Allocated(d, V) = Accountable(d)
            BY <2>1, <1>2 DEF FulfilmentInv, RemittedIsVerified
        <3>3. Settled(d)
            <4> SUFFICES ASSUME ~Settled(d) PROVE FALSE
                OBVIOUS
            <4>1. Allocated(d, Remittances) <= 0
                BY DEF FulfilmentInv, NoOverAllocation
            <4>2. Allocated(d, V) \in Nat /\ Allocated(d, V) <= Allocated(d, Remittances)
                BY AllocatedGrows DEF FulfilmentInv, FulfilmentTypeOK
            <4>3. Allocated(d, Remittances) \in Nat
                BY AllocatedGrows DEF FulfilmentInv, FulfilmentTypeOK
            <4>4. Accountable(d) > 0 /\ Accountable(d) \in Nat
                BY <3>1 DEF Accountable, FulfilmentInv, RowsOK
            <4> QED
                BY <3>2, <4>1, <4>2, <4>3, <4>4
        <3> QED
            BY <3>1, <3>2, <3>3, <1>4, MoveCovers
    <2>2. CASE db.col[d].status # "REMITTED"
        <3>1. PICK r \in Remittances :
                Settled(d) /\ Banked(d) /\ VerifiedWith(d, r) = Accountable(d) /\ db'.rem[r].status = "VERIFIED"
            BY <1>1, <1>5, <2>2 DEF CashMove
        <3>2. Allocated(d, {r} \cup V) = Accountable(d)
            BY <3>1, <1>2 DEF VerifiedWith
        <3>3. {r} \cup V \in SUBSET Remittances /\ {r} \cup V \subseteq W
            BY <1>3, <1>4, <3>1
        <3> QED
            BY <3>1, <3>2, <3>3, MoveCovers
    <2> QED
        BY <2>1, <2>2
<1>6. Allocated(d, {r \in Remittances : db.rem[r].status = "VERIFIED"})' = Allocated(d, W)'
    BY <1>3 DEF Allocated
<1> QED
    BY <1>1, <1>5, <1>6 DEF CashMove

\* What the completion of a delivery asks for is a settled collection of the
\* amount the order expects.
LEMMA CashCompletes ==
    ASSUME FulfilmentInv, NEW d \in Deliveries
    PROVE  CashForCompletion(d) = db.ord[d].cod <=>
             /\ db.col[d].status \in {"COLLECTED", "REMITTED"}
             /\ db.col[d].disc \in {"NONE", "RESOLVED"}
             /\ Settled(d) /\ Accountable(d) = db.ord[d].cod
<1>1. db.ord[d].cod \in Nat \ {0} /\ db.col[d].collected \in Nat
    BY FulfilmentAssumption DEF FulfilmentInv, FulfilmentTypeOK, Rows, OrderRow, CollectionRow
<1>2. db.col[d].disc \in {"NONE", "OPEN", "RESOLVED", "WRITTEN_OFF"}
    BY DEF FulfilmentInv, FulfilmentTypeOK, Rows, CollectionRow
<1>3. CASE db.col[d].status \notin {"COLLECTED", "REMITTED"}
    BY <1>1, <1>3 DEF CashForCompletion
<1>4. CASE db.col[d].status \in {"COLLECTED", "REMITTED"} /\ db.col[d].disc = "NONE"
    BY <1>1, <1>4 DEF CashForCompletion, Settled, Accountable, cashDifference
<1>5. CASE db.col[d].status \in {"COLLECTED", "REMITTED"} /\ db.col[d].disc = "RESOLVED"
    BY <1>1, <1>5 DEF CashForCompletion, Settled, Accountable, cashDifference
<1>6. CASE db.col[d].status \in {"COLLECTED", "REMITTED"} /\ db.col[d].disc \in {"OPEN", "WRITTEN_OFF"}
    BY <1>1, <1>6 DEF CashForCompletion
<1> QED
    BY <1>2, <1>3, <1>4, <1>5, <1>6

\* Cash that allows the completion keeps allowing it.
LEMMA CashStays ==
    ASSUME FulfilmentInv, Moves, NEW d \in Deliveries, CashForCompletion(d) = db.ord[d].cod
    PROVE  /\ db'.col[d].status \in {"COLLECTED", "REMITTED"}
           /\ db'.col[d].disc \in {"NONE", "RESOLVED"}
           /\ Settled(d)' /\ Accountable(d)' = db'.ord[d].cod
           /\ CashForCompletion(d)' = db'.ord[d].cod
<1>1. /\ db.col[d].status \in {"COLLECTED", "REMITTED"}
      /\ db.col[d].disc \in {"NONE", "RESOLVED"}
      /\ Settled(d) /\ Accountable(d) = db.ord[d].cod
    BY CashCompletes
<1>2. CashMove(d) /\ Banked(d)
    BY <1>1 DEF Moves, Banked
<1>3. Settled(d)' /\ Accountable(d)' = Accountable(d)
    BY <1>1, <1>2, MoveSettles DEF FulfilmentInv, FulfilmentTypeOK
<1>4. db'.col[d].status \in {"COLLECTED", "REMITTED"} /\ db'.col[d].disc = db.col[d].disc
      /\ db'.ord[d].cod = db.ord[d].cod
    BY <1>1, <1>2 DEF CashMove
<1>5. CashForCompletion(d)' = db'.ord[d].cod
    <2>1. db'.ord[d].cod \in Nat /\ db'.col[d].collected \in Nat
        BY FulfilmentAssumption DEF Moves, Rows, OrderRow, CollectionRow
    <2>2. CASE db'.col[d].disc = "NONE"
        BY <1>1, <1>3, <1>4, <2>1, <2>2 DEF CashForCompletion, Accountable
    <2>3. CASE db'.col[d].disc = "RESOLVED"
        BY <1>1, <1>3, <1>4, <2>1, <2>3 DEF CashForCompletion
    <2> QED
        BY <1>1, <1>4, <2>2, <2>3
<1> QED
    BY <1>1, <1>3, <1>4, <1>5

\* Rows stay consistent.
LEMMA MoveRows ==
    ASSUME FulfilmentInv, Moves
    PROVE  RowsOK' /\ RemittancesOK'
<1>1. RowsOK'
    BY DEF Moves, DeliveryMove, CashMove, RowsOK, Mirrored
<1>2. RemittancesOK'
    <2> SUFFICES ASSUME NEW r \in Remittances
                 PROVE  /\ db'.rem[r].status = "FREE" => \A d \in Deliveries : db'.rem[r].items[d] = 0
                        /\ db'.rem[r].disc = "OPEN" => db'.rem[r].status = "DISCREPANCY"
        BY DEF RemittancesOK
    <2>1. RemittanceMove(r)
        BY DEF Moves
    <2> QED
        BY <2>1 DEF RemittanceMove, FulfilmentInv, RemittancesOK
<1> QED
    BY <1>1, <1>2

\* A delivery is done and paid together.
LEMMA MovePayment ==
    ASSUME FulfilmentInv, Moves
    PROVE  PaymentFollowsDelivery'
<1> SUFFICES ASSUME NEW d \in Deliveries
             PROVE  /\ db'.del[d].status = "DELIVERED" =>
                        /\ db'.col[d].status \in {"COLLECTED", "REMITTED"}
                        /\ Settled(d)' /\ Accountable(d)' = db'.ord[d].cod
                        /\ db'.del[d].age = "PASSED"
                    /\ db'.ord[d].status = "CANCELLED" =>
                        /\ db'.col[d].status = "VOIDED" /\ db'.col[d].collected = 0
                        /\ db'.ord[d].pay = "CANCELLED"
    BY DEF PaymentFollowsDelivery
<1>1. DeliveryMove(d) /\ CashMove(d)
    BY DEF Moves
<1>2. db.del[d].status \in DeliveryStatus /\ db.ord[d].status = db.del[d].status
    BY DEF FulfilmentInv, FulfilmentTypeOK, Rows, DeliveryRow, RowsOK, Mirrored
<1>3. ASSUME db'.del[d].status = "DELIVERED"
      PROVE  /\ db'.col[d].status \in {"COLLECTED", "REMITTED"}
             /\ Settled(d)' /\ Accountable(d)' = db'.ord[d].cod
             /\ db'.del[d].age = "PASSED"
    <2>1. CASE db.del[d].status = "DELIVERED"
        <3>1. db.col[d].status \in {"COLLECTED", "REMITTED"} /\ Settled(d) /\ Accountable(d) = db.ord[d].cod
              /\ db.del[d].age = "PASSED"
            BY <2>1 DEF FulfilmentInv, PaymentFollowsDelivery
        <3>2. ~canTransitionDelivery(db.del[d].status, "DELIVERED")
            BY <2>1 DEF canTransitionDelivery, DELIVERY_TRANSITIONS
        <3>3. db'.del[d].age = "PASSED"
            BY <1>1, <1>3, <2>1, <3>1, <3>2 DEF DeliveryMove
        <3>4. Banked(d) /\ db.col[d].disc # "OPEN"
            BY <3>1 DEF Banked, Settled
        <3>5. Settled(d)' /\ Accountable(d)' = Accountable(d)
            BY <3>1, <3>4, MoveSettles DEF FulfilmentInv, FulfilmentTypeOK
        <3>6. db'.col[d].status \in {"COLLECTED", "REMITTED"} /\ db'.ord[d].cod = db.ord[d].cod
            BY <1>1, <3>1, <3>4 DEF CashMove
        <3> QED
            BY <3>1, <3>3, <3>5, <3>6
    <2>2. CASE db.del[d].status # "DELIVERED"
        <3>1. CashForCompletion(d) = db.ord[d].cod /\ db'.del[d].age = "PASSED"
            BY <1>1, <1>3, <2>2 DEF DeliveryMove
        <3> QED
            BY <3>1, CashStays
    <2> QED
        BY <2>1, <2>2
<1>4. ASSUME db'.del[d].status = "CANCELLED"
      PROVE  /\ db'.col[d].status = "VOIDED" /\ db'.col[d].collected = 0
             /\ db'.ord[d].pay = "CANCELLED"
    <2>1. CASE db.del[d].status = "CANCELLED"
        <3>1. db.col[d].status = "VOIDED" /\ db.col[d].collected = 0 /\ db.ord[d].pay = "CANCELLED"
            BY <1>2, <2>1 DEF FulfilmentInv, PaymentFollowsDelivery
        <3> QED
            BY <1>1, <1>2, <2>1, <3>1 DEF CashMove
    <2>2. CASE db.del[d].status # "CANCELLED"
        <3>1. ~canTransitionDelivery(db.del[d].status, "CANCELLED")
            BY <1>2 DEF canTransitionDelivery, DELIVERY_TRANSITIONS, DeliveryStatus
        <3> QED
            BY <1>1, <1>4, <2>2, <3>1 DEF DeliveryMove
    <2> QED
        BY <2>1, <2>2
<1> QED
    BY <1>1, <1>3, <1>4 DEF DeliveryMove

\* What was handed over stays in the courier's hands.
LEMMA MoveCustody ==
    ASSUME FulfilmentInv, Moves
    PROVE  HandedOverInCustody'
<1> DEFINE Early == EARLY_CANCELLATION_STATUSES \cup {"CANCELLED"}
<1> SUFFICES ASSUME NEW m \in Manifests, db'.man[m].status \in {"HANDED_OVER", "CLOSED"},
                    NEW d \in db'.man[m].items
             PROVE  db'.del[d].courier = db'.man[m].courier /\ db'.del[d].status \notin Early
    BY DEF HandedOverInCustody
<1>1. db'.man[m].items \subseteq Deliveries
    BY DEF Moves, Rows, ManifestRow
<1>2. d \in Deliveries
    BY <1>1
<1>3. DeliveryMove(d) /\ ManifestMove(m)
    BY <1>2 DEF Moves
<1>4. db.del[d].status \in DeliveryStatus
    BY <1>2 DEF FulfilmentInv, FulfilmentTypeOK, Rows, DeliveryRow
<1>5. ASSUME db'.man[m].items = db.man[m].items, db'.man[m].courier = db.man[m].courier,
             db.man[m].status \in {"HANDED_OVER", "CLOSED"}
      PROVE  db'.del[d].courier = db'.man[m].courier /\ db'.del[d].status \notin Early
    <2>1. db.del[d].courier = db.man[m].courier /\ db.del[d].status \notin Early
        BY <1>5 DEF FulfilmentInv, HandedOverInCustody
    <2>2. db'.del[d].courier = db.del[d].courier
        BY <1>3, <2>1 DEF DeliveryMove
    <2>3. canTransitionDelivery(db.del[d].status, db'.del[d].status) => db'.del[d].status \notin Early
        BY <1>4, <2>1 DEF canTransitionDelivery, DELIVERY_TRANSITIONS, DeliveryStatus, EARLY_CANCELLATION_STATUSES
    <2> QED
        BY <1>3, <1>5, <2>1, <2>2, <2>3 DEF DeliveryMove
<1>6. CASE db'.man[m] = db.man[m]
    BY <1>5, <1>6
<1>7. CASE /\ db'.man[m].items = db.man[m].items /\ db'.man[m].courier = db.man[m].courier
           /\ db.man[m].status = "HANDED_OVER"
    BY <1>5, <1>7
<1>8. CASE /\ db'.man[m].items = db.man[m].items /\ db'.man[m].courier = db.man[m].courier
           /\ \A x \in db.man[m].items : /\ db'.del[x].courier = db.man[m].courier
                                         /\ db'.del[x].status = "HANDED_TO_COURIER"
    BY <1>8 DEF EARLY_CANCELLATION_STATUSES
<1> QED
    BY <1>3, <1>6, <1>7, <1>8 DEF ManifestMove

\* Requests on one delivery keep what they know.
LEMMA MoveDeliveryTx ==
    ASSUME FulfilmentInv, Moves, NEW q \in Sessions, tx'[q] # None
    PROVE  DeliveryTxOK(tx[q])'
<1> DEFINE t == tx[q]
           n == tx'[q]
<1>1. Kept(q)
    BY DEF Moves
<1>2. n.op = t.op /\ n.on = t.on /\ n.arg = t.arg /\ n.dels \subseteq t.dels /\ n.ords \subseteq t.ords
    BY <1>1 DEF Kept
<1>3. DeliveryTxOK(t)
    BY <1>1 DEF FulfilmentInv, TxOK, Kept
<1>4. ASSUME t.on \in Deliveries
      PROVE  /\ t.on \in n.dels => db'.del[t.on] = db.del[t.on]
             /\ Known(n, t.on) => Known(t, t.on) /\ db'.del[t.on] = db.del[t.on] /\ db'.ord[t.on] = db.ord[t.on]
    BY <1>1, <1>2, <1>4 DEF Kept, Known
<1>5. t.on \in Deliveries /\ CashForCompletion(t.on) = db.ord[t.on].cod =>
          CashForCompletion(t.on)' = db'.ord[t.on].cod
    <2> SUFFICES ASSUME NEW d \in Deliveries, d = t.on, CashForCompletion(d) = db.ord[d].cod
                 PROVE  CashForCompletion(d)' = db'.ord[d].cod
        BY <1>2 DEF CashForCompletion
    <2> QED
        BY CashStays
<1> QED
    BY <1>2, <1>3, <1>4, <1>5 DEF DeliveryTxOK, Known

\* Requests on several deliveries keep what they know.
LEMMA MoveBatchTx ==
    ASSUME FulfilmentInv, Moves, NEW q \in Sessions, tx'[q] # None
    PROVE  BatchTxOK(tx[q])'
<1> DEFINE t == tx[q]
           n == tx'[q]
<1>1. Kept(q)
    BY DEF Moves
<1>2. n.op = t.op /\ n.on = t.on /\ n.arg = t.arg /\ n.dels \subseteq t.dels /\ n.ords \subseteq t.ords
    BY <1>1 DEF Kept
<1>3. BatchTxOK(t)
    BY <1>1 DEF FulfilmentInv, TxOK, Kept
<1>4. \A d \in Deliveries :
          /\ d \in n.dels => d \in t.dels /\ db'.del[d] = db.del[d]
          /\ Known(n, d) => Known(t, d) /\ db'.del[d] = db.del[d]
    BY <1>1, <1>2 DEF Kept, Known
<1>5. t.op = "transitionManifest" => t.on \in Manifests /\ db'.man[t.on] = db.man[t.on]
                                     /\ db.man[t.on].items \subseteq Deliveries
    BY <1>1, <1>3 DEF Kept, BatchTxOK, FulfilmentInv, FulfilmentTypeOK, Rows, ManifestRow
<1> QED
    BY <1>2, <1>3, <1>4, <1>5 DEF BatchTxOK, Known

\* Requests about cash keep what they know.
LEMMA MoveCashTx ==
    ASSUME FulfilmentInv, Moves, NEW q \in Sessions, tx'[q] # None
    PROVE  CashTxOK(tx[q])'
<1> DEFINE t == tx[q]
           n == tx'[q]
<1>1. Kept(q)
    BY DEF Moves
<1>2. n.op = t.op /\ n.on = t.on /\ n.arg = t.arg /\ n.ords \subseteq t.ords
    BY <1>1 DEF Kept
<1>3. CashTxOK(t)
    BY <1>1 DEF FulfilmentInv, TxOK, Kept
<1>4. \A d \in Deliveries : Settled(d) /\ Banked(d) =>
          Settled(d)' /\ Banked(d)' /\ Accountable(d)' = Accountable(d)
    BY MoveSettles DEF FulfilmentInv, FulfilmentTypeOK
<1>5. \A d \in Deliveries : db'.ord[d].cod = db.ord[d].cod
    BY DEF Moves, CashMove
<1>6. ASSUME t.op \in {"reconcileRemittance", "resolveRemittance"}
      PROVE  ViewOK(tx[q])'
    <2>1. t.on \in Remittances /\ ViewOK(t)
        BY <1>3, <1>6 DEF CashTxOK
    <2>2. PICK r \in Remittances : r = t.on /\ r = n.on
        BY <1>2, <2>1
    <2>3. PICK v : v = t.arg.view /\ v = n.arg.view
        BY <1>2
    <2>4. v.covered \in SUBSET Deliveries
        BY <2>1, <2>3 DEF ViewOK
    <2>5. \A d \in v.covered : Settled(d) /\ Banked(d) /\ VerifiedWith(d, r) = Accountable(d)
        BY <2>1, <2>2, <2>3 DEF ViewOK
    <2>6. ASSUME NEW d \in v.covered
          PROVE  Settled(d)' /\ Banked(d)' /\ VerifiedWith(d, r)' = Accountable(d)' /\ Accountable(d)' = Accountable(d)
        <3>1. PICK V \in SUBSET Remittances : V = {r} \cup {x \in Remittances : db.rem[x].status = "VERIFIED"}
            OBVIOUS
        <3>2. PICK W \in SUBSET Remittances : W = {r} \cup {x \in Remittances : db'.rem[x].status = "VERIFIED"}
            OBVIOUS
        <3>3. V \subseteq W
            BY <3>1, <3>2 DEF Moves, RemittanceMove
        <3>4. Allocated(d, V) = Accountable(d) /\ Settled(d) /\ Banked(d) /\ d \in Deliveries
            BY <2>4, <2>5, <3>1 DEF VerifiedWith
        <3>5. Settled(d)' /\ Banked(d)' /\ Allocated(d, W)' = Accountable(d)' /\ Accountable(d)' = Accountable(d)
            BY <3>3, <3>4, MoveCovers
        <3> QED
            BY <3>2, <3>5 DEF VerifiedWith, Allocated
    <2>7. v.paid = {d \in v.covered : Accountable(d) = db.ord[d].cod}
        BY <2>1, <2>3 DEF ViewOK
    <2>8. v.paid = {d \in v.covered : Accountable(d)' = db'.ord[d].cod}
        BY <1>5, <2>4, <2>6, <2>7
    <2> QED
        BY <2>2, <2>3, <2>4, <2>6, <2>8 DEF ViewOK
<1>7. t.op = "reconcileRemittance" => t.on \in Remittances /\ db'.rem[t.on] = db.rem[t.on]
    BY <1>1, <1>3 DEF Kept, CashTxOK
<1>8. \A d \in Deliveries : d \in n.ords => d \in t.ords /\ db'.ord[d] = db.ord[d]
    BY <1>1, <1>2 DEF Kept
<1> QED
    BY <1>2, <1>3, <1>4, <1>6, <1>7, <1>8 DEF CashTxOK

\* A move keeps the invariant.
LEMMA MoveKeeps ==
    ASSUME FulfilmentInv, Moves
    PROVE  FulfilmentInv'
<1>1. FulfilmentTypeOK' /\ DOMAIN tx' = Sessions
    BY DEF Moves, FulfilmentTypeOK
<1>2. LocksExclusive'
    <2> SUFFICES ASSUME NEW s \in Sessions, NEW q \in Sessions,
                        NEW op \in {"transitionManifest", "reconcileRemittance"},
                        Working(s, op)', Working(q, op)', tx'[s].on = tx'[q].on
                 PROVE  s = q
        BY DEF LocksExclusive
    <2>1. Kept(s) /\ Kept(q)
        BY DEF Working, Moves
    <2>2. Working(s, op) /\ Working(q, op) /\ tx[s].on = tx[q].on
        BY <2>1 DEF Kept, Working
    <2> QED
        BY <2>2 DEF FulfilmentInv, LocksExclusive
<1>3. TxOK'
    <2> SUFFICES ASSUME NEW q \in Sessions, tx'[q] # None
                 PROVE  DeliveryTxOK(tx[q])' /\ BatchTxOK(tx[q])' /\ CashTxOK(tx[q])'
        BY DEF TxOK
    <2> QED
        BY MoveDeliveryTx, MoveBatchTx, MoveCashTx
<1>4. NoOverAllocation'
    BY MoveNoOverAllocation DEF FulfilmentInv, FulfilmentTypeOK
<1> QED
    BY <1>1, <1>2, <1>3, <1>4, MoveRows, MoveCustody, MovePayment, MoveRemitted DEF FulfilmentInv

-----------------------------------------------------------------------------
(* What the handlers' updates have in common *)

\* New versions reach the other requests.
LEMMA IncrementKept ==
    ASSUME NEW s, NEW D, NEW O, Increment(s, D, O),
           \A d \in Deliveries \ D : db'.del[d] = db.del[d],
           \A d \in Deliveries \ O : db'.ord[d] = db.ord[d],
           \A q \in Sessions \ {s} : Working(q, "transitionManifest") => db'.man[tx[q].on] = db.man[tx[q].on],
           \A q \in Sessions \ {s} : Working(q, "reconcileRemittance") => db'.rem[tx[q].on] = db.rem[tx[q].on]
    PROVE  DOMAIN tx' = Sessions /\ \A q \in Sessions : tx'[q] # None => Kept(q)
<1>1. DOMAIN tx' = Sessions
    BY DEF Increment
<1>2. ASSUME NEW q \in Sessions, tx'[q] # None
      PROVE  Kept(q)
    <2>1. q # s /\ tx[q] # None
          /\ tx'[q] = Request(tx[q].op, tx[q].on, tx[q].arg, tx[q].dels \ D, tx[q].ords \ O)
        BY <1>2 DEF Increment
    <2>2. /\ tx'[q].op = tx[q].op /\ tx'[q].on = tx[q].on /\ tx'[q].arg = tx[q].arg
          /\ tx'[q].dels = tx[q].dels \ D /\ tx'[q].ords = tx[q].ords \ O
        BY <2>1 DEF Request
    <2>3. Working(q, tx[q].op)
        BY <2>1 DEF Working
    <2> QED
        BY <2>1, <2>2, <2>3 DEF Kept, Working
<1> QED
    BY <1>1, <1>2

\* Cash that a step leaves alone.
LEMMA CashSame ==
    ASSUME FulfilmentInv, NEW d \in Deliveries, db'.col[d] = db.col[d],
           db'.ord[d].cod = db.ord[d].cod, db'.ord[d].pay = db.ord[d].pay
    PROVE  CashMove(d)
<1>1. Accountable(d)' = Accountable(d) /\ (Banked(d)' <=> Banked(d))
    BY DEF Accountable, Banked
<1>2. /\ Banked(d) => db.col[d].collected > 0
      /\ ~Banked(d) => db.col[d].collected = 0 /\ db.col[d].disc = "NONE"
      /\ db.ord[d].pay = "CASH_REMITTED" <=>
           db.col[d].status = "REMITTED" /\ Accountable(d) = db.ord[d].cod
    BY DEF FulfilmentInv, RowsOK, RemittedIsVerified
<1> QED
    BY <1>1, <1>2 DEF CashMove

\* A step that leaves the cash alone.
LEMMA CashQuiet ==
    ASSUME FulfilmentInv, db'.col = db.col, db'.rem = db.rem,
           \A d \in Deliveries : db'.ord[d].cod = db.ord[d].cod /\ db'.ord[d].pay = db.ord[d].pay
    PROVE  /\ \A d \in Deliveries : CashMove(d)
           /\ \A r \in Remittances : RemittanceMove(r)
           /\ AllocationMove
<1>1. \A d \in Deliveries : CashMove(d)
    BY CashSame
<1>2. \A r \in Remittances : RemittanceMove(r)
    BY DEF RemittanceMove, FulfilmentInv, RemittancesOK
<1> QED
    BY <1>1, <1>2 DEF AllocationMove

\* A step that leaves the deliveries and the manifests alone.
LEMMA DeliveryQuiet ==
    ASSUME FulfilmentInv, db'.del = db.del, db'.man = db.man,
           \A d \in Deliveries : db'.ord[d].status = db.ord[d].status
    PROVE  (\A d \in Deliveries : DeliveryMove(d)) /\ (\A m \in Manifests : ManifestMove(m))
BY DEF DeliveryMove, ManifestMove, FulfilmentInv, RowsOK, Mirrored

\* A handler that updates the delivery it has read.
LEMMA UpdateDeliveryMoves ==
    ASSUME FulfilmentInv, NEW s \in Sessions, NEW row \in DeliveryRow, UpdateDelivery(s, row),
           tx[s].on \in Deliveries, row.status = db.del[tx[s].on].status, row.age = db.del[tx[s].on].age,
           row.courier # db.del[tx[s].on].courier => db.del[tx[s].on].status \in EARLY_CANCELLATION_STATUSES
    PROVE  Moves
<1>1. PICK d \in Deliveries : d = tx[s].on
    OBVIOUS
<1>2. db' = [db EXCEPT !.del[d] = row] /\ Increment(s, {d}, {})
    BY <1>1 DEF UpdateDelivery
<1>3. db \in Rows
    BY DEF FulfilmentInv, FulfilmentTypeOK
<1>4. /\ db'.del = [db.del EXCEPT ![d] = row]
      /\ db'.ord = db.ord /\ db'.col = db.col /\ db'.rem = db.rem /\ db'.man = db.man
    BY <1>2, <1>3 DEF Rows
<1>5. db' \in Rows
    BY <1>2, <1>3 DEF Rows
<1>6. db'.del[d] = row /\ \A x \in Deliveries \ {d} : db'.del[x] = db.del[x]
    BY <1>3, <1>4 DEF Rows
<1>7. DOMAIN tx' = Sessions /\ \A q \in Sessions : tx'[q] # None => Kept(q)
    BY <1>2, <1>4, <1>6, IncrementKept
<1>8. \A x \in Deliveries : DeliveryMove(x)
    BY <1>1, <1>4, <1>6 DEF DeliveryMove, FulfilmentInv, RowsOK, Mirrored
<1>9. \A m \in Manifests : ManifestMove(m)
    BY <1>4 DEF ManifestMove
<1> QED
    BY <1>4, <1>5, <1>7, <1>8, <1>9, CashQuiet DEF Moves

\* updateMirroredStatus moves a delivery along the transition table.
LEMMA UpdateMirroredMoves ==
    ASSUME FulfilmentInv, NEW s \in Sessions, NEW target \in DeliveryStatus,
           NEW age \in {"NOT_PERFORMED", "PASSED", "FAILED"}, UpdateMirroredStatus(s, target, age),
           tx[s].on \in Deliveries, canTransitionDelivery(db.del[tx[s].on].status, target),
           target = "DELIVERED" => CashForCompletion(tx[s].on) = db.ord[tx[s].on].cod /\ age = "PASSED"
    PROVE  Moves
<1>1. PICK d \in Deliveries : d = tx[s].on
    OBVIOUS
<1> DEFINE D == [db.del[d] EXCEPT !.status = target, !.age = age]
           O == [db.ord[d] EXCEPT !.status = target]
<1>2. db' = [db EXCEPT !.del[d] = D, !.ord[d] = O] /\ Increment(s, {d}, {d})
    BY <1>1 DEF UpdateMirroredStatus
<1>3. db \in Rows
    BY DEF FulfilmentInv, FulfilmentTypeOK
<1>4. /\ D \in DeliveryRow /\ O \in OrderRow
      /\ D.status = target /\ D.age = age /\ D.courier = db.del[d].courier
      /\ O.status = target /\ O.pay = db.ord[d].pay /\ O.cod = db.ord[d].cod
    <2>1. db.del[d] \in DeliveryRow /\ db.ord[d] \in OrderRow
        BY <1>3 DEF Rows
    <2>2. D \in DeliveryRow /\ D.status = target /\ D.age = age /\ D.courier = db.del[d].courier
        BY <2>1 DEF DeliveryRow
    <2>3. O \in OrderRow /\ O.status = target /\ O.pay = db.ord[d].pay /\ O.cod = db.ord[d].cod
        BY <2>1 DEF OrderRow
    <2> QED
        BY <2>2, <2>3
<1> HIDE DEF D, O
<1>5. /\ db'.del = [db.del EXCEPT ![d] = D] /\ db'.ord = [db.ord EXCEPT ![d] = O]
      /\ db'.col = db.col /\ db'.rem = db.rem /\ db'.man = db.man
    BY <1>2, <1>3 DEF Rows
<1>6. db' \in Rows
    BY <1>2, <1>3, <1>4 DEF Rows
<1>7. /\ db'.del[d] = D /\ \A x \in Deliveries \ {d} : db'.del[x] = db.del[x]
      /\ db'.ord[d] = O /\ \A x \in Deliveries \ {d} : db'.ord[x] = db.ord[x]
    BY <1>3, <1>5 DEF Rows
<1>8. DOMAIN tx' = Sessions /\ \A q \in Sessions : tx'[q] # None => Kept(q)
    BY <1>2, <1>5, <1>7, IncrementKept
<1>9. \A x \in Deliveries : DeliveryMove(x)
    BY <1>1, <1>4, <1>7 DEF DeliveryMove, FulfilmentInv, RowsOK, Mirrored
<1>10. \A m \in Manifests : ManifestMove(m)
    BY <1>5 DEF ManifestMove
<1>11. \A x \in Deliveries : db'.ord[x].cod = db.ord[x].cod /\ db'.ord[x].pay = db.ord[x].pay
    BY <1>4, <1>7
<1> QED
    BY <1>5, <1>6, <1>8, <1>9, <1>10, <1>11, CashQuiet DEF Moves

\* The rows after several deliveries have moved with their orders.
LEMMA MirrorRows ==
    ASSUME db \in Rows, NEW target, DOMAIN target \subseteq Deliveries,
           \A d \in DOMAIN target : target[d] \in DeliveryStatus
    PROVE  LET n == Mirror(db, target) IN
           /\ n \in Rows
           /\ n.col = db.col /\ n.rem = db.rem /\ n.man = db.man /\ n.cour = db.cour /\ n.imports = db.imports
           /\ \A d \in Deliveries \ DOMAIN target : n.del[d] = db.del[d] /\ n.ord[d] = db.ord[d]
           /\ \A d \in DOMAIN target :
                 /\ n.del[d].status = target[d] /\ n.ord[d].status = target[d]
                 /\ n.del[d].courier = db.del[d].courier /\ n.del[d].age = db.del[d].age
                 /\ n.ord[d].pay = db.ord[d].pay /\ n.ord[d].cod = db.ord[d].cod
<1> DEFINE D == [d \in Deliveries |-> IF d \in DOMAIN target
                   THEN [db.del[d] EXCEPT !.status = target[d]] ELSE db.del[d]]
           O == [d \in Deliveries |-> IF d \in DOMAIN target
                   THEN [db.ord[d] EXCEPT !.status = target[d]] ELSE db.ord[d]]
           n == Mirror(db, target)
<1>1. n = [db EXCEPT !.del = D, !.ord = O]
    BY DEF Mirror
<1>2. ASSUME NEW d \in DOMAIN target
      PROVE  /\ [db.del[d] EXCEPT !.status = target[d]] \in DeliveryRow
             /\ [db.ord[d] EXCEPT !.status = target[d]] \in OrderRow
             /\ D[d] = [db.del[d] EXCEPT !.status = target[d]]
             /\ O[d] = [db.ord[d] EXCEPT !.status = target[d]]
    <2>1. db.del[d] \in DeliveryRow /\ db.ord[d] \in OrderRow
        BY DEF Rows
    <2>2. [db.del[d] EXCEPT !.status = target[d]] \in DeliveryRow
        BY <2>1 DEF DeliveryRow
    <2>3. [db.ord[d] EXCEPT !.status = target[d]] \in OrderRow
        BY <2>1 DEF OrderRow
    <2> QED
        BY <2>2, <2>3
<1>3. ASSUME NEW d \in DOMAIN target
      PROVE  /\ D[d].status = target[d] /\ O[d].status = target[d]
             /\ D[d].courier = db.del[d].courier /\ D[d].age = db.del[d].age
             /\ O[d].pay = db.ord[d].pay /\ O[d].cod = db.ord[d].cod
    <2>1. db.del[d] \in DeliveryRow /\ db.ord[d] \in OrderRow
        BY DEF Rows
    <2> HIDE DEF D, O
    <2> QED
        BY <1>2, <2>1 DEF DeliveryRow, OrderRow
<1>4. \A d \in Deliveries \ DOMAIN target : D[d] = db.del[d] /\ O[d] = db.ord[d]
    OBVIOUS
<1>5. D \in [Deliveries -> DeliveryRow] /\ O \in [Deliveries -> OrderRow]
    BY <1>2 DEF Rows
<1> HIDE DEF D, O
<1>6. /\ n \in Rows /\ n.del = D /\ n.ord = O
      /\ n.col = db.col /\ n.rem = db.rem /\ n.man = db.man /\ n.cour = db.cour /\ n.imports = db.imports
    BY <1>1, <1>5 DEF Rows
<1> HIDE DEF n
<1>7. /\ n \in Rows
      /\ n.col = db.col /\ n.rem = db.rem /\ n.man = db.man /\ n.cour = db.cour /\ n.imports = db.imports
      /\ \A d \in Deliveries \ DOMAIN target : n.del[d] = db.del[d] /\ n.ord[d] = db.ord[d]
      /\ \A d \in DOMAIN target :
            /\ n.del[d].status = target[d] /\ n.ord[d].status = target[d]
            /\ n.del[d].courier = db.del[d].courier /\ n.del[d].age = db.del[d].age
            /\ n.ord[d].pay = db.ord[d].pay /\ n.ord[d].cod = db.ord[d].cod
    BY <1>3, <1>4, <1>6
<1> QED
    BY <1>7 DEF n

-----------------------------------------------------------------------------
(* Every handler moves *)

\* The request that commits knows what its transaction has read.
LEMMA OwnRequest ==
    ASSUME FulfilmentInv, NEW s \in Sessions, NEW op, Working(s, op)
    PROVE  tx[s].op = op /\ DeliveryTxOK(tx[s]) /\ BatchTxOK(tx[s]) /\ CashTxOK(tx[s])
BY DEF Working, FulfilmentInv, TxOK

\* assign and reassign
LEMMA AssignmentMoves ==
    ASSUME FulfilmentInv, NEW s \in Sessions, AssignmentCommit(s)
    PROVE  Moves
<1> DEFINE row == [db.del[tx[s].on] EXCEPT !.courier = tx[s].arg]
<1>1. tx[s].op = "assignment" /\ DeliveryTxOK(tx[s])
    BY OwnRequest DEF AssignmentCommit
<1>2. /\ tx[s].on \in Deliveries /\ tx[s].arg \in Couriers
      /\ UpdateDelivery(s, row) /\ tx[s].on \in tx[s].dels
    BY <1>1 DEF DeliveryTxOK, AssignmentCommit, UpdateDelivery, SameDelivery
<1>3. db.del[tx[s].on].status \in EARLY_CANCELLATION_STATUSES
    BY <1>1, <1>2 DEF DeliveryTxOK
<1>4. db.del[tx[s].on] \in DeliveryRow
    BY <1>2 DEF FulfilmentInv, FulfilmentTypeOK, Rows
<1>5. row \in DeliveryRow /\ row.status = db.del[tx[s].on].status /\ row.age = db.del[tx[s].on].age
    BY <1>2, <1>4 DEF DeliveryRow
<1> HIDE DEF row
<1> QED
    BY <1>2, <1>3, <1>5, UpdateDeliveryMoves

\* unassign
LEMMA UnassignMoves ==
    ASSUME FulfilmentInv, NEW s \in Sessions, UnassignCommit(s)
    PROVE  Moves
<1> DEFINE row == [db.del[tx[s].on] EXCEPT !.courier = None]
<1>1. tx[s].op = "unassign" /\ DeliveryTxOK(tx[s])
    BY OwnRequest DEF UnassignCommit
<1>2. tx[s].on \in Deliveries /\ UpdateDelivery(s, row) /\ tx[s].on \in tx[s].dels
    BY <1>1 DEF DeliveryTxOK, UnassignCommit, UpdateDelivery, SameDelivery
<1>3. db.del[tx[s].on].status \in EARLY_CANCELLATION_STATUSES
    BY <1>1, <1>2 DEF DeliveryTxOK
<1>4. db.del[tx[s].on] \in DeliveryRow
    BY <1>2 DEF FulfilmentInv, FulfilmentTypeOK, Rows
<1>5. row \in DeliveryRow /\ row.status = db.del[tx[s].on].status /\ row.age = db.del[tx[s].on].age
    BY <1>4 DEF DeliveryRow
<1> HIDE DEF row
<1> QED
    BY <1>2, <1>3, <1>5, UpdateDeliveryMoves

\* updateInternalNotes and recordCourierWhatsAppContact
LEMMA AnnotateMoves ==
    ASSUME FulfilmentInv, NEW s \in Sessions, AnnotateCommit(s)
    PROVE  Moves
<1>1. tx[s].op = "annotate" /\ DeliveryTxOK(tx[s])
    BY OwnRequest DEF AnnotateCommit
<1>2. tx[s].on \in Deliveries /\ UpdateDelivery(s, db.del[tx[s].on])
    BY <1>1 DEF DeliveryTxOK, AnnotateCommit
<1>3. db.del[tx[s].on] \in DeliveryRow
    BY <1>2 DEF FulfilmentInv, FulfilmentTypeOK, Rows
<1> QED
    BY <1>2, <1>3, UpdateDeliveryMoves

\* transition, recordAttempt, complete and completeReturn
LEMMA StatusMoves ==
    ASSUME FulfilmentInv, NEW s \in Sessions,
           TransitionCommit(s) \/ RecordAttemptCommit(s) \/ CompleteCommit(s) \/ CompleteReturnCommit(s)
    PROVE  Moves
<1>1. ASSUME NEW target, NEW age, UpdateMirroredStatus(s, target, age), tx[s].on \in Deliveries
      PROVE  Known(tx[s], tx[s].on)
    BY <1>1 DEF UpdateMirroredStatus, SameDelivery, SameOrder, Known
<1>2. \A d \in Deliveries : db.del[d].age \in {"NOT_PERFORMED", "PASSED", "FAILED"} /\ db.del[d].status \in DeliveryStatus
    BY DEF FulfilmentInv, FulfilmentTypeOK, Rows, DeliveryRow
<1>3. OPERATIONAL_DELIVERY_TARGETS \subseteq DeliveryStatus \ {"DELIVERED"}
    BY DEF OPERATIONAL_DELIVERY_TARGETS, DeliveryStatus, DELIVERY_TRANSITIONS
<1>4. {"DELIVERY_ATTEMPTED", "FAILED", "REFUSED", "RESCHEDULED", "DELIVERED", "RETURNED"} \subseteq DeliveryStatus
    BY DEF DeliveryStatus, DELIVERY_TRANSITIONS
<1>5. CASE TransitionCommit(s)
    <2>1. tx[s].op = "transition" /\ DeliveryTxOK(tx[s])
        BY <1>5, OwnRequest DEF TransitionCommit
    <2>2. /\ tx[s].on \in Deliveries /\ tx[s].arg \in OPERATIONAL_DELIVERY_TARGETS
          /\ UpdateMirroredStatus(s, tx[s].arg, db.del[tx[s].on].age)
        BY <1>5, <2>1 DEF DeliveryTxOK, TransitionCommit
    <2>3. canTransitionDelivery(db.del[tx[s].on].status, tx[s].arg)
        BY <2>1, <2>2, <1>1 DEF DeliveryTxOK
    <2>4. tx[s].arg \in DeliveryStatus /\ tx[s].arg # "DELIVERED"
        BY <2>2, <1>3
    <2> QED
        BY <1>2, <2>2, <2>3, <2>4, UpdateMirroredMoves
<1>6. CASE RecordAttemptCommit(s)
    <2>1. tx[s].op = "recordAttempt" /\ DeliveryTxOK(tx[s])
        BY <1>6, OwnRequest DEF RecordAttemptCommit
    <2>2. /\ tx[s].on \in Deliveries /\ tx[s].arg.to \in {"DELIVERY_ATTEMPTED", "FAILED", "REFUSED", "RESCHEDULED"}
          /\ tx[s].arg.age \in {"NOT_PERFORMED", "PASSED", "FAILED"}
          /\ UpdateMirroredStatus(s, tx[s].arg.to, tx[s].arg.age)
        BY <1>6, <2>1 DEF DeliveryTxOK, RecordAttemptCommit
    <2>3. canTransitionDelivery(db.del[tx[s].on].status, tx[s].arg.to)
        BY <2>1, <2>2, <1>1 DEF DeliveryTxOK
    <2>4. tx[s].arg.to \in DeliveryStatus /\ tx[s].arg.to # "DELIVERED"
        BY <2>2, <1>4
    <2> QED
        BY <2>2, <2>3, <2>4, UpdateMirroredMoves
<1>7. CASE CompleteCommit(s)
    <2>1. tx[s].op = "complete" /\ DeliveryTxOK(tx[s])
        BY <1>7, OwnRequest DEF CompleteCommit
    <2>2. tx[s].on \in Deliveries /\ tx[s].arg = "PASSED" /\ UpdateMirroredStatus(s, "DELIVERED", "PASSED")
        BY <1>7, <2>1 DEF DeliveryTxOK, CompleteCommit
    <2>3. /\ db.del[tx[s].on].status \in {"READY_FOR_PICKUP", "OUT_FOR_DELIVERY"}
          /\ CashForCompletion(tx[s].on) = db.ord[tx[s].on].cod
        BY <2>1, <2>2, <1>1 DEF DeliveryTxOK
    <2>4. canTransitionDelivery(db.del[tx[s].on].status, "DELIVERED")
        BY <2>3 DEF canTransitionDelivery, DELIVERY_TRANSITIONS
    <2> QED
        BY <1>4, <2>2, <2>3, <2>4, UpdateMirroredMoves
<1>8. CASE CompleteReturnCommit(s)
    <2>1. tx[s].op = "completeReturn" /\ DeliveryTxOK(tx[s])
        BY <1>8, OwnRequest DEF CompleteReturnCommit
    <2>2. tx[s].on \in Deliveries /\ UpdateMirroredStatus(s, "RETURNED", db.del[tx[s].on].age)
        BY <1>8, <2>1 DEF DeliveryTxOK, CompleteReturnCommit
    <2>3. db.del[tx[s].on].status = "RETURN_TO_SENDER"
        BY <2>1, <2>2, <1>1 DEF DeliveryTxOK
    <2>4. canTransitionDelivery(db.del[tx[s].on].status, "RETURNED")
        BY <2>3 DEF canTransitionDelivery, DELIVERY_TRANSITIONS
    <2> QED
        BY <1>2, <1>4, <2>2, <2>4, UpdateMirroredMoves
<1> QED
    BY <1>5, <1>6, <1>7, <1>8

\* transitionIntake: prepare, and ready for pickup
LEMMA OrderMoves ==
    ASSUME FulfilmentInv, NEW d \in Deliveries, PrepareOrder(d) \/ ReadyForPickup(d)
    PROVE  Moves
<1>1. ASSUME NEW to \in DeliveryStatus, to # "DELIVERED", canTransitionDelivery(db.del[d].status, to),
             db' = Mirror(db, [x \in {d} |-> to]), Increment(None, {d}, {d})
      PROVE  Moves
    <2> DEFINE T == [x \in {d} |-> to]
    <2>1. DOMAIN T = {d} /\ T[d] = to
        OBVIOUS
    <2>2. db \in Rows
        BY DEF FulfilmentInv, FulfilmentTypeOK
    <2>3. DOMAIN T \subseteq Deliveries /\ \A x \in DOMAIN T : T[x] \in DeliveryStatus
        BY <2>1
    <2> HIDE DEF T
    <2>4. db' = Mirror(db, T)
        BY <1>1 DEF T
    <2>5. /\ db' \in Rows
          /\ db'.col = db.col /\ db'.rem = db.rem /\ db'.man = db.man
          /\ \A x \in Deliveries \ {d} : db'.del[x] = db.del[x] /\ db'.ord[x] = db.ord[x]
          /\ db'.del[d].status = to /\ db'.ord[d].status = to
          /\ db'.del[d].courier = db.del[d].courier /\ db'.del[d].age = db.del[d].age
          /\ db'.ord[d].pay = db.ord[d].pay /\ db'.ord[d].cod = db.ord[d].cod
        BY <2>1, <2>2, <2>3, <2>4, MirrorRows
    <2>6. DOMAIN tx' = Sessions /\ \A q \in Sessions : tx'[q] # None => Kept(q)
        BY <1>1, <2>5, IncrementKept
    <2>7. \A x \in Deliveries : DeliveryMove(x)
        BY <1>1, <2>5 DEF DeliveryMove, FulfilmentInv, RowsOK, Mirrored
    <2>8. \A m \in Manifests : ManifestMove(m)
        BY <2>5 DEF ManifestMove
    <2>9. \A x \in Deliveries : db'.ord[x].cod = db.ord[x].cod /\ db'.ord[x].pay = db.ord[x].pay
        BY <2>5
    <2> QED
        BY <2>5, <2>6, <2>7, <2>8, <2>9, CashQuiet DEF Moves
<1>2. "PREPARING" \in DeliveryStatus /\ "READY_FOR_PICKUP" \in DeliveryStatus
    BY DEF DeliveryStatus, DELIVERY_TRANSITIONS
<1>3. CASE PrepareOrder(d)
    <2>1. canTransitionDelivery(db.del[d].status, "PREPARING")
        BY <1>3 DEF PrepareOrder, Mirrored, canTransitionDelivery, DELIVERY_TRANSITIONS
    <2> QED
        BY <1>1, <1>2, <1>3, <2>1 DEF PrepareOrder
<1>4. CASE ReadyForPickup(d)
    <2>1. canTransitionDelivery(db.del[d].status, "READY_FOR_PICKUP")
        BY <1>4 DEF ReadyForPickup, Mirrored, canTransitionDelivery, DELIVERY_TRANSITIONS
    <2> QED
        BY <1>1, <1>2, <1>4, <2>1 DEF ReadyForPickup
<1> QED
    BY <1>3, <1>4

\* terminate: a cancelled order expects no cash.
LEMMA CancelMoves ==
    ASSUME FulfilmentInv, NEW d \in Deliveries, CancelOrder(d)
    PROVE  Moves
<1> DEFINE D == [db.del[d] EXCEPT !.status = "CANCELLED"]
           O == [db.ord[d] EXCEPT !.status = "CANCELLED", !.pay = "CANCELLED"]
           C == [db.col[d] EXCEPT !.status =
                    IF db.col[d].status = "EXPECTED" THEN "VOIDED" ELSE db.col[d].status]
<1>1. db \in Rows
    BY DEF FulfilmentInv, FulfilmentTypeOK
<1>2. db.del[d] \in DeliveryRow /\ db.ord[d] \in OrderRow /\ db.col[d] \in CollectionRow
    BY <1>1 DEF Rows
<1>3. "CANCELLED" \in DeliveryStatus
    BY DEF DeliveryStatus, DELIVERY_TRANSITIONS
<1>4. D \in DeliveryRow /\ D.status = "CANCELLED" /\ D.courier = db.del[d].courier
    BY <1>2, <1>3 DEF DeliveryRow
<1>5. O \in OrderRow /\ O.status = "CANCELLED" /\ O.pay = "CANCELLED" /\ O.cod = db.ord[d].cod
    BY <1>2, <1>3 DEF OrderRow, PaymentStatus
<1>6. C \in CollectionRow /\ C.status = "VOIDED" /\ C.collected = db.col[d].collected /\ C.disc = db.col[d].disc
    BY <1>2 DEF CollectionRow, CancelOrder
<1>7. db' = [db EXCEPT !.del[d] = D, !.ord[d] = O, !.col[d] = C] /\ Increment(None, {d}, {d})
    BY DEF CancelOrder
<1> HIDE DEF D, O, C
<1>8. /\ db' \in Rows
      /\ db'.del = [db.del EXCEPT ![d] = D] /\ db'.ord = [db.ord EXCEPT ![d] = O]
      /\ db'.col = [db.col EXCEPT ![d] = C] /\ db'.rem = db.rem /\ db'.man = db.man
    BY <1>1, <1>4, <1>5, <1>6, <1>7 DEF Rows
<1>9. /\ db'.del[d] = D /\ \A x \in Deliveries \ {d} : db'.del[x] = db.del[x]
      /\ db'.ord[d] = O /\ \A x \in Deliveries \ {d} : db'.ord[x] = db.ord[x]
      /\ db'.col[d] = C /\ \A x \in Deliveries \ {d} : db'.col[x] = db.col[x]
    BY <1>1, <1>8 DEF Rows
<1>10. DOMAIN tx' = Sessions /\ \A q \in Sessions : tx'[q] # None => Kept(q)
    BY <1>7, <1>8, <1>9, IncrementKept
<1>11. ~Banked(d) /\ db.col[d].collected = 0 /\ db.col[d].disc = "NONE" /\ ~Banked(d)'
    BY <1>6, <1>9 DEF CancelOrder, Banked, FulfilmentInv, RowsOK
<1>12. db.del[d].status \in EARLY_CANCELLATION_STATUSES /\ db.ord[d].status # "CANCELLED"
    BY DEF CancelOrder, Mirrored, EARLY_CANCELLATION_STATUSES
<1>13. \A x \in Deliveries : DeliveryMove(x)
    BY <1>4, <1>5, <1>6, <1>9, <1>11, <1>12 DEF DeliveryMove, FulfilmentInv, RowsOK, Mirrored
<1>14. \A m \in Manifests : ManifestMove(m)
    BY <1>8 DEF ManifestMove
<1>15. CashMove(d)
    BY <1>5, <1>6, <1>9, <1>11, <1>12 DEF CashMove
<1>16. \A x \in Deliveries \ {d} : CashMove(x)
    BY <1>9, CashSame
<1>17. \A r \in Remittances : RemittanceMove(r)
    BY <1>8 DEF RemittanceMove, FulfilmentInv, RemittancesOK
<1>18. AllocationMove
    BY <1>8 DEF AllocationMove
<1> QED
    BY <1>8, <1>10, <1>13, <1>14, <1>15, <1>16, <1>17, <1>18 DEF Moves

\* updateManualCourier
LEMMA CourierMoves ==
    ASSUME FulfilmentInv, NEW c \in Couriers, NEW to \in CourierRow, UpdateManualCourier(c, to)
    PROVE  Moves
<1>1. db \in Rows
    BY DEF FulfilmentInv, FulfilmentTypeOK
<1>2. db' = [db EXCEPT !.cour[c] = to] /\ tx' = tx
    BY DEF UpdateManualCourier
<1>3. /\ db' \in Rows
      /\ db'.del = db.del /\ db'.ord = db.ord /\ db'.col = db.col /\ db'.rem = db.rem /\ db'.man = db.man
    BY <1>1, <1>2 DEF Rows
<1>4. DOMAIN tx' = Sessions /\ \A q \in Sessions : tx'[q] # None => Kept(q)
    BY <1>2, <1>3 DEF Kept, FulfilmentInv
<1> QED
    BY <1>3, <1>4, CashQuiet, DeliveryQuiet DEF Moves

\* A transaction that is rolled back.
LEMMA AbortMoves ==
    ASSUME FulfilmentInv, NEW s \in Sessions, Abort(s)
    PROVE  Moves
<1>1. db' = db /\ tx' = [tx EXCEPT ![s] = None]
    BY DEF Abort
<1>2. DOMAIN tx' = Sessions /\ \A q \in Sessions : tx'[q] # None => Kept(q)
    BY <1>1 DEF Kept, FulfilmentInv
<1>3. db' \in Rows
    BY <1>1 DEF FulfilmentInv, FulfilmentTypeOK
<1> QED
    BY <1>1, <1>2, <1>3, CashQuiet, DeliveryQuiet DEF Moves

\* createManifest
LEMMA CreateManifestMoves ==
    ASSUME FulfilmentInv, NEW s \in Sessions, CreateManifestCommit(s)
    PROVE  Moves
<1>1. tx[s].op = "createManifest" /\ BatchTxOK(tx[s])
    BY OwnRequest DEF CreateManifestCommit
<1>2. PICK m \in Manifests : m = tx[s].on
    BY <1>1 DEF BatchTxOK
<1> DEFINE row == [status |-> "DRAFT", courier |-> tx[s].arg.courier, items |-> tx[s].arg.items]
<1>3. row \in ManifestRow /\ row.status = "DRAFT"
    BY <1>1 DEF BatchTxOK, ManifestRow
<1>4. db \in Rows
    BY DEF FulfilmentInv, FulfilmentTypeOK
<1>5. db' = [db EXCEPT !.man[m] = row] /\ Increment(s, {}, {}) /\ db.man[m].status = "FREE"
    BY <1>2 DEF CreateManifestCommit
<1> HIDE DEF row
<1>6. /\ db' \in Rows
      /\ db'.del = db.del /\ db'.ord = db.ord /\ db'.col = db.col /\ db'.rem = db.rem
      /\ db'.man = [db.man EXCEPT ![m] = row]
    BY <1>3, <1>4, <1>5 DEF Rows
<1>7. db'.man[m] = row /\ \A x \in Manifests \ {m} : db'.man[x] = db.man[x]
    BY <1>4, <1>6 DEF Rows
<1>8. \A q \in Sessions \ {s} : Working(q, "transitionManifest") => db'.man[tx[q].on] = db.man[tx[q].on]
    <2> SUFFICES ASSUME NEW q \in Sessions \ {s}, Working(q, "transitionManifest")
                 PROVE  db'.man[tx[q].on] = db.man[tx[q].on]
        OBVIOUS
    <2>1. tx[q].on \in Manifests /\ canTransitionManifest(db.man[tx[q].on].status, tx[q].arg)
        BY OwnRequest DEF BatchTxOK
    <2>2. tx[q].on # m
        BY <1>5, <2>1 DEF canTransitionManifest
    <2> QED
        BY <1>7, <2>1, <2>2
<1>9. DOMAIN tx' = Sessions /\ \A q \in Sessions : tx'[q] # None => Kept(q)
    BY <1>5, <1>6, <1>8, IncrementKept
<1>10. \A d \in Deliveries : DeliveryMove(d)
    BY <1>6 DEF DeliveryMove, FulfilmentInv, RowsOK, Mirrored
<1>11. \A x \in Manifests : ManifestMove(x)
    BY <1>3, <1>7 DEF ManifestMove
<1> QED
    BY <1>6, <1>9, <1>10, <1>11, CashQuiet DEF Moves

\* transitionManifest: a handover moves every item.
LEMMA TransitionManifestMoves ==
    ASSUME FulfilmentInv, NEW s \in Sessions, TransitionManifestCommit(s)
    PROVE  Moves
<1>1. tx[s].op = "transitionManifest" /\ BatchTxOK(tx[s])
    BY OwnRequest DEF TransitionManifestCommit
<1>2. PICK m \in Manifests : m = tx[s].on
    BY <1>1 DEF BatchTxOK
<1>3. db \in Rows
    BY DEF FulfilmentInv, FulfilmentTypeOK
<1>4. PICK items : items = IF tx[s].arg = "HANDED_OVER" THEN db.man[m].items ELSE {}
    OBVIOUS
<1> DEFINE T == [d \in items |-> "HANDED_TO_COURIER"]
           n == Mirror(db, T)
           row == [db.man[m] EXCEPT !.status = tx[s].arg]
<1>5. /\ \A d \in items : d \in tx[s].dels /\ d \in tx[s].ords
      /\ db' = [n EXCEPT !.man[m] = row] /\ Increment(s, items, items)
    BY <1>2, <1>4 DEF TransitionManifestCommit, SameDelivery, SameOrder
<1>6. db.man[m] \in ManifestRow /\ canTransitionManifest(db.man[m].status, tx[s].arg)
    BY <1>1, <1>2, <1>3 DEF Rows, BatchTxOK
<1>7. items \subseteq Deliveries
    BY <1>4, <1>6 DEF ManifestRow
<1>8. tx[s].arg \in {"SEALED", "CANCELLED", "HANDED_OVER", "CLOSED"}
    BY <1>6 DEF canTransitionManifest
<1>9. row \in ManifestRow /\ row.status = tx[s].arg /\ row.items = db.man[m].items /\ row.courier = db.man[m].courier
    BY <1>6, <1>8 DEF ManifestRow
<1>10. DOMAIN T = items /\ \A d \in items : T[d] = "HANDED_TO_COURIER"
    OBVIOUS
<1>11. "HANDED_TO_COURIER" \in DeliveryStatus
    BY DEF DeliveryStatus, DELIVERY_TRANSITIONS
<1> HIDE DEF T, row
<1>12. /\ n \in Rows /\ n.col = db.col /\ n.rem = db.rem /\ n.man = db.man
       /\ \A d \in Deliveries \ items : n.del[d] = db.del[d] /\ n.ord[d] = db.ord[d]
       /\ \A d \in items : /\ n.del[d].status = "HANDED_TO_COURIER" /\ n.ord[d].status = "HANDED_TO_COURIER"
                           /\ n.del[d].courier = db.del[d].courier /\ n.del[d].age = db.del[d].age
                           /\ n.ord[d].pay = db.ord[d].pay /\ n.ord[d].cod = db.ord[d].cod
    BY <1>3, <1>7, <1>10, <1>11, MirrorRows
<1> HIDE DEF n
<1>13. /\ db' \in Rows
       /\ db'.del = n.del /\ db'.ord = n.ord /\ db'.col = n.col /\ db'.rem = n.rem
       /\ db'.man = [n.man EXCEPT ![m] = row]
    BY <1>5, <1>9, <1>12 DEF Rows
<1>14. db'.man[m] = row /\ \A x \in Manifests \ {m} : db'.man[x] = db.man[x]
    BY <1>3, <1>12, <1>13 DEF Rows
<1>15. \A q \in Sessions \ {s} : Working(q, "transitionManifest") => db'.man[tx[q].on] = db.man[tx[q].on]
    <2> SUFFICES ASSUME NEW q \in Sessions \ {s}, Working(q, "transitionManifest")
                 PROVE  db'.man[tx[q].on] = db.man[tx[q].on]
        OBVIOUS
    <2>1. tx[q].on \in Manifests
        BY OwnRequest DEF BatchTxOK
    <2>2. tx[q].on # m
        BY <1>2 DEF FulfilmentInv, LocksExclusive, TransitionManifestCommit
    <2> QED
        BY <1>14, <2>1, <2>2
<1>16. DOMAIN tx' = Sessions /\ \A q \in Sessions : tx'[q] # None => Kept(q)
    BY <1>5, <1>12, <1>13, <1>15, IncrementKept
<1>17. \A d \in items : db.del[d].courier = db.man[m].courier /\ db.del[d].status = "ASSIGNED_TO_COURIER"
    BY <1>1, <1>2, <1>4, <1>5 DEF BatchTxOK
<1>18. ASSUME NEW d \in Deliveries PROVE DeliveryMove(d)
    <2>1. CASE d \in items
        <3>1. canTransitionDelivery(db.del[d].status, "HANDED_TO_COURIER")
            BY <1>17, <2>1 DEF canTransitionDelivery, DELIVERY_TRANSITIONS
        <3> QED
            BY <1>12, <1>13, <2>1, <3>1 DEF DeliveryMove
    <2>2. CASE d \notin items
        BY <1>12, <1>13, <2>2 DEF DeliveryMove, FulfilmentInv, RowsOK, Mirrored
    <2> QED
        BY <2>1, <2>2
<1>19. ASSUME NEW x \in Manifests PROVE ManifestMove(x)
    <2>1. CASE x # m
        BY <1>14, <2>1 DEF ManifestMove
    <2>2. CASE x = m /\ tx[s].arg = "HANDED_OVER"
        BY <1>4, <1>9, <1>12, <1>13, <1>14, <1>17, <2>2 DEF ManifestMove
    <2>3. CASE x = m /\ tx[s].arg # "HANDED_OVER"
        BY <1>6, <1>9, <1>14, <2>3 DEF ManifestMove, canTransitionManifest
    <2> QED
        BY <2>1, <2>2, <2>3
<1>20. \A x \in Deliveries : db'.ord[x].cod = db.ord[x].cod /\ db'.ord[x].pay = db.ord[x].pay
    BY <1>12, <1>13
<1>21. db'.col = db.col /\ db'.rem = db.rem
    BY <1>12, <1>13
<1> QED
    BY <1>13, <1>16, <1>18, <1>19, <1>20, <1>21, CashQuiet DEF Moves

\* importStatusCsv
LEMMA ImportMoves ==
    ASSUME FulfilmentInv, NEW s \in Sessions, ImportCommit(s)
    PROVE  Moves
<1>1. tx[s].op = "import" /\ BatchTxOK(tx[s])
    BY OwnRequest DEF ImportCommit
<1>2. PICK T : T = tx[s].arg
    OBVIOUS
<1>3. PICK k \in ImportKeys : k = tx[s].on
    BY <1>1 DEF BatchTxOK
<1>4. db \in Rows
    BY DEF FulfilmentInv, FulfilmentTypeOK
<1> DEFINE n == Mirror(db, T)
<1>5. /\ \A d \in DOMAIN T : Known(tx[s], d)
      /\ db' = [n EXCEPT !.imports = db.imports \cup {k}] /\ Increment(s, DOMAIN T, DOMAIN T)
    BY <1>2, <1>3 DEF ImportCommit, SameDelivery, SameOrder, Known
<1>6. /\ DOMAIN T \subseteq Deliveries
      /\ \A d \in DOMAIN T : T[d] \in OPERATIONAL_DELIVERY_TARGETS /\ canTransitionDelivery(db.del[d].status, T[d])
    BY <1>1, <1>2, <1>5 DEF BatchTxOK
<1>7. OPERATIONAL_DELIVERY_TARGETS \subseteq DeliveryStatus \ {"DELIVERED"}
    BY DEF OPERATIONAL_DELIVERY_TARGETS, DeliveryStatus, DELIVERY_TRANSITIONS
<1>8. \A d \in DOMAIN T : T[d] \in DeliveryStatus /\ T[d] # "DELIVERED"
    BY <1>6, <1>7
<1>9. /\ n \in Rows /\ n.col = db.col /\ n.rem = db.rem /\ n.man = db.man
      /\ \A d \in Deliveries \ DOMAIN T : n.del[d] = db.del[d] /\ n.ord[d] = db.ord[d]
      /\ \A d \in DOMAIN T : /\ n.del[d].status = T[d] /\ n.ord[d].status = T[d]
                             /\ n.del[d].courier = db.del[d].courier /\ n.del[d].age = db.del[d].age
                             /\ n.ord[d].pay = db.ord[d].pay /\ n.ord[d].cod = db.ord[d].cod
    BY <1>4, <1>6, <1>8, MirrorRows
<1> HIDE DEF n
<1>10. /\ db' \in Rows
       /\ db'.del = n.del /\ db'.ord = n.ord /\ db'.col = n.col /\ db'.rem = n.rem /\ db'.man = n.man
    BY <1>4, <1>5, <1>9 DEF Rows
<1>11. DOMAIN tx' = Sessions /\ \A q \in Sessions : tx'[q] # None => Kept(q)
    BY <1>5, <1>9, <1>10, IncrementKept
<1>12. ASSUME NEW d \in Deliveries PROVE DeliveryMove(d)
    <2>1. CASE d \in DOMAIN T
        BY <1>6, <1>8, <1>9, <1>10, <2>1 DEF DeliveryMove
    <2>2. CASE d \notin DOMAIN T
        BY <1>9, <1>10, <2>2 DEF DeliveryMove, FulfilmentInv, RowsOK, Mirrored
    <2> QED
        BY <2>1, <2>2
<1>13. \A m \in Manifests : ManifestMove(m)
    BY <1>9, <1>10 DEF ManifestMove
<1>14. \A x \in Deliveries : db'.ord[x].cod = db.ord[x].cod /\ db'.ord[x].pay = db.ord[x].pay
    BY <1>9, <1>10
<1>15. db'.col = db.col /\ db'.rem = db.rem
    BY <1>9, <1>10
<1> QED
    BY <1>10, <1>11, <1>12, <1>13, <1>14, <1>15, CashQuiet DEF Moves

\* A cancelled order has no cash and expects none.
LEMMA CancelledHasNone ==
    ASSUME FulfilmentInv, NEW d \in Deliveries, db.ord[d].status = "CANCELLED"
    PROVE  ~Banked(d) /\ db.ord[d].pay = "CANCELLED"
BY DEF FulfilmentInv, PaymentFollowsDelivery, Banked

\* A handler that records or settles a collection with its order.
LEMMA CollectionMoves ==
    ASSUME FulfilmentInv, NEW s \in Sessions, NEW d \in Deliveries, NEW C \in CollectionRow,
           NEW pay \in PaymentStatus \ {"CASH_REMITTED"},
           db' = [db EXCEPT !.col[d] = C, !.ord[d] = [db.ord[d] EXCEPT !.pay = pay]],
           Increment(s, {d}, {d}), db.ord[d].pay # "CANCELLED",
           C.status \in REMITTABLE_COLLECTION_STATUSES, C.collected > 0,
           Banked(d) => /\ C.collected = db.col[d].collected
                        /\ db.col[d].status # "REMITTED" /\ db.col[d].disc = "OPEN"
    PROVE  Moves
<1> DEFINE O == [db.ord[d] EXCEPT !.pay = pay]
<1>1. db \in Rows
    BY DEF FulfilmentInv, FulfilmentTypeOK
<1>2. O \in OrderRow /\ O.status = db.ord[d].status /\ O.pay = pay /\ O.cod = db.ord[d].cod
    <2>1. db.ord[d] \in OrderRow
        BY <1>1 DEF Rows
    <2> QED
        BY <2>1 DEF OrderRow
<1>3. db' = [db EXCEPT !.col[d] = C, !.ord[d] = O]
    OBVIOUS
<1> HIDE DEF O
<1>4. /\ db' \in Rows
      /\ db'.del = db.del /\ db'.rem = db.rem /\ db'.man = db.man
      /\ db'.ord = [db.ord EXCEPT ![d] = O] /\ db'.col = [db.col EXCEPT ![d] = C]
    BY ONLY <1>1, <1>2, <1>3, C \in CollectionRow, d \in Deliveries DEF Rows
<1>5. /\ db'.ord[d] = O /\ \A x \in Deliveries \ {d} : db'.ord[x] = db.ord[x]
      /\ db'.col[d] = C /\ \A x \in Deliveries \ {d} : db'.col[x] = db.col[x]
    BY <1>1, <1>4 DEF Rows
<1>6. DOMAIN tx' = Sessions /\ \A q \in Sessions : tx'[q] # None => Kept(q)
    BY <1>4, <1>5, IncrementKept
<1>7. \A x \in Deliveries : db'.ord[x].status = db.ord[x].status
    BY <1>2, <1>5
<1>8. (\A x \in Deliveries : DeliveryMove(x)) /\ (\A m \in Manifests : ManifestMove(m))
    BY <1>4, <1>7, DeliveryQuiet
<1>9. CashMove(d)
    <2>1. db.ord[d].status # "CANCELLED"
        BY CancelledHasNone
    <2>2. Banked(d)' /\ C.status # "REMITTED"
        BY <1>5 DEF Banked, REMITTABLE_COLLECTION_STATUSES
    <2> QED
        BY <1>2, <1>5, <2>1, <2>2 DEF CashMove
<1>10. \A x \in Deliveries \ {d} : CashMove(x)
    BY <1>5, CashSame
<1>11. (\A r \in Remittances : RemittanceMove(r)) /\ AllocationMove
    BY <1>4 DEF RemittanceMove, AllocationMove, FulfilmentInv, RemittancesOK
<1> QED
    BY <1>4, <1>6, <1>8, <1>9, <1>10, <1>11 DEF Moves

\* recordCollection
LEMMA RecordCollectionMoves ==
    ASSUME FulfilmentInv, NEW s \in Sessions, RecordCollectionCommit(s)
    PROVE  Moves
<1>1. tx[s].op = "recordCollection" /\ CashTxOK(tx[s]) /\ DeliveryTxOK(tx[s])
    BY OwnRequest DEF RecordCollectionCommit
<1>2. PICK d \in Deliveries : d = tx[s].on
    BY <1>1 DEF DeliveryTxOK
<1>3. PICK a : a = tx[s].arg
    OBVIOUS
<1>4. a.amount \in 1..MaxAmount /\ a.by \in Admins /\ a.courier \in Couriers \cup {None}
    BY <1>1, <1>3 DEF CashTxOK
<1> DEFINE difference == cashDifference(db.ord[d].cod, a.amount)
           C == [status |-> IF difference < 0 THEN "PARTIALLY_COLLECTED" ELSE "COLLECTED",
                 collected |-> a.amount, courier |-> a.courier, by |-> a.by,
                 disc |-> IF difference = 0 THEN "NONE" ELSE "OPEN"]
           pay == IF difference = 0 THEN CollectedStatus(d) ELSE "RECONCILIATION_DISCREPANCY"
<1>5. /\ db.col[d].status = "EXPECTED" /\ db.ord[d].pay = "CASH_EXPECTED"
      /\ db' = [db EXCEPT !.col[d] = C, !.ord[d] = [db.ord[d] EXCEPT !.pay = pay]]
      /\ Increment(s, {d}, {d})
    BY <1>2, <1>3 DEF RecordCollectionCommit
<1>6. C \in CollectionRow /\ C.status \in REMITTABLE_COLLECTION_STATUSES /\ C.collected > 0
    <2> HIDE DEF difference
    <2> QED
        BY <1>4, FulfilmentAssumption DEF CollectionRow, REMITTABLE_COLLECTION_STATUSES
<1>7. pay \in PaymentStatus \ {"CASH_REMITTED"}
    <2> HIDE DEF difference
    <2> QED
        BY DEF CollectedStatus, PaymentStatus
<1>8. ~Banked(d)
    BY <1>5 DEF Banked
<1> HIDE DEF C, pay, difference
<1> QED
    BY <1>5, <1>6, <1>7, <1>8, CollectionMoves

\* resolveCollectionDiscrepancy with an exact second count
LEMMA ResolveExactMoves ==
    ASSUME FulfilmentInv, NEW s \in Sessions, ResolveCollectionExact(s)
    PROVE  Moves
<1>1. tx[s].op = "resolveCollection" /\ CashTxOK(tx[s]) /\ DeliveryTxOK(tx[s])
    BY OwnRequest DEF ResolveCollectionExact
<1>2. PICK d \in Deliveries : d = tx[s].on
    BY <1>1 DEF DeliveryTxOK
<1> DEFINE C == [db.col[d] EXCEPT !.status = "COLLECTED", !.disc = "RESOLVED"]
           pay == CollectedStatus(d)
<1>3. /\ db.col[d].disc = "OPEN" /\ db.col[d].status = tx[s].arg.status
      /\ db.ord[d].pay = "RECONCILIATION_DISCREPANCY"
      /\ db' = [db EXCEPT !.col[d] = C, !.ord[d] = [db.ord[d] EXCEPT !.pay = pay]]
      /\ Increment(s, {d}, {d})
    BY <1>2 DEF ResolveCollectionExact
<1>4. db.col[d].status \in REMITTABLE_COLLECTION_STATUSES
    BY <1>1, <1>3 DEF CashTxOK
<1>5. db.col[d] \in CollectionRow
    BY DEF FulfilmentInv, FulfilmentTypeOK, Rows
<1>6. C \in CollectionRow /\ C.status = "COLLECTED" /\ C.collected = db.col[d].collected
    BY <1>5 DEF CollectionRow
<1>7. db.col[d].collected > 0 /\ db.col[d].status # "REMITTED"
    BY <1>4 DEF FulfilmentInv, RowsOK, Banked, REMITTABLE_COLLECTION_STATUSES
<1>8. pay \in PaymentStatus \ {"CASH_REMITTED"} /\ C.status \in REMITTABLE_COLLECTION_STATUSES
    BY <1>6 DEF CollectedStatus, PaymentStatus, REMITTABLE_COLLECTION_STATUSES
<1> HIDE DEF C, pay
<1> QED
    BY <1>3, <1>6, <1>7, <1>8, CollectionMoves

\* A write-off closes the discrepancy of a collection.
LEMMA WriteOffMoves ==
    ASSUME FulfilmentInv, NEW s \in Sessions, ResolveCollectionWriteOff(s)
    PROVE  Moves
<1>1. tx[s].op = "resolveCollection" /\ DeliveryTxOK(tx[s])
    BY OwnRequest DEF ResolveCollectionWriteOff
<1>2. PICK d \in Deliveries : d = tx[s].on
    BY <1>1 DEF DeliveryTxOK
<1> DEFINE C == [db.col[d] EXCEPT !.disc = "WRITTEN_OFF"]
<1>3. db.col[d].disc = "OPEN" /\ db' = [db EXCEPT !.col[d] = C] /\ Increment(s, {}, {})
    BY <1>2 DEF ResolveCollectionWriteOff
<1>4. db \in Rows
    BY DEF FulfilmentInv, FulfilmentTypeOK
<1>5. /\ C \in CollectionRow /\ C.status = db.col[d].status /\ C.collected = db.col[d].collected
      /\ C.disc = "WRITTEN_OFF"
    <2>1. db.col[d] \in CollectionRow
        BY <1>4 DEF Rows
    <2> QED
        BY <2>1 DEF CollectionRow
<1> HIDE DEF C
<1>6. /\ db' \in Rows
      /\ db'.del = db.del /\ db'.rem = db.rem /\ db'.man = db.man /\ db'.ord = db.ord
      /\ db'.col = [db.col EXCEPT ![d] = C]
    BY <1>3, <1>4, <1>5 DEF Rows
<1>7. db'.col[d] = C /\ \A x \in Deliveries \ {d} : db'.col[x] = db.col[x]
    BY <1>4, <1>6 DEF Rows
<1>8. DOMAIN tx' = Sessions /\ \A q \in Sessions : tx'[q] # None => Kept(q)
    BY <1>3, <1>6, IncrementKept
<1>9. (\A x \in Deliveries : DeliveryMove(x)) /\ (\A m \in Manifests : ManifestMove(m))
    BY <1>6, DeliveryQuiet
<1>10. CashMove(d)
    <2>1. Banked(d) /\ db.col[d].collected > 0
        BY <1>3 DEF FulfilmentInv, RowsOK
    <2>2. db.ord[d].status # "CANCELLED"
        BY <2>1, CancelledHasNone
    <2>3. Banked(d)' /\ Accountable(d)' = Accountable(d)
        BY <1>3, <1>5, <1>7, <2>1 DEF Banked, Accountable
    <2>4. db.ord[d].pay = "CASH_REMITTED" <=> db.col[d].status = "REMITTED" /\ Accountable(d) = db.ord[d].cod
        BY DEF FulfilmentInv, RemittedIsVerified
    <2> QED
        BY <1>3, <1>5, <1>6, <1>7, <2>1, <2>2, <2>3, <2>4 DEF CashMove
<1>11. \A x \in Deliveries \ {d} : CashMove(x)
    BY <1>6, <1>7, CashSame
<1>12. (\A r \in Remittances : RemittanceMove(r)) /\ AllocationMove
    BY <1>6 DEF RemittanceMove, AllocationMove, FulfilmentInv, RemittancesOK
<1> QED
    BY <1>6, <1>8, <1>9, <1>10, <1>11, <1>12 DEF Moves

\* A step that changes one remittance and no other row.
LEMMA RemittanceMoves ==
    ASSUME FulfilmentInv, NEW r \in Remittances, NEW row \in RemittanceRow,
           db' = [db EXCEPT !.rem[r] = row], db.rem[r].status \notin {"VERIFIED"},
           row.status # "FREE", row.disc = "OPEN" => row.status = "DISCREPANCY",
           DOMAIN tx' = Sessions, \A q \in Sessions : tx'[q] # None => Kept(q),
           \/ db.rem[r].status # "FREE" /\ row.items = db.rem[r].items
           \/ /\ db.rem[r].status = "FREE"
              /\ \A d \in Deliveries : row.items[d] > 0 =>
                    /\ Settled(d) /\ Banked(d)
                    /\ Allocated(d, Remittances) + row.items[d] <= Accountable(d)
    PROVE  Moves
<1>1. db \in Rows
    BY DEF FulfilmentInv, FulfilmentTypeOK
<1>2. /\ db' \in Rows
      /\ db'.del = db.del /\ db'.ord = db.ord /\ db'.col = db.col /\ db'.man = db.man
      /\ db'.rem = [db.rem EXCEPT ![r] = row]
    BY <1>1 DEF Rows
<1>3. db'.rem[r] = row /\ \A x \in Remittances \ {r} : db'.rem[x] = db.rem[x]
    BY <1>1, <1>2 DEF Rows
<1>4. (\A x \in Deliveries : DeliveryMove(x)) /\ (\A m \in Manifests : ManifestMove(m))
    BY <1>2, DeliveryQuiet
<1>5. \A x \in Deliveries : CashMove(x)
    BY <1>2, CashSame
<1>6. \A x \in Remittances : RemittanceMove(x)
    BY <1>3 DEF RemittanceMove, FulfilmentInv, RemittancesOK
<1>7. AllocationMove
    <2>1. CASE row.items = db.rem[r].items
        BY <1>3, <2>1 DEF AllocationMove
    <2>2. CASE row.items # db.rem[r].items
        BY <1>3, <2>2 DEF AllocationMove
    <2> QED
        BY <2>1, <2>2
<1> QED
    BY <1>2, <1>4, <1>5, <1>6, <1>7 DEF Moves

\* The remittance a verification has locked is submitted.
LEMMA LockedSubmitted ==
    ASSUME FulfilmentInv, NEW q \in Sessions, Working(q, "reconcileRemittance")
    PROVE  tx[q].on \in Remittances /\ db.rem[tx[q].on].status = "SUBMITTED"
BY OwnRequest DEF CashTxOK

\* createRemittance
LEMMA CreateRemittanceMoves ==
    ASSUME FulfilmentInv, NEW s \in Sessions, CreateRemittanceCommit(s)
    PROVE  Moves
<1>1. tx[s].op = "createRemittance" /\ CashTxOK(tx[s])
    BY OwnRequest DEF CreateRemittanceCommit
<1>2. PICK r \in Remittances : r = tx[s].on
    BY <1>1 DEF CashTxOK
<1>3. PICK a : a = tx[s].arg
    OBVIOUS
<1>4. /\ a.courier \in Couriers /\ a.items \in [Deliveries -> 0..MaxAmount]
      /\ \A d \in Deliveries : a.items[d] > 0 => Settled(d) /\ Banked(d) /\ a.limit[d] = Accountable(d)
    BY <1>1, <1>3 DEF CashTxOK
<1> DEFINE row == [db.rem[r] EXCEPT !.status = "DRAFT", !.courier = a.courier, !.items = a.items]
<1>5. /\ db.rem[r].status = "FREE"
      /\ \A d \in Deliveries : a.items[d] > 0 => Allocated(d, Remittances) + a.items[d] <= a.limit[d]
      /\ db' = [db EXCEPT !.rem[r] = row]
      /\ Increment(s, {}, {})
    BY <1>2, <1>3 DEF CreateRemittanceCommit
<1>6. db \in Rows
    BY DEF FulfilmentInv, FulfilmentTypeOK
<1>7. row \in RemittanceRow /\ row.status = "DRAFT" /\ row.items = a.items /\ row.disc = db.rem[r].disc
    <2>1. db.rem[r] \in RemittanceRow
        BY <1>6 DEF Rows
    <2> QED
        BY <1>4, <2>1 DEF RemittanceRow
<1>8. row.disc # "OPEN"
    BY <1>5, <1>7 DEF FulfilmentInv, RemittancesOK
<1> HIDE DEF row
<1>9. /\ db'.del = db.del /\ db'.ord = db.ord /\ db'.man = db.man
      /\ \A x \in Remittances \ {r} : db'.rem[x] = db.rem[x]
    BY <1>5, <1>6 DEF Rows
<1>10. \A q \in Sessions \ {s} : Working(q, "reconcileRemittance") => db'.rem[tx[q].on] = db.rem[tx[q].on]
    BY <1>5, <1>9, LockedSubmitted
<1>11. DOMAIN tx' = Sessions /\ \A q \in Sessions : tx'[q] # None => Kept(q)
    BY <1>5, <1>9, <1>10, IncrementKept
<1>12. \A d \in Deliveries : row.items[d] > 0 =>
          Settled(d) /\ Banked(d) /\ Allocated(d, Remittances) + row.items[d] <= Accountable(d)
    BY <1>4, <1>5, <1>7
<1> QED
    BY <1>5, <1>7, <1>8, <1>11, <1>12, RemittanceMoves

\* submitRemittance
LEMMA SubmitMoves ==
    ASSUME FulfilmentInv, NEW u \in Admins, NEW r \in Remittances, SubmitRemittance(u, r)
    PROVE  Moves
<1> DEFINE row == [db.rem[r] EXCEPT !.status = "SUBMITTED", !.receiver = u]
<1>1. db.rem[r].status = "DRAFT" /\ db' = [db EXCEPT !.rem[r] = row] /\ tx' = tx
    BY DEF SubmitRemittance
<1>2. db \in Rows
    BY DEF FulfilmentInv, FulfilmentTypeOK
<1>3. row \in RemittanceRow /\ row.status = "SUBMITTED" /\ row.items = db.rem[r].items /\ row.disc = db.rem[r].disc
    <2>1. db.rem[r] \in RemittanceRow
        BY <1>2 DEF Rows
    <2> QED
        BY <2>1 DEF RemittanceRow
<1>4. row.disc # "OPEN"
    BY <1>1, <1>3 DEF FulfilmentInv, RemittancesOK
<1> HIDE DEF row
<1>5. /\ db'.del = db.del /\ db'.ord = db.ord /\ db'.man = db.man
      /\ \A x \in Remittances \ {r} : db'.rem[x] = db.rem[x]
    BY <1>1, <1>2 DEF Rows
<1>6. ASSUME NEW q \in Sessions, tx'[q] # None PROVE Kept(q)
    <2>1. tx[q].op = "reconcileRemittance" => db'.rem[tx[q].on] = db.rem[tx[q].on]
        BY <1>1, <1>5, <1>6, LockedSubmitted DEF Working
    <2> QED
        BY <1>1, <1>5, <1>6, <2>1 DEF Kept
<1>7. DOMAIN tx' = Sessions
    BY <1>1 DEF FulfilmentInv
<1> QED
    BY <1>1, <1>3, <1>4, <1>6, <1>7, RemittanceMoves

\* A write-off closes the discrepancy of a remittance.
LEMMA RemittanceWriteOffMoves ==
    ASSUME FulfilmentInv, NEW s \in Sessions, ResolveRemittanceWriteOff(s)
    PROVE  Moves
<1>1. tx[s].op = "resolveRemittance" /\ CashTxOK(tx[s])
    BY OwnRequest DEF ResolveRemittanceWriteOff
<1>2. PICK r \in Remittances : r = tx[s].on
    BY <1>1 DEF CashTxOK
<1> DEFINE row == [db.rem[r] EXCEPT !.disc = "WRITTEN_OFF"]
<1>3. db.rem[r].disc = "OPEN" /\ db' = [db EXCEPT !.rem[r] = row] /\ Increment(s, {}, {})
    BY <1>2 DEF ResolveRemittanceWriteOff
<1>4. db.rem[r].status = "DISCREPANCY"
    BY <1>3 DEF FulfilmentInv, RemittancesOK
<1>5. db \in Rows
    BY DEF FulfilmentInv, FulfilmentTypeOK
<1>6. row \in RemittanceRow /\ row.status = "DISCREPANCY" /\ row.items = db.rem[r].items /\ row.disc = "WRITTEN_OFF"
    <2>1. db.rem[r] \in RemittanceRow
        BY <1>5 DEF Rows
    <2> QED
        BY <1>4, <2>1 DEF RemittanceRow
<1> HIDE DEF row
<1>7. /\ db'.del = db.del /\ db'.ord = db.ord /\ db'.man = db.man
      /\ \A x \in Remittances \ {r} : db'.rem[x] = db.rem[x]
    BY <1>3, <1>5 DEF Rows
<1>8. \A q \in Sessions \ {s} : Working(q, "reconcileRemittance") => db'.rem[tx[q].on] = db.rem[tx[q].on]
    BY <1>4, <1>7, LockedSubmitted
<1>9. DOMAIN tx' = Sessions /\ \A q \in Sessions : tx'[q] # None => Kept(q)
    BY <1>3, <1>7, <1>8, IncrementKept
<1> QED
    BY <1>3, <1>4, <1>6, <1>9, RemittanceMoves

\* applyVerifiedAllocations
LEMMA ApplyMoves ==
    ASSUME FulfilmentInv, NEW s \in Sessions, NEW r \in Remittances, r = tx[s].on,
           NEW disc \in {"NONE", "RESOLVED"}, ApplyVerifiedAllocations(s, r, disc),
           ViewOK(tx[s]), tx[s].arg.by \in Admins, db.rem[r].status \in {"SUBMITTED", "DISCREPANCY"},
           \A q \in Sessions \ {s} : Working(q, "reconcileRemittance") => tx[q].on # r
    PROVE  Moves
<1>1. PICK v : v = tx[s].arg.view
    OBVIOUS
<1>2. PICK by \in Admins : by = tx[s].arg.by
    OBVIOUS
<1>3. /\ v.covered \in SUBSET Deliveries
      /\ v.paid = {d \in v.covered : Accountable(d) = db.ord[d].cod}
      /\ \A d \in v.covered : Settled(d) /\ Banked(d) /\ VerifiedWith(d, r) = Accountable(d)
    BY <1>1 DEF ViewOK
<1>4. v.paid \subseteq v.covered /\ v.paid \subseteq Deliveries
    BY <1>3
<1> DEFINE C == [d \in Deliveries |-> IF d \in v.covered
                    THEN [db.col[d] EXCEPT !.status = "REMITTED"] ELSE db.col[d]]
           O == [d \in Deliveries |-> IF d \in v.paid
                    THEN [db.ord[d] EXCEPT !.pay = "CASH_REMITTED"] ELSE db.ord[d]]
           row == [db.rem[r] EXCEPT !.status = "VERIFIED", !.verifier = by, !.disc = disc]
<1>5. db' = [db EXCEPT !.col = C, !.ord = O, !.rem[r] = row] /\ Increment(s, {}, v.paid)
    BY <1>1, <1>2 DEF ApplyVerifiedAllocations
<1>6. db \in Rows
    BY DEF FulfilmentInv, FulfilmentTypeOK
<1>7. row \in RemittanceRow /\ row.status = "VERIFIED" /\ row.items = db.rem[r].items /\ row.disc = disc
    <2>1. db.rem[r] \in RemittanceRow
        BY <1>6 DEF Rows
    <2> QED
        BY <2>1 DEF RemittanceRow
<1>8. ASSUME NEW d \in Deliveries
      PROVE  /\ C[d] \in CollectionRow /\ C[d].collected = db.col[d].collected /\ C[d].disc = db.col[d].disc
             /\ C[d].status = IF d \in v.covered THEN "REMITTED" ELSE db.col[d].status
             /\ d \notin v.covered => C[d] = db.col[d]
    <2>1. db.col[d] \in CollectionRow
        BY <1>6 DEF Rows
    <2> QED
        BY <2>1 DEF CollectionRow
<1>9. ASSUME NEW d \in Deliveries
      PROVE  /\ O[d] \in OrderRow /\ O[d].status = db.ord[d].status /\ O[d].cod = db.ord[d].cod
             /\ O[d].pay = IF d \in v.paid THEN "CASH_REMITTED" ELSE db.ord[d].pay
             /\ d \notin v.paid => O[d] = db.ord[d]
    <2>1. db.ord[d] \in OrderRow
        BY <1>6 DEF Rows
    <2> QED
        BY <2>1 DEF OrderRow, PaymentStatus
<1>10. C \in [Deliveries -> CollectionRow] /\ O \in [Deliveries -> OrderRow]
    BY <1>8, <1>9
<1> HIDE DEF C, O, row
<1>11. /\ db' \in Rows
       /\ db'.del = db.del /\ db'.ord = O /\ db'.col = C /\ db'.man = db.man
       /\ db'.rem = [db.rem EXCEPT ![r] = row]
    BY <1>5, <1>6, <1>7, <1>10 DEF Rows
<1>12. db'.rem[r] = row /\ \A x \in Remittances \ {r} : db'.rem[x] = db.rem[x]
    BY <1>6, <1>11 DEF Rows
<1>13. \A q \in Sessions \ {s} : Working(q, "reconcileRemittance") => db'.rem[tx[q].on] = db.rem[tx[q].on]
    BY <1>12, LockedSubmitted
<1>14. DOMAIN tx' = Sessions /\ \A q \in Sessions : tx'[q] # None => Kept(q)
    BY <1>5, <1>9, <1>11, <1>13, IncrementKept
<1>15. (\A x \in Deliveries : DeliveryMove(x)) /\ (\A m \in Manifests : ManifestMove(m))
    BY <1>9, <1>11, DeliveryQuiet
<1>16. ASSUME NEW d \in Deliveries PROVE CashMove(d)
    <2>1. CASE d \notin v.covered
        BY <1>4, <1>8, <1>9, <1>11, <2>1, CashSame
    <2>2. CASE d \in v.covered
        <3>1. Settled(d) /\ Banked(d) /\ VerifiedWith(d, r) = Accountable(d)
            BY <1>3, <2>2
        <3>2. db.ord[d].status # "CANCELLED" /\ db.col[d].collected > 0
            BY <3>1, CancelledHasNone DEF FulfilmentInv, RowsOK
        <3>3. /\ db'.col[d].status = "REMITTED" /\ db'.col[d].collected = db.col[d].collected
              /\ db'.col[d].disc = db.col[d].disc /\ db'.ord[d].cod = db.ord[d].cod
              /\ db'.ord[d].pay = IF d \in v.paid THEN "CASH_REMITTED" ELSE db.ord[d].pay
            BY <1>8, <1>9, <1>11, <2>2
        <3>4. Banked(d)' /\ Accountable(d)' = Accountable(d)
            BY <3>3 DEF Banked, Accountable
        <3>5. d \in v.paid <=> Accountable(d) = db.ord[d].cod
            BY <1>3, <2>2
        <3>6. db.ord[d].pay = "CASH_REMITTED" => Accountable(d) = db.ord[d].cod
            BY DEF FulfilmentInv, RemittedIsVerified
        <3>7. db'.rem[r].status = "VERIFIED"
            BY <1>7, <1>12
        <3> QED
            BY <3>1, <3>2, <3>3, <3>4, <3>5, <3>6, <3>7 DEF CashMove
    <2> QED
        BY <2>1, <2>2
<1>17. \A x \in Remittances : RemittanceMove(x)
    BY <1>7, <1>12 DEF RemittanceMove, FulfilmentInv, RemittancesOK
<1>18. AllocationMove
    BY <1>7, <1>12 DEF AllocationMove
<1> QED
    BY <1>11, <1>14, <1>15, <1>16, <1>17, <1>18 DEF Moves

\* reconcileRemittance with the exact amount, and an exact second count
LEMMA VerifyMoves ==
    ASSUME FulfilmentInv, NEW s \in Sessions, ReconcileExact(s) \/ ResolveRemittanceExact(s)
    PROVE  Moves
<1>1. CASE ReconcileExact(s)
    <2>1. tx[s].op = "reconcileRemittance" /\ CashTxOK(tx[s])
        BY <1>1, OwnRequest DEF ReconcileExact
    <2>2. PICK r \in Remittances : r = tx[s].on
        BY <2>1 DEF CashTxOK
    <2>3. ViewOK(tx[s]) /\ tx[s].arg.by \in Admins /\ db.rem[r].status = "SUBMITTED"
        BY <2>1, <2>2 DEF CashTxOK
    <2>4. ApplyVerifiedAllocations(s, r, "NONE") /\ Working(s, "reconcileRemittance")
        BY <1>1, <2>2 DEF ReconcileExact
    <2>5. \A q \in Sessions \ {s} : Working(q, "reconcileRemittance") => tx[q].on # r
        BY <2>2, <2>4 DEF FulfilmentInv, LocksExclusive
    <2> QED
        BY <2>2, <2>3, <2>4, <2>5, ApplyMoves
<1>2. CASE ResolveRemittanceExact(s)
    <2>1. tx[s].op = "resolveRemittance" /\ CashTxOK(tx[s])
        BY <1>2, OwnRequest DEF ResolveRemittanceExact
    <2>2. PICK r \in Remittances : r = tx[s].on
        BY <2>1 DEF CashTxOK
    <2>3. ViewOK(tx[s]) /\ tx[s].arg.by \in Admins
        BY <2>1 DEF CashTxOK
    <2>4. ApplyVerifiedAllocations(s, r, "RESOLVED") /\ db.rem[r].disc = "OPEN"
        BY <1>2, <2>2 DEF ResolveRemittanceExact
    <2>5. db.rem[r].status = "DISCREPANCY"
        BY <2>4 DEF FulfilmentInv, RemittancesOK
    <2>6. \A q \in Sessions \ {s} : Working(q, "reconcileRemittance") => tx[q].on # r
        BY <2>5, LockedSubmitted
    <2> QED
        BY <2>2, <2>3, <2>4, <2>5, <2>6, ApplyMoves
<1> QED
    BY <1>1, <1>2

\* reconcileRemittance with another amount
LEMMA DiscrepancyMoves ==
    ASSUME FulfilmentInv, NEW s \in Sessions, ReconcileDiscrepancy(s)
    PROVE  Moves
<1>1. tx[s].op = "reconcileRemittance" /\ CashTxOK(tx[s]) /\ Working(s, "reconcileRemittance")
    BY OwnRequest DEF ReconcileDiscrepancy
<1>2. PICK r \in Remittances : r = tx[s].on
    BY <1>1 DEF CashTxOK
<1>3. PICK by \in Admins : by = tx[s].arg.by
    BY <1>1 DEF CashTxOK
<1>4. PICK I : I = ItemsOf(r)
    OBVIOUS
<1> DEFINE row == [db.rem[r] EXCEPT !.status = "DISCREPANCY", !.verifier = by, !.disc = "OPEN"]
           O == [d \in Deliveries |-> IF d \in I
                    THEN [db.ord[d] EXCEPT !.pay = "RECONCILIATION_DISCREPANCY"] ELSE db.ord[d]]
<1>5. /\ \A d \in I : d \in tx[s].ords
      /\ db' = [db EXCEPT !.rem[r] = row, !.ord = O]
      /\ Increment(s, {}, I)
    BY <1>2, <1>3, <1>4 DEF ReconcileDiscrepancy, SameOrder
<1>6. db \in Rows /\ db.rem[r].status = "SUBMITTED"
    BY <1>1, <1>2 DEF FulfilmentInv, FulfilmentTypeOK, CashTxOK
<1>7. row \in RemittanceRow /\ row.status = "DISCREPANCY" /\ row.items = db.rem[r].items
    <2>1. db.rem[r] \in RemittanceRow
        BY <1>6 DEF Rows
    <2> QED
        BY <2>1 DEF RemittanceRow
<1>8. ASSUME NEW d \in Deliveries
      PROVE  /\ O[d] \in OrderRow /\ O[d].status = db.ord[d].status /\ O[d].cod = db.ord[d].cod
             /\ O[d].pay = IF d \in I THEN "RECONCILIATION_DISCREPANCY" ELSE db.ord[d].pay
             /\ d \notin I => O[d] = db.ord[d]
    <2>1. db.ord[d] \in OrderRow
        BY <1>6 DEF Rows
    <2> QED
        BY <2>1 DEF OrderRow, PaymentStatus
<1>9. O \in [Deliveries -> OrderRow]
    BY <1>8
<1> HIDE DEF O, row
<1>10. /\ db' \in Rows
       /\ db'.del = db.del /\ db'.ord = O /\ db'.col = db.col /\ db'.man = db.man
       /\ db'.rem = [db.rem EXCEPT ![r] = row]
    BY <1>5, <1>6, <1>7, <1>9 DEF Rows
<1>11. db'.rem[r] = row /\ \A x \in Remittances \ {r} : db'.rem[x] = db.rem[x]
    BY <1>6, <1>10 DEF Rows
<1>12. \A q \in Sessions \ {s} : Working(q, "reconcileRemittance") => tx[q].on # r
    BY <1>1, <1>2 DEF FulfilmentInv, LocksExclusive
<1>13. \A q \in Sessions \ {s} : Working(q, "reconcileRemittance") => db'.rem[tx[q].on] = db.rem[tx[q].on]
    BY <1>11, <1>12, LockedSubmitted
<1>14. DOMAIN tx' = Sessions /\ \A q \in Sessions : tx'[q] # None => Kept(q)
    BY <1>5, <1>8, <1>10, <1>13, IncrementKept
<1>15. (\A x \in Deliveries : DeliveryMove(x)) /\ (\A m \in Manifests : ManifestMove(m))
    BY <1>8, <1>10, DeliveryQuiet
<1>16. ASSUME NEW d \in Deliveries PROVE CashMove(d)
    <2>1. CASE d \notin I
        BY <1>8, <1>10, <2>1, CashSame
    <2>2. CASE d \in I
        <3>1. Settled(d) /\ Banked(d)
            BY <1>4, <2>2, AllocatedIsBanked DEF ItemsOf, FulfilmentInv, FulfilmentTypeOK
        <3>2. db.ord[d].status # "CANCELLED" /\ db.col[d].collected > 0
            BY <3>1, CancelledHasNone DEF FulfilmentInv, RowsOK
        <3>3. /\ db'.col[d] = db.col[d] /\ db'.ord[d].cod = db.ord[d].cod
              /\ db'.ord[d].pay = "RECONCILIATION_DISCREPANCY"
            BY <1>8, <1>10, <2>2
        <3>4. Banked(d)' /\ Accountable(d)' = Accountable(d)
            BY <3>1, <3>3 DEF Banked, Accountable
        <3>5. db.ord[d].pay # "CASH_REMITTED"
            BY <1>1, <1>5, <2>2 DEF CashTxOK
        <3>6. ~(db.col[d].status = "REMITTED" /\ Accountable(d) = db.ord[d].cod)
            BY <3>5 DEF FulfilmentInv, RemittedIsVerified
        <3> QED
            BY <3>1, <3>2, <3>3, <3>4, <3>6 DEF CashMove
    <2> QED
        BY <2>1, <2>2
<1>17. \A x \in Remittances : RemittanceMove(x)
    BY <1>6, <1>7, <1>11 DEF RemittanceMove, FulfilmentInv, RemittancesOK
<1>18. AllocationMove
    BY <1>7, <1>11 DEF AllocationMove
<1> QED
    BY <1>10, <1>14, <1>15, <1>16, <1>17, <1>18 DEF Moves

-----------------------------------------------------------------------------
(* Every handler begins with what it may rely on *)

RequestOK(t) == DeliveryTxOK(t) /\ BatchTxOK(t) /\ CashTxOK(t)

\* What a request knows depends on the rows alone.
LEMMA KnowledgeStays ==
    ASSUME db' = db, NEW t, RequestOK(t)
    PROVE  RequestOK(t)'
<1>1. \A d : /\ Settled(d)' <=> Settled(d)
             /\ Accountable(d)' = Accountable(d)
             /\ Banked(d)' <=> Banked(d)
             /\ CashForCompletion(d)' = CashForCompletion(d)
    BY DEF Settled, Accountable, Banked, CashForCompletion, cashDifference
<1>2. \A d, r : VerifiedWith(d, r)' = VerifiedWith(d, r)
    BY DEF VerifiedWith, Allocated
<1>3. DeliveryTxOK(t)'
    BY <1>1 DEF RequestOK, DeliveryTxOK, Known
<1>4. BatchTxOK(t)'
    BY DEF RequestOK, BatchTxOK, Known
<1>5. ViewOK(t) => ViewOK(t)'
    BY <1>1, <1>2 DEF ViewOK
<1>6. CashTxOK(t)'
    BY <1>1, <1>5 DEF RequestOK, CashTxOK
<1> QED
    BY <1>3, <1>4, <1>6 DEF RequestOK

\* A request begins and locks a row that is free.
LEMMA BeginKeeps ==
    ASSUME FulfilmentInv, NEW s \in Sessions, NEW op, NEW on, NEW arg, NEW D, NEW O,
           Begin(s, op, on, arg, D, O), RequestOK(Request(op, on, arg, D, O)),
           op = "transitionManifest" => ~ManifestLocked(on),
           op = "reconcileRemittance" => ~RemittanceLocked(on)
    PROVE  FulfilmentInv' /\ db' = db
<1>1. PICK t : t = Request(op, on, arg, D, O)
    OBVIOUS
<1>2. t.op = op /\ t.on = on
    BY <1>1 DEF Request
<1>3. db' = db /\ tx' = [tx EXCEPT ![s] = t] /\ RequestOK(t) /\ tx[s] = None
    BY <1>1 DEF Begin, Idle
<1>4. DOMAIN tx' = Sessions /\ tx'[s] = t /\ \A q \in Sessions \ {s} : tx'[q] = tx[q]
    BY <1>3 DEF FulfilmentInv
<1>5. TxOK'
    <2> SUFFICES ASSUME NEW q \in Sessions, tx'[q] # None
                 PROVE  RequestOK(tx[q])'
        BY DEF TxOK, RequestOK
    <2>1. PICK u : u = tx'[q]
        OBVIOUS
    <2>2. RequestOK(u)
        <3>1. CASE q = s
            BY <1>3, <1>4, <2>1, <3>1
        <3>2. CASE q # s
            BY <1>4, <2>1, <3>2 DEF FulfilmentInv, TxOK, RequestOK
        <3> QED
            BY <3>1, <3>2
    <2>3. RequestOK(u)'
        BY <1>3, <2>2, KnowledgeStays
    <2> QED
        BY <2>1, <2>3 DEF RequestOK, DeliveryTxOK, BatchTxOK, CashTxOK, ViewOK, Known
<1>6. LocksExclusive'
    <2> SUFFICES ASSUME NEW p \in Sessions, NEW q \in Sessions,
                        NEW x \in {"transitionManifest", "reconcileRemittance"},
                        Working(p, x)', Working(q, x)', tx'[p].on = tx'[q].on, p # q
                 PROVE  FALSE
        BY DEF LocksExclusive
    <2>1. CASE p # s /\ q # s
        BY <1>4, <2>1 DEF FulfilmentInv, LocksExclusive, Working
    <2>2. ASSUME NEW y \in Sessions \ {s}, Working(y, x)', Working(s, x)', tx'[y].on = tx'[s].on
          PROVE  FALSE
        <3>1. Working(y, x) /\ tx[y].on = on /\ op = x
            BY <1>2, <1>4, <2>2 DEF Working
        <3> QED
            BY <3>1 DEF ManifestLocked, RemittanceLocked
    <2> QED
        BY <2>1, <2>2
<1>7. FulfilmentTypeOK' /\ RowsOK' /\ RemittancesOK' /\ HandedOverInCustody'
    BY <1>3 DEF FulfilmentInv, FulfilmentTypeOK, RowsOK, RemittancesOK, HandedOverInCustody, Mirrored, Banked
<1>8. \A d : /\ Settled(d)' <=> Settled(d)
             /\ Accountable(d)' = Accountable(d)
             /\ \A R : Allocated(d, R)' = Allocated(d, R)
    BY <1>3 DEF Settled, Accountable, cashDifference, Allocated
<1>9. PaymentFollowsDelivery' /\ NoOverAllocation'
    BY <1>3, <1>8 DEF FulfilmentInv, PaymentFollowsDelivery, NoOverAllocation
<1>10. RemittedIsVerified'
    BY <1>3 DEF FulfilmentInv, RemittedIsVerified, Accountable, Allocated
<1> QED
    BY <1>3, <1>4, <1>5, <1>6, <1>7, <1>9, <1>10 DEF FulfilmentInv

\* The fields of what a request keeps.
LEMMA RequestFields ==
    ASSUME NEW op, NEW on, NEW arg, NEW D, NEW O, NEW t, t = Request(op, on, arg, D, O)
    PROVE  t.op = op /\ t.on = on /\ t.arg = arg /\ t.dels = D /\ t.ords = O
BY DEF Request

\* Requests on one delivery begin with its versions.
LEMMA DeliveryBegins ==
    ASSUME FulfilmentInv, NEW s \in Sessions, NEW d \in Deliveries,
           \/ \E c \in Couriers : AssignmentBegin(s, d, c)
           \/ UnassignBegin(s, d) \/ AnnotateBegin(s, d)
           \/ \E t \in OPERATIONAL_DELIVERY_TARGETS : TransitionBegin(s, d, t)
           \/ \E o \in DOMAIN ATTEMPT_OUTCOME_STATUS : RecordAttemptBegin(s, d, o)
           \/ CompleteBegin(s, d) \/ CompleteReturnBegin(s, d)
    PROVE  FulfilmentInv' /\ db' = db
<1> DEFINE Goal == FulfilmentInv' /\ db' = db
<1>1. ASSUME NEW op \in {"assignment", "unassign", "annotate", "transition", "recordAttempt", "complete", "completeReturn"},
             NEW arg, DeliveryBegin(s, op, d, arg),
             op \in {"assignment", "unassign"} => db.del[d].status \in EARLY_CANCELLATION_STATUSES,
             op = "assignment" => arg \in Couriers,
             op = "transition" => arg \in OPERATIONAL_DELIVERY_TARGETS /\ canTransitionDelivery(db.del[d].status, arg),
             op = "recordAttempt" =>
                /\ arg.to \in {"DELIVERY_ATTEMPTED", "FAILED", "REFUSED", "RESCHEDULED"}
                /\ arg.age \in {"NOT_PERFORMED", "PASSED", "FAILED"}
                /\ canTransitionDelivery(db.del[d].status, arg.to),
             op = "complete" =>
                /\ arg = "PASSED" /\ db.del[d].status \in {"READY_FOR_PICKUP", "OUT_FOR_DELIVERY"}
                /\ CashForCompletion(d) = db.ord[d].cod,
             op = "completeReturn" => db.del[d].status = "RETURN_TO_SENDER"
      PROVE  Goal
    <2>1. PICK t : t = Request(op, d, arg, {d}, {d})
        OBVIOUS
    <2>2. t.op = op /\ t.on = d /\ t.arg = arg
        BY <2>1, RequestFields
    <2>3. DeliveryTxOK(t)
        BY <1>1, <2>2 DEF DeliveryTxOK
    <2>4. BatchTxOK(t) /\ CashTxOK(t)
        BY <2>2 DEF BatchTxOK, CashTxOK
    <2>5. RequestOK(Request(op, d, arg, {d}, {d}))
        BY <2>1, <2>3, <2>4 DEF RequestOK
    <2>6. Begin(s, op, d, arg, {d}, {d})
        BY <1>1 DEF DeliveryBegin
    <2> QED
        BY <2>5, <2>6, BeginKeeps
<1> HIDE DEF Goal
<1>2. ASSUME NEW c \in Couriers, AssignmentBegin(s, d, c) PROVE Goal
    BY <1>1, <1>2 DEF AssignmentBegin, DELIVERY_ASSIGNMENT_STATUSES, EARLY_CANCELLATION_STATUSES
<1>3. ASSUME UnassignBegin(s, d) PROVE Goal
    BY <1>1, <1>3 DEF UnassignBegin, EARLY_CANCELLATION_STATUSES
<1>4. ASSUME AnnotateBegin(s, d) PROVE Goal
    BY <1>1, <1>4 DEF AnnotateBegin
<1>5. ASSUME NEW t \in OPERATIONAL_DELIVERY_TARGETS, TransitionBegin(s, d, t) PROVE Goal
    BY <1>1, <1>5 DEF TransitionBegin, TransitionAllowed
<1>6. ASSUME NEW o \in DOMAIN ATTEMPT_OUTCOME_STATUS, RecordAttemptBegin(s, d, o) PROVE Goal
    <2>1. ATTEMPT_OUTCOME_STATUS[o] \in {"DELIVERY_ATTEMPTED", "FAILED", "REFUSED", "RESCHEDULED"}
        BY DEF ATTEMPT_OUTCOME_STATUS
    <2>2. db.del[d].age \in {"NOT_PERFORMED", "PASSED", "FAILED"}
        BY DEF FulfilmentInv, FulfilmentTypeOK, Rows, DeliveryRow
    <2>3. PICK a : a = [to |-> ATTEMPT_OUTCOME_STATUS[o],
                        age |-> IF o = "FAILED_AGE_VERIFICATION" THEN "FAILED" ELSE db.del[d].age]
        OBVIOUS
    <2>4. a.to = ATTEMPT_OUTCOME_STATUS[o] /\ a.age \in {"NOT_PERFORMED", "PASSED", "FAILED"}
        BY <2>2, <2>3
    <2>5. DeliveryBegin(s, "recordAttempt", d, a) /\ canTransitionDelivery(db.del[d].status, a.to)
        BY <1>6, <2>3 DEF RecordAttemptBegin
    <2> QED
        BY <1>1, <2>1, <2>4, <2>5
<1>7. ASSUME CompleteBegin(s, d) PROVE Goal
    BY <1>1, <1>7 DEF CompleteBegin
<1>8. ASSUME CompleteReturnBegin(s, d) PROVE Goal
    BY <1>1, <1>8 DEF CompleteReturnBegin
<1> QED
    BY <1>2, <1>3, <1>4, <1>5, <1>6, <1>7, <1>8 DEF Goal

\* createManifest
LEMMA CreateManifestBegins ==
    ASSUME FulfilmentInv, NEW s \in Sessions, NEW m \in Manifests, NEW c \in Couriers,
           NEW D \in SUBSET Deliveries, CreateManifestBegin(s, m, c, D)
    PROVE  FulfilmentInv' /\ db' = db
<1>1. PICK a : a = [courier |-> c, items |-> D]
    OBVIOUS
<1>2. PICK t : t = Request("createManifest", m, a, {}, {})
    OBVIOUS
<1>3. t.op = "createManifest" /\ t.on = m /\ t.arg = a
    BY <1>2, RequestFields
<1>4. RequestOK(t)
    BY <1>1, <1>3 DEF RequestOK, DeliveryTxOK, BatchTxOK, CashTxOK
<1>5. Begin(s, "createManifest", m, a, {}, {}) /\ RequestOK(Request("createManifest", m, a, {}, {}))
    BY <1>1, <1>2, <1>4 DEF CreateManifestBegin
<1> QED
    BY <1>5, BeginKeeps

\* transitionManifest
LEMMA TransitionManifestBegins ==
    ASSUME FulfilmentInv, NEW s \in Sessions, NEW m \in Manifests, NEW to, TransitionManifestBegin(s, m, to)
    PROVE  FulfilmentInv' /\ db' = db
<1>1. PICK I : I = db.man[m].items
    OBVIOUS
<1>2. PICK t : t = Request("transitionManifest", m, to, I, I)
    OBVIOUS
<1>3. t.op = "transitionManifest" /\ t.on = m /\ t.arg = to
    BY <1>2, RequestFields
<1>4. /\ canTransitionManifest(db.man[m].status, to)
      /\ to = "HANDED_OVER" => ManifestAssigned(m)
      /\ ~ManifestLocked(m)
      /\ Begin(s, "transitionManifest", m, to, I, I)
    BY <1>1 DEF TransitionManifestBegin
<1>5. BatchTxOK(t)
    BY <1>3, <1>4 DEF BatchTxOK, ManifestAssigned
<1>6. DeliveryTxOK(t) /\ CashTxOK(t)
    BY <1>3 DEF DeliveryTxOK, CashTxOK
<1>7. RequestOK(Request("transitionManifest", m, to, I, I))
    BY <1>2, <1>5, <1>6 DEF RequestOK
<1> QED
    BY <1>4, <1>7, BeginKeeps

\* importStatusCsv
LEMMA ImportBegins ==
    ASSUME FulfilmentInv, NEW s \in Sessions, NEW k \in ImportKeys, NEW F \in SUBSET Deliveries,
           NEW rows \in [F -> CsvTargets], ImportBegin(s, k, rows)
    PROVE  FulfilmentInv' /\ db' = db
<1>1. PICK D : D = IF \A d \in DOMAIN rows : TransitionAllowed(d, rows[d]) THEN DOMAIN rows ELSE {}
    OBVIOUS
<1>2. PICK a : a = [d \in D |-> rows[d]]
    OBVIOUS
<1>3. D \in SUBSET Deliveries /\ DOMAIN a = D
      /\ \A d \in D : a[d] = rows[d] /\ TransitionAllowed(d, a[d])
    BY <1>1, <1>2
<1>4. PICK t : t = Request("import", k, a, D, D)
    OBVIOUS
<1>5. t.op = "import" /\ t.on = k /\ t.arg = a
    BY <1>4, RequestFields
<1>6. BatchTxOK(t)
    BY <1>3, <1>5 DEF BatchTxOK, TransitionAllowed
<1>7. DeliveryTxOK(t) /\ CashTxOK(t)
    BY <1>5 DEF DeliveryTxOK, CashTxOK
<1>8. RequestOK(Request("import", k, a, D, D))
    BY <1>4, <1>6, <1>7 DEF RequestOK
<1>9. Begin(s, "import", k, a, D, D)
    BY <1>1, <1>2 DEF ImportBegin
<1> QED
    BY <1>8, <1>9, BeginKeeps

\* recordCollection and resolveCollectionDiscrepancy
LEMMA CollectionBegins ==
    ASSUME FulfilmentInv, NEW s \in Sessions, NEW u \in Admins, NEW d \in Deliveries,
           \/ \E n \in 1..MaxAmount : RecordCollectionBegin(s, u, d, n)
           \/ \E x \in {"RESOLVED", "WRITTEN_OFF"} : ResolveCollectionBegin(s, u, d, x)
    PROVE  FulfilmentInv' /\ db' = db
<1> DEFINE Goal == FulfilmentInv' /\ db' = db
<1>1. ASSUME NEW n \in 1..MaxAmount, RecordCollectionBegin(s, u, d, n) PROVE Goal
    <2>1. PICK a : a = [by |-> u, amount |-> n,
                        courier |-> IF db.ord[d].pickup THEN None ELSE db.del[d].courier]
        OBVIOUS
    <2>2. db.del[d].courier \in Couriers \cup {None}
        BY DEF FulfilmentInv, FulfilmentTypeOK, Rows, DeliveryRow
    <2>3. a.by = u /\ a.amount = n /\ a.courier \in Couriers \cup {None}
        BY <2>1, <2>2
    <2>4. PICK t : t = Request("recordCollection", d, a, {d}, {d})
        OBVIOUS
    <2>5. t.op = "recordCollection" /\ t.on = d /\ t.arg = a
        BY <2>4, RequestFields
    <2>6. DeliveryTxOK(t) /\ BatchTxOK(t)
        BY <2>5 DEF DeliveryTxOK, BatchTxOK
    <2>7. CashTxOK(t)
        BY <2>3, <2>5 DEF CashTxOK
    <2>8. RequestOK(Request("recordCollection", d, a, {d}, {d}))
        BY <2>4, <2>6, <2>7 DEF RequestOK
    <2>9. Begin(s, "recordCollection", d, a, {d}, {d})
        BY <1>1, <2>1 DEF RecordCollectionBegin
    <2> QED
        BY <2>8, <2>9, BeginKeeps
<1>2. ASSUME NEW x \in {"RESOLVED", "WRITTEN_OFF"}, ResolveCollectionBegin(s, u, d, x) PROVE Goal
    <2>1. PICK a : a = [resolution |-> x, status |-> db.col[d].status]
        OBVIOUS
    <2>2. a.status \in REMITTABLE_COLLECTION_STATUSES
        BY <1>2, <2>1 DEF ResolveCollectionBegin
    <2>3. PICK t : t = Request("resolveCollection", d, a, {d}, {d})
        OBVIOUS
    <2>4. t.op = "resolveCollection" /\ t.on = d /\ t.arg = a
        BY <2>3, RequestFields
    <2>5. DeliveryTxOK(t) /\ BatchTxOK(t)
        BY <2>4 DEF DeliveryTxOK, BatchTxOK
    <2>6. CashTxOK(t)
        BY <2>2, <2>4 DEF CashTxOK
    <2>7. RequestOK(Request("resolveCollection", d, a, {d}, {d}))
        BY <2>3, <2>5, <2>6 DEF RequestOK
    <2>8. Begin(s, "resolveCollection", d, a, {d}, {d})
        BY <1>2, <2>1 DEF ResolveCollectionBegin
    <2> QED
        BY <2>7, <2>8, BeginKeeps
<1> HIDE DEF Goal
<1> QED
    BY <1>1, <1>2 DEF Goal

\* createRemittance
LEMMA CreateRemittanceBegins ==
    ASSUME FulfilmentInv, NEW s \in Sessions, NEW r \in Remittances, NEW c \in Couriers,
           NEW items \in [Deliveries -> 0..MaxAmount], CreateRemittanceBegin(s, r, c, items)
    PROVE  FulfilmentInv' /\ db' = db
<1>1. PICK a : a = [courier |-> c, items |-> items, limit |-> [d \in Deliveries |-> Accountable(d)]]
    OBVIOUS
<1>2. a.courier = c /\ a.items = items /\ \A d \in Deliveries : a.limit[d] = Accountable(d)
    BY <1>1
<1>3. PICK t : t = Request("createRemittance", r, a, {}, {})
    OBVIOUS
<1>4. t.op = "createRemittance" /\ t.on = r /\ t.arg = a
    BY <1>3, RequestFields
<1>5. \A d \in Deliveries : items[d] > 0 => Settled(d) /\ Banked(d)
    BY DEF CreateRemittanceBegin, Remittable, Banked, REMITTABLE_COLLECTION_STATUSES
<1>6. CashTxOK(t)
    BY <1>2, <1>4, <1>5 DEF CashTxOK
<1>7. DeliveryTxOK(t) /\ BatchTxOK(t)
    BY <1>4 DEF DeliveryTxOK, BatchTxOK
<1>8. RequestOK(Request("createRemittance", r, a, {}, {}))
    BY <1>3, <1>6, <1>7 DEF RequestOK
<1>9. Begin(s, "createRemittance", r, a, {}, {})
    BY <1>1 DEF CreateRemittanceBegin
<1> QED
    BY <1>8, <1>9, BeginKeeps

\* What a verification finds covered is settled cash.
LEMMA ViewBegins ==
    ASSUME FulfilmentInv, NEW t, NEW r \in Remittances, t.on = r, t.arg.view = AllocationView(r)
    PROVE  ViewOK(t)
<1>1. PICK v : v = AllocationView(r)
    OBVIOUS
<1>2. /\ v.covered = {d \in ItemsOf(r) : VerifiedWith(d, r) = Accountable(d)}
      /\ v.paid = {d \in v.covered : Accountable(d) = db.ord[d].cod}
    BY <1>1 DEF AllocationView
<1>3. v.covered \in SUBSET Deliveries
    BY <1>2 DEF ItemsOf
<1>4. \A d \in v.covered : Settled(d) /\ Banked(d)
    BY <1>2, AllocatedIsBanked DEF ItemsOf, FulfilmentInv, FulfilmentTypeOK
<1> QED
    BY <1>1, <1>2, <1>3, <1>4 DEF ViewOK

\* reconcileRemittance
LEMMA ReconcileBegins ==
    ASSUME FulfilmentInv, NEW s \in Sessions, NEW u \in Admins, NEW r \in Remittances, NEW n,
           ReconcileBegin(s, u, r, n)
    PROVE  FulfilmentInv' /\ db' = db
<1>1. PICK I : I = ItemsOf(r)
    OBVIOUS
<1>2. PICK a : a = [by |-> u, exact |-> cashDifference(sumMillimes(db.rem[r].items), n) = 0,
                    view |-> AllocationView(r)]
    OBVIOUS
<1>3. a.by = u /\ a.view = AllocationView(r)
    BY <1>2
<1>4. PICK t : t = Request("reconcileRemittance", r, a, {}, I)
    OBVIOUS
<1>5. t.op = "reconcileRemittance" /\ t.on = r /\ t.arg = a /\ t.ords = I
    BY <1>4, RequestFields
<1>6. ViewOK(t)
    BY <1>3, <1>5, ViewBegins
<1>7. /\ db.rem[r].status = "SUBMITTED" /\ ~RemittanceLocked(r)
      /\ \A d \in I : db.col[d].status \in REMITTABLE_COLLECTION_STATUSES
      /\ Begin(s, "reconcileRemittance", r, a, {}, I)
    BY <1>1, <1>2 DEF ReconcileBegin
<1>8. \A d \in Deliveries : d \in I => db.ord[d].pay # "CASH_REMITTED"
    BY <1>7 DEF FulfilmentInv, RemittedIsVerified, REMITTABLE_COLLECTION_STATUSES
<1>9. CashTxOK(t)
    BY <1>3, <1>5, <1>6, <1>7, <1>8 DEF CashTxOK
<1>10. DeliveryTxOK(t) /\ BatchTxOK(t)
    BY <1>5 DEF DeliveryTxOK, BatchTxOK
<1>11. RequestOK(Request("reconcileRemittance", r, a, {}, I))
    BY <1>4, <1>9, <1>10 DEF RequestOK
<1> QED
    BY <1>7, <1>11, BeginKeeps

\* resolveRemittanceDiscrepancy
LEMMA ResolveRemittanceBegins ==
    ASSUME FulfilmentInv, NEW s \in Sessions, NEW u \in Admins, NEW r \in Remittances, NEW x,
           ResolveRemittanceBegin(s, u, r, x)
    PROVE  FulfilmentInv' /\ db' = db
<1>1. PICK I : I = ItemsOf(r)
    OBVIOUS
<1>2. PICK a : a = [by |-> u, resolution |-> x, view |-> AllocationView(r)]
    OBVIOUS
<1>3. a.by = u /\ a.view = AllocationView(r)
    BY <1>2
<1>4. PICK t : t = Request("resolveRemittance", r, a, {}, I)
    OBVIOUS
<1>5. t.op = "resolveRemittance" /\ t.on = r /\ t.arg = a
    BY <1>4, RequestFields
<1>6. ViewOK(t)
    BY <1>3, <1>5, ViewBegins
<1>7. CashTxOK(t)
    BY <1>3, <1>5, <1>6 DEF CashTxOK
<1>8. DeliveryTxOK(t) /\ BatchTxOK(t)
    BY <1>5 DEF DeliveryTxOK, BatchTxOK
<1>9. RequestOK(Request("resolveRemittance", r, a, {}, I))
    BY <1>4, <1>7, <1>8 DEF RequestOK
<1>10. Begin(s, "resolveRemittance", r, a, {}, I)
    BY <1>1, <1>2 DEF ResolveRemittanceBegin
<1> QED
    BY <1>9, <1>10, BeginKeeps

-----------------------------------------------------------------------------
(* The specification *)

\* Every handler's second step moves rows as above, or its first step leaves
\* them alone and the invariant true.
LEMMA FulfilmentStep ==
    ASSUME FulfilmentInv, FulfilmentNext
    PROVE  Moves \/ (FulfilmentInv' /\ db' = db)
<1> DEFINE Goal == Moves \/ (FulfilmentInv' /\ db' = db)
<1>1. ASSUME NEW s \in Sessions, DeliveryStep(s) PROVE Goal
    <2>1. CASE \E d \in Deliveries :
             \/ \E c \in Couriers : AssignmentBegin(s, d, c)
             \/ UnassignBegin(s, d) \/ AnnotateBegin(s, d)
             \/ \E t \in OPERATIONAL_DELIVERY_TARGETS : TransitionBegin(s, d, t)
             \/ \E o \in DOMAIN ATTEMPT_OUTCOME_STATUS : RecordAttemptBegin(s, d, o)
             \/ CompleteBegin(s, d) \/ CompleteReturnBegin(s, d)
        BY <2>1, DeliveryBegins
    <2>2. CASE AssignmentCommit(s) \/ UnassignCommit(s) \/ AnnotateCommit(s)
        BY <2>2, AssignmentMoves, UnassignMoves, AnnotateMoves
    <2>3. CASE TransitionCommit(s) \/ RecordAttemptCommit(s) \/ CompleteCommit(s) \/ CompleteReturnCommit(s)
        BY <2>3, StatusMoves
    <2>4. ASSUME NEW m \in Manifests, NEW c \in Couriers, NEW D \in SUBSET Deliveries,
                 CreateManifestBegin(s, m, c, D)
          PROVE  Goal
        BY <2>4, CreateManifestBegins
    <2>5. ASSUME NEW m \in Manifests, NEW t, TransitionManifestBegin(s, m, t) PROVE Goal
        BY <2>5, TransitionManifestBegins
    <2>6. ASSUME NEW k \in ImportKeys, NEW D \in SUBSET Deliveries,
                 NEW rows \in [D -> CsvTargets], ImportBegin(s, k, rows)
          PROVE  Goal
        BY <2>6, ImportBegins
    <2>7. CASE CreateManifestCommit(s) \/ TransitionManifestCommit(s) \/ ImportCommit(s)
        BY <2>7, CreateManifestMoves, TransitionManifestMoves, ImportMoves
    <2> HIDE DEF Goal
    <2> QED
        BY <1>1, <2>1, <2>2, <2>3, <2>4, <2>5, <2>6, <2>7 DEF DeliveryStep
<1>2. ASSUME NEW s \in Sessions, CashStep(s) PROVE Goal
    <2>1. ASSUME NEW u \in Admins, NEW d \in Deliveries,
                 \/ \E n \in 1..MaxAmount : RecordCollectionBegin(s, u, d, n)
                 \/ \E x \in {"RESOLVED", "WRITTEN_OFF"} : ResolveCollectionBegin(s, u, d, x)
          PROVE  Goal
        BY <2>1, CollectionBegins
    <2>2. CASE RecordCollectionCommit(s) \/ ResolveCollectionExact(s) \/ ResolveCollectionWriteOff(s)
        BY <2>2, RecordCollectionMoves, ResolveExactMoves, WriteOffMoves
    <2>3. ASSUME NEW r \in Remittances, NEW c \in Couriers, NEW items \in [Deliveries -> 0..MaxAmount],
                 CreateRemittanceBegin(s, r, c, items)
          PROVE  Goal
        BY <2>3, CreateRemittanceBegins
    <2>4. CASE CreateRemittanceCommit(s)
        BY <2>4, CreateRemittanceMoves
    <2>5. ASSUME NEW u \in Admins, NEW r \in Remittances, NEW n, ReconcileBegin(s, u, r, n) PROVE Goal
        BY <2>5, ReconcileBegins
    <2>6. CASE ReconcileExact(s) \/ ReconcileDiscrepancy(s)
        BY <2>6, VerifyMoves, DiscrepancyMoves
    <2>7. ASSUME NEW u \in Admins, NEW r \in Remittances, NEW x, ResolveRemittanceBegin(s, u, r, x) PROVE Goal
        BY <2>7, ResolveRemittanceBegins
    <2>8. CASE ResolveRemittanceExact(s) \/ ResolveRemittanceWriteOff(s)
        BY <2>8, VerifyMoves, RemittanceWriteOffMoves
    <2> HIDE DEF Goal
    <2> QED
        BY <1>2, <2>1, <2>2, <2>3, <2>4, <2>5, <2>6, <2>7, <2>8 DEF CashStep
<1>3. ASSUME NEW s \in Sessions, Abort(s) PROVE Goal
    BY <1>3, AbortMoves
<1>4. ASSUME OneStep PROVE Goal
    BY <1>4, OrderMoves, CancelMoves, CourierMoves, SubmitMoves DEF OneStep
<1> HIDE DEF Goal
<1> QED
    <2>1. Goal
        BY <1>1, <1>2, <1>3, <1>4 DEF FulfilmentNext
    <2> QED
        BY <2>1 DEF Goal

\* A state in which nothing is allocated.
LEMMA NothingAllocated ==
    ASSUME NEW d \in Deliveries, \A r \in Remittances : db.rem[r].items[d] = 0,
           NEW R \in SUBSET Remittances
    PROVE  Allocated(d, R) = 0
<1> DEFINE f == [r \in Remittances |-> db.rem[r].items[d]]
<1>1. \A r \in R : f[r] \in Nat /\ f[r] = 0
    OBVIOUS
<1>2. IsFiniteSet(R)
    BY FulfilmentAssumption, FS_Subset
<1>3. Total(f, R) = 0
    <2> HIDE DEF f
    <2> QED
        BY <1>1, <1>2, TotalNat
<1> QED
    BY <1>3 DEF Allocated

\* The invariant holds at the start.
LEMMA FulfilmentStart ==
    ASSUME FulfilmentInit PROVE FulfilmentInv
<1>1. PICK sc \in Scenarios, u \in Admins :
        /\ tx = [s \in Sessions |-> None]
        /\ db = [ord |-> [d \in Deliveries |-> StartOrder(sc.start[d])],
                 del |-> [d \in Deliveries |->
                            [status |-> sc.start[d].status, courier |-> sc.start[d].courier,
                             age |-> "NOT_PERFORMED"]],
                 col |-> [d \in Deliveries |-> StartCollection(sc.start[d], u)],
                 rem |-> [r \in Remittances |-> NoRemittance],
                 man |-> [m \in Manifests |-> [status |-> "FREE", courier |-> None, items |-> {}]],
                 cour |-> [c \in Couriers |-> "AVAILABLE"],
                 imports |-> {}]
    BY DEF FulfilmentInit
<1>2. ASSUME NEW d \in Deliveries
      PROVE  /\ sc.start[d].status \in DeliveryStatus \ {"DELIVERED"}
             /\ sc.start[d].courier \in Couriers \cup {None} /\ sc.start[d].pickup \in BOOLEAN
             /\ sc.start[d].cod \in 1..MaxAmount /\ sc.start[d].paid \in BOOLEAN
             /\ sc.start[d].paid => sc.start[d].status # "CANCELLED"
    BY ScenariosAssumption
<1>3. ASSUME NEW d \in Deliveries
      PROVE  /\ StartOrder(sc.start[d]) \in OrderRow
             /\ StartOrder(sc.start[d]).status = sc.start[d].status
             /\ StartOrder(sc.start[d]).cod = sc.start[d].cod
             /\ StartOrder(sc.start[d]).pay # "CASH_REMITTED"
             /\ sc.start[d].status = "CANCELLED" => StartOrder(sc.start[d]).pay = "CANCELLED"
    <2>1. PICK o : o = sc.start[d]
        OBVIOUS
    <2> DEFINE pay == CASE o.status = "CANCELLED" -> "CANCELLED"
                        [] o.paid -> "CASH_COLLECTED_BY_COURIER"
                        [] OTHER -> "CASH_EXPECTED"
    <2>2. pay \in PaymentStatus \ {"CASH_REMITTED"} /\ (o.status = "CANCELLED" => pay = "CANCELLED")
        BY <1>2, <2>1 DEF PaymentStatus
    <2>3. StartOrder(o) = [status |-> o.status, pickup |-> o.pickup, cod |-> o.cod, pay |-> pay]
        BY DEF StartOrder
    <2> HIDE DEF pay
    <2> QED
        BY <1>2, <2>1, <2>2, <2>3 DEF OrderRow
<1>4. ASSUME NEW d \in Deliveries
      PROVE  /\ StartCollection(sc.start[d], u) \in CollectionRow
             /\ StartCollection(sc.start[d], u).disc = "NONE"
             /\ sc.start[d].paid => /\ StartCollection(sc.start[d], u).status = "COLLECTED"
                                    /\ StartCollection(sc.start[d], u).collected = sc.start[d].cod
             /\ ~sc.start[d].paid =>
                    /\ StartCollection(sc.start[d], u).status =
                          IF sc.start[d].status = "CANCELLED" THEN "VOIDED" ELSE "EXPECTED"
                    /\ StartCollection(sc.start[d], u).collected = 0
    <2>1. PICK o : o = sc.start[d]
        OBVIOUS
    <2>2. MaxAmount \in Nat /\ o.cod \in 1..MaxAmount /\ o.courier \in Couriers \cup {None}
        BY <1>2, <2>1, FulfilmentAssumption
    <2>3. CASE o.paid
        BY <2>1, <2>2, <2>3 DEF StartCollection, CollectionRow
    <2>4. CASE ~o.paid
        BY <2>1, <2>2, <2>4 DEF StartCollection, CollectionRow
    <2> QED
        BY <2>3, <2>4
<1>5. NoRemittance \in RemittanceRow
    BY FulfilmentAssumption DEF NoRemittance, RemittanceRow
<1>6. db \in Rows
    <2>1. [m \in Manifests |-> [status |-> "FREE", courier |-> None, items |-> {}]] \in [Manifests -> ManifestRow]
        BY DEF ManifestRow
    <2>2. [d \in Deliveries |-> [status |-> sc.start[d].status, courier |-> sc.start[d].courier,
                                 age |-> "NOT_PERFORMED"]] \in [Deliveries -> DeliveryRow]
        BY <1>2 DEF DeliveryRow
    <2>3. [c \in Couriers |-> "AVAILABLE"] \in [Couriers -> CourierRow]
        BY DEF CourierRow
    <2> QED
        BY <1>1, <1>3, <1>4, <1>5, <2>1, <2>2, <2>3 DEF Rows
<1>7. ASSUME NEW d \in Deliveries
      PROVE  /\ db.del[d].status = sc.start[d].status
             /\ db.ord[d] = StartOrder(sc.start[d]) /\ db.col[d] = StartCollection(sc.start[d], u)
    BY <1>1
<1>8. /\ \A r \in Remittances : db.rem[r] = NoRemittance
      /\ \A m \in Manifests : db.man[m].status = "FREE"
      /\ \A s \in Sessions : tx[s] = None
      /\ DOMAIN tx = Sessions
    BY <1>1
<1>9. RowsOK
    BY <1>2, <1>3, <1>4, <1>7 DEF RowsOK, Mirrored, Banked
<1>10. RemittancesOK /\ \A d \in Deliveries, r \in Remittances : db.rem[r].items[d] = 0
    BY <1>8 DEF RemittancesOK, NoRemittance
<1>11. LocksExclusive /\ TxOK
    BY <1>8 DEF LocksExclusive, TxOK, Working
<1>12. HandedOverInCustody
    BY <1>8 DEF HandedOverInCustody
<1>13. PaymentFollowsDelivery
    BY <1>2, <1>3, <1>4, <1>7 DEF PaymentFollowsDelivery
<1>14. \A d \in Deliveries : \A R \in SUBSET Remittances : Allocated(d, R) = 0
    BY <1>10, NothingAllocated
<1>15. NoOverAllocation
    <2> SUFFICES ASSUME NEW d \in Deliveries
                 PROVE  0 <= IF Settled(d) THEN Accountable(d) ELSE 0
        BY <1>14 DEF NoOverAllocation
    <2>1. db.ord[d].cod \in Nat /\ db.col[d].collected \in Nat
        BY <1>6, FulfilmentAssumption DEF Rows, OrderRow, CollectionRow
    <2> QED
        BY <2>1 DEF Accountable
<1>16. RemittedIsVerified
    BY <1>3, <1>4, <1>7 DEF RemittedIsVerified
<1> QED
    BY <1>6, <1>8, <1>9, <1>10, <1>11, <1>12, <1>13, <1>15, <1>16 DEF FulfilmentInv, FulfilmentTypeOK

\* The invariant holds of every behaviour.
THEOREM FulfilmentInvHolds ==
    FulfilmentSpec => []FulfilmentInv
<1>1. FulfilmentInit => FulfilmentInv
    BY FulfilmentStart
<1>2. FulfilmentInv /\ [FulfilmentNext]_vars => FulfilmentInv'
    <2> SUFFICES ASSUME FulfilmentInv, [FulfilmentNext]_vars PROVE FulfilmentInv'
        OBVIOUS
    <2>1. CASE FulfilmentNext
        BY <2>1, FulfilmentStep, MoveKeeps
    <2>2. CASE UNCHANGED vars
        <3>1. Moves
            <4>1. db' = db /\ tx' = tx
                BY <2>2 DEF vars
            <4>2. DOMAIN tx' = Sessions /\ \A q \in Sessions : tx'[q] # None => Kept(q)
                BY <4>1 DEF Kept, FulfilmentInv
            <4>3. db' \in Rows
                BY <4>1 DEF FulfilmentInv, FulfilmentTypeOK
            <4> QED
                BY <4>1, <4>2, <4>3, CashQuiet, DeliveryQuiet DEF Moves
        <3> QED
            BY <3>1, MoveKeeps
    <2> QED
        BY <2>1, <2>2
<1> QED
    BY <1>1, <1>2, PTL DEF FulfilmentSpec

\* What a courier was handed with a manifest stays with that courier.
THEOREM CustodyAlwaysHolds ==
    FulfilmentSpec => []HandedOverInCustody
<1>1. FulfilmentInv => HandedOverInCustody
    BY DEF FulfilmentInv
<1> QED
    BY <1>1, FulfilmentInvHolds, PTL

\* Deliveries and payments are complete together, whatever handlers overlap.
THEOREM PaymentAlwaysFollows ==
    FulfilmentSpec => []PaymentFollowsDelivery
<1>1. FulfilmentInv => PaymentFollowsDelivery
    BY DEF FulfilmentInv
<1> QED
    BY <1>1, FulfilmentInvHolds, PTL

\* No collection is handed over more than once.
THEOREM NeverOverAllocated ==
    FulfilmentSpec => []NoOverAllocation
<1>1. FulfilmentInv => NoOverAllocation
    BY DEF FulfilmentInv
<1> QED
    BY <1>1, FulfilmentInvHolds, PTL

\* What counts as remitted is covered by verified remittances.
THEOREM RemittedAlwaysVerified ==
    FulfilmentSpec => []RemittedIsVerified
<1>1. FulfilmentInv => RemittedIsVerified
    BY DEF FulfilmentInv
<1> QED
    BY <1>1, FulfilmentInvHolds, PTL

\* Every step moves a delivery along the transition table or into an early
\* cancellation, with its order.
THEOREM MovesAlwaysLegal ==
    FulfilmentSpec => OnlyLegalMoves
<1> DEFINE Legal(d) ==
        LET from == db.del[d].status
            to   == db'.del[d].status
        IN /\ db'.ord[d].status = to
           /\ to # from => \/ canTransitionDelivery(from, to)
                           \/ to = "CANCELLED" /\ from \in EARLY_CANCELLATION_STATUSES
<1>1. FulfilmentInv /\ [FulfilmentNext]_vars => [\A d \in Deliveries : Legal(d)]_vars
    <2> SUFFICES ASSUME FulfilmentInv, FulfilmentNext, NEW d \in Deliveries PROVE Legal(d)
        OBVIOUS
    <2>1. CASE Moves
        BY <2>1 DEF Moves, DeliveryMove
    <2>2. CASE db' = db
        BY <2>2 DEF FulfilmentInv, RowsOK, Mirrored
    <2> QED
        BY <2>1, <2>2, FulfilmentStep
<1> QED
    BY <1>1, FulfilmentInvHolds, PTL DEF FulfilmentSpec, OnlyLegalMoves

\* No step rewrites cash that was recorded, remitted or verified.
THEOREM CashAlwaysStands ==
    FulfilmentSpec => CashRecordsStand
<1> DEFINE Stands ==
       /\ \A d \in Deliveries :
            /\ db.col[d].collected > 0 => db'.col[d].collected = db.col[d].collected
            /\ db.col[d].status = "REMITTED" => db'.col[d].status = "REMITTED"
       /\ \A r \in Remittances :
            /\ db.rem[r].status = "VERIFIED" => db'.rem[r] = db.rem[r]
            /\ db.rem[r].status # "FREE" => db'.rem[r].items = db.rem[r].items
<1>1. FulfilmentInv /\ [FulfilmentNext]_vars => [Stands]_vars
    <2> SUFFICES ASSUME FulfilmentInv, FulfilmentNext PROVE Stands
        OBVIOUS
    <2>1. CASE Moves
        <3>1. ASSUME NEW d \in Deliveries
              PROVE  /\ db.col[d].collected > 0 => db'.col[d].collected = db.col[d].collected
                     /\ db.col[d].status = "REMITTED" => db'.col[d].status = "REMITTED"
            <4>1. CashMove(d)
                BY <2>1 DEF Moves
            <4>2. ~Banked(d) => db.col[d].collected = 0
                BY DEF FulfilmentInv, RowsOK
            <4>3. db.col[d].status = "REMITTED" => Banked(d)
                BY DEF Banked
            <4> QED
                BY <4>1, <4>2, <4>3 DEF CashMove
        <3>2. \A r \in Remittances :
                /\ db.rem[r].status = "VERIFIED" => db'.rem[r] = db.rem[r]
                /\ db.rem[r].status # "FREE" => db'.rem[r].items = db.rem[r].items
            BY <2>1 DEF Moves, RemittanceMove
        <3> QED
            BY <3>1, <3>2
    <2>2. CASE db' = db
        BY <2>2
    <2> QED
        BY <2>1, <2>2, FulfilmentStep
<1> QED
    BY <1>1, FulfilmentInvHolds, PTL DEF FulfilmentSpec, CashRecordsStand
=============================================================================
