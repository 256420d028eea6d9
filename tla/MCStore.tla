------------------------------ MODULE MCStore ------------------------------
(* Values for the constants of Store that a configuration file cannot write. *)
EXTENDS StoreRefinement, TLC

CONSTANTS k1, k2, k3, c1, c2, v1, v2, s1, s2, o1, o2, a1, m1, m2

OwnerValue == [k \in Keys |-> IF k = k3 THEN c2 ELSE c1]

\* Two lots of a variant and the last unit of another, ordered together.
TwoVariants == [b \in Buckets |-> IF b = 3 THEN v2 ELSE v1]
Stock121 == [b \in Buckets |-> IF b = 2 THEN 2 ELSE 1]
TwoLines == {[lines |-> [v \in Variants |-> IF v = v1 THEN 2 ELSE 1], method |-> "STORE_PICKUP"]}

\* Two locations hold the only variant, and an order takes the stock of both.
OneVariant == [b \in Buckets |-> v1]
Stock21 == [b \in Buckets |-> IF b = 1 THEN 2 ELSE 1]
PickAll == {[lines |-> [v \in Variants |-> 3], method |-> "STORE_PICKUP"]}

OrderSymmetry == Permutations(Orders) \cup Permutations(Sessions)

=============================================================================
