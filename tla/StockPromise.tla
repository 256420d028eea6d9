---------------------------- MODULE StockPromise ----------------------------
(***************************************************************************)
(* What order intake promises about stock, with locations, row locks,      *)
(* versions and retries left out.  The stock of a variant that is neither  *)
(* promised to an order nor gone is free.  An order is promised all of its *)
(* lines at once; the promise ends when it lapses, when the order is       *)
(* closed, or when the goods leave the shelf, and each of these settles    *)
(* all lines together.                                                     *)
(***************************************************************************)
EXTENDS Integers, Sums

CONSTANTS Orders, Variants, Lines  \* Lines: what an order may ask for

VARIABLES
    free,   \* units of each variant that may be promised
    phase,  \* where each order stands
    lines   \* what each order was promised

vars == <<free, phase, lines>>

Init ==
    /\ free \in [Variants -> Nat]
    /\ phase = [o \in Orders |-> "none"]
    /\ lines = [o \in Orders |-> [v \in Variants |-> 0]]

Enough(l) == \A v \in Variants : l[v] <= free[v]

Place(o, l) ==
    /\ phase[o] = "none"
    /\ Enough(l)
    /\ phase' = [phase EXCEPT ![o] = "held"]
    /\ lines' = [lines EXCEPT ![o] = l]
    /\ free' = [v \in Variants |-> free[v] - l[v]]

\* Time passes; every promise whose time has come lapses in full.
Lapse(S) ==
    /\ \A o \in S : phase[o] = "held"
    /\ phase' = [o \in Orders |-> IF o \in S THEN "lapsed" ELSE phase[o]]
    /\ free' = [v \in Variants |-> free[v] + Total([o \in Orders |-> lines[o][v]], S)]
    /\ UNCHANGED lines

\* A lapsed promise may still be honoured, but only out of free stock.
Ship(o) ==
    /\ \/ phase[o] = "held" /\ UNCHANGED free
       \/ /\ phase[o] = "lapsed" /\ Enough(lines[o])
          /\ free' = [v \in Variants |-> free[v] - lines[o][v]]
    /\ phase' = [phase EXCEPT ![o] = "shipped"]
    /\ UNCHANGED lines

\* Closing an order returns a promise, never goods that left the shelf.
Close(o) ==
    /\ phase[o] \in {"held", "lapsed", "shipped"}
    /\ phase' = [phase EXCEPT ![o] = "closed"]
    /\ free' = [v \in Variants |-> free[v] + (IF phase[o] = "held" THEN lines[o][v] ELSE 0)]
    /\ UNCHANGED lines

\* Receipts and corrections touch free stock only.
Restock ==
    /\ free' \in [Variants -> Nat]
    /\ UNCHANGED <<phase, lines>>

Next ==
    \/ \E o \in Orders, l \in Lines : Place(o, l)
    \/ \E S \in SUBSET Orders : Lapse(S)
    \/ \E o \in Orders : Ship(o) \/ Close(o)
    \/ Restock

Spec == Init /\ [][Next]_vars

=============================================================================
