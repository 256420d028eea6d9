------------------------------ MODULE MCAccess ------------------------------
(* Instances of Access for TLC. *)
EXTENDS Access, TLC

CONSTANTS a1, a2, c1, c2, e1, g1, g2, t1, t2, s1, s2, h1, h2, st1, o1,
          v1, v2, v3, k1, k2, x1, x2, r1, r2

EmailValue == g1 :> e1 @@ g2 :> e1

ProductValue == v1 :> "p" @@ v2 :> "p" @@ v3 :> "q"

AskedValue ==
    {[op |-> "get", variant |-> None, quantity |-> 0],
     [op |-> "add", variant |-> v1, quantity |-> 1], [op |-> "add", variant |-> v3, quantity |-> 1],
     [op |-> "update", variant |-> v1, quantity |-> 1],
     [op |-> "remove", variant |-> v1, quantity |-> 0]}
        \cup AddressRequests
        \cup [op: {"add"}, variant: Variants] \cup [op: {"remove"}, variant: {v1}]

NoAdmin == [status |-> "NONE", super |-> FALSE, enrol |-> FALSE, secret |-> None, version |-> 0]

Admin(super) ==
    [status |-> "ACTIVE", super |-> super, enrol |-> FALSE,
     secret |-> [verified |-> TRUE, last |-> 0], version |-> 0]

NoCustomer ==
    [status |-> "NONE", email |-> None, verified |-> FALSE, password |-> 0, version |-> 0]

Customer(e) ==
    [status |-> "ACTIVE", email |-> e, verified |-> FALSE, password |-> 1, version |-> 0]

Empty ==
    [admin |-> [a \in Admins |-> NoAdmin], customer |-> [c \in Customers |-> NoCustomer],
     identity |-> {}, token |-> [t \in Tokens |-> None], session |-> [s \in Sessions |-> None],
     cart |-> [k \in Carts |-> None], address |-> [x \in Addresses |-> None],
     wish |-> [c \in Customers |-> {}], public |-> Variants]

Scenario(start, handlers) == [start |-> start, ops |-> handlers]

Two == [Empty EXCEPT !.admin[a1] = Admin(TRUE), !.admin[a2] = Admin(TRUE)]

One == [Empty EXCEPT !.customer[c1] = Customer(e1)]

Managed == [One EXCEPT !.admin[a1] = Admin(TRUE)]

\* The first administrator is made, and enrols in two windows.
First == Scenario(Empty, {"bootstrap", "admin login"})

\* It adds a second one and manages it.
Second == Scenario([Empty EXCEPT !.admin[a1] = Admin(TRUE)], {"create", "admin accounts"})

\* Super-administrators suspend, reactivate and remove each other.
Supers == Scenario(Two, {"admin accounts"})

\* One administrator signs in from several places while its account changes.
Codes == Scenario([Empty EXCEPT !.admin[a1] = Admin(TRUE)], {"admin login"})

\* One signs in while the other suspends it.
Suspended ==
    Scenario([Two EXCEPT !.admin[a2].super = FALSE, !.admin[a2].version = MaxVersion - 1,
                         !.admin[a1].secret.last = MaxStep - 1, !.admin[a2].secret.last = MaxStep - 1],
             {"admin login", "admin accounts"})

\* Two registrations and a Google sign-up for one address
SignUp == Scenario(Empty, {"register", "google"})

\* A Google account meets an account with its address, verified or not.
Linking == Scenario(One, {"google"})

Verified == Scenario([One EXCEPT !.customer[c1].verified = TRUE], {"google"})

\* Resets, sign-ins and the administration of one customer
Resets == Scenario(Managed, {"reset", "login", "sessions"})

Closing ==
    Scenario([Managed EXCEPT !.address[x1] = [customer |-> c1, default |-> TRUE,
                                              deleted |-> FALSE, version |-> 0]],
             {"reset", "login", "customer accounts"})

\* Overlapping requests for one cart, which ages or loses a variant
Shopping == Scenario([One EXCEPT !.public = {v1}], {"cart", "time"})

OffSale == Scenario([One EXCEPT !.public = {v1, v3}], {"cart", "catalogue"})

Saving == Scenario(One, {"address"})

Wishing == Scenario(One, {"wishlist", "catalogue"})

AllScenarios == {First, Second, Supers, Codes, Suspended, SignUp, Linking, Verified, Resets, Closing,
                 Shopping, OffSale, Saving, Wishing}

CartScenarios == {Shopping}

\* Requests and the ids of new rows and keys are interchangeable.
IdSymmetry ==
    Permutations({r1, r2}) \cup Permutations({s1, s2}) \cup Permutations({t1, t2})
        \cup Permutations({h1, h2}) \cup Permutations({k1, k2}) \cup Permutations({x1, x2})
=============================================================================
