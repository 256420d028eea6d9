---------------------------- MODULE CustomerData ----------------------------
(***************************************************************************)
(* A customer's cart, saved addresses and wishlist.                        *)
(*                                                                         *)
(* Each handler is one REPEATABLE READ transaction that first looks the    *)
(* customer up, which fixes its read view, and then locks the customer's   *)
(* row.  Begin is that first read; the commit step takes the lock and does *)
(* the rest: plain reads see the view, updates and deletes the rows as     *)
(* they are now.                                                           *)
(***************************************************************************)
EXTENDS CustomerAccess

\* The request finds its customer operational; view is what it will read.
DataBegin(r, op, c, request) ==
    /\ request \in Asked
    /\ db.customer[c].status = "ACTIVE"
    /\ Start(r, op, [step |-> op, customer |-> c, request |-> request,
                     view |-> [cart |-> db.cart, address |-> db.address, wish |-> db.wish,
                               public |-> db.public]])
    /\ UNCHANGED <<db, redis, past, ops>>

\* The request is refused, or its transaction fails and is rolled back.
Refuse(r) == db' = db /\ End(r)

-----------------------------------------------------------------------------
(* Cart *)

ActiveCarts(rows, c) ==
    {k \in Carts : rows[k] # None /\ rows[k].customer = c /\ rows[k].status = "ACTIVE"}

\* What the cart handlers are asked; get has no item.
CartRequests == [op: {"add", "update"}, variant: Variants, quantity: 1 .. MaxQuantity]
                    \cup [op: {"remove"}, variant: Variants, quantity: {0}]
                    \cup [op: {"get"}, variant: {None}, quantity: {0}]

EmptyCart(c) ==
    [customer |-> c, status |-> "ACTIVE", late |-> FALSE, items |-> [v \in Variants |-> 0]]

\* lockCustomerAndCart: a cart the view shows ACTIVE (the last one updated, if
\* there are several).  One whose time has passed is expired and replaced;
\* without one a cart is created by get and add.  Rows of variants that are not
\* public any more are removed.  Each result is the carts and the id to work on;
\* there is none where the handler finds no cart.
CartOf(view, c, new, create) ==
    LET seen == ActiveCarts(view.cart, c)
        kept(k) == [id |-> k, made |-> FALSE,
                    rows |-> [db.cart EXCEPT ![k].items =
                                [v \in Variants |-> IF v \in db.public THEN @[v] ELSE 0]]]
        replaced(X) == [id |-> new, made |-> TRUE,
                        rows |-> [k \in Carts |->
                            CASE k = new -> EmptyCart(c)
                              [] k \in X /\ db.cart[k].status = "ACTIVE" ->
                                    [db.cart[k] EXCEPT !.status = "EXPIRED"]
                              [] OTHER -> db.cart[k]]]
        late == {k \in seen : view.cart[k].late}
    IN  {kept(k) : k \in seen \ late}
          \cup (IF ~create THEN {}
                ELSE IF seen = {} THEN {replaced({})} ELSE {replaced({k}) : k \in late})

\* The quantity the view shows for a variant in the cart the handler works on
SeenQuantity(view, found, v) ==
    IF found.made \/ v \notin db.public THEN 0 ELSE view.cart[found.id].items[v]

CartAccepts(view, found, request, quantity) ==
    LET now == found.rows[found.id].items
        seen == SeenQuantity(view, found, request.variant)
    IN  CASE request.op = "get" -> TRUE
          [] request.op = "remove" -> now[request.variant] # 0
          [] OTHER ->
                /\ request.variant \in view.public
                /\ quantity <= MaxQuantity
                /\ request.op = "update" => seen # 0
                /\ seen # 0 => now[request.variant] # 0
                /\ seen = 0 =>
                    /\ now[request.variant] = 0
                    /\ Cardinality({v \in Variants : SeenQuantity(view, found, v) # 0}) < MaxItems

CartCommit(r, new) ==
    LET view == tx[r].view
        request == tx[r].request
        create == request.op \in {"get", "add"}
        Quantity(found) == IF request.op = "add"
                           THEN SeenQuantity(view, found, request.variant) + request.quantity
                           ELSE request.quantity
        accepted == {found \in CartOf(view, tx[r].customer, new, create) :
                        /\ found.made => db.cart[new] = None
                        /\ CartAccepts(view, found, request, Quantity(found))}
    IN  /\ At(r, "cart")
        /\ IF accepted = {} THEN Refuse(r)
           ELSE \E found \in accepted :
                /\ db' = [db EXCEPT !.cart =
                            IF request.op = "get" THEN found.rows
                            ELSE [found.rows EXCEPT ![found.id].late = FALSE,
                                    ![found.id].items[request.variant] = Quantity(found)]]
                /\ End(r)
        /\ UNCHANGED <<redis, past, ops>>

CartAges(k) ==
    /\ "time" \in ops
    /\ db.cart[k] # None /\ ~db.cart[k].late
    /\ db' = [db EXCEPT !.cart[k].late = TRUE]
    /\ UNCHANGED <<redis, tx, past, ops>>

\* The catalogue takes a variant off sale.
CatalogueChanges(v) ==
    /\ "catalogue" \in ops
    /\ v \in db.public
    /\ db' = [db EXCEPT !.public = @ \ {v}]
    /\ UNCHANGED <<redis, tx, past, ops>>

-----------------------------------------------------------------------------
(* Saved addresses *)

Saved(rows, c) == {x \in Addresses : rows[x] # None /\ rows[x].customer = c /\ ~rows[x].deleted}

\* default is the flag sent, None when it is not.
AddressRequests ==
    [op: {"create"}, on: {None}, default: BOOLEAN]
        \cup [op: {"update"}, on: Addresses, default: BOOLEAN \cup {None}]
        \cup [op: {"remove"}, on: Addresses, default: {None}]

\* updateMany ... isDefault, version: { increment: 1 } on the rows in X
Marked(rows, X, flag) ==
    [x \in Addresses |->
        IF x \in X THEN [rows[x] EXCEPT !.default = flag, !.version = @ + 1] ELSE rows[x]]

Defaults(c) == {x \in Saved(db.address, c) : db.address[x].default}

\* Mutant: only the default the view shows gives the flag up.
CreateAddressByView(r, new) ==
    LET c == tx[r].customer
        seen == Saved(tx[r].view.address, c)
        default == tx[r].request.default \/ seen = {}
        shown == {x \in seen : tx[r].view.address[x].default}
        cleared == Marked(db.address, IF default THEN shown ELSE {}, FALSE)
    IN  /\ At(r, "address") /\ tx[r].request.op = "create"
        /\ Cardinality(seen) < MaxAddresses
        /\ db.address[new] = None
        /\ db' = [db EXCEPT !.address =
                    [cleared EXCEPT ![new] =
                        [customer |-> c, default |-> default, deleted |-> FALSE, version |-> 0]]]
        /\ End(r)
        /\ UNCHANGED <<redis, past, ops>>

CreateAddress(r, new) ==
    LET c == tx[r].customer
        seen == Saved(tx[r].view.address, c)
        default == tx[r].request.default \/ seen = {}
        cleared == Marked(db.address, IF default THEN Defaults(c) ELSE {}, FALSE)
    IN  /\ At(r, "address") /\ tx[r].request.op = "create"
        /\ \/ /\ Cardinality(seen) < MaxAddresses
              /\ db.address[new] = None
              /\ db' = [db EXCEPT !.address =
                        [cleared EXCEPT ![new] =
                            [customer |-> c, default |-> default, deleted |-> FALSE, version |-> 0]]]
              /\ End(r)
           \/ Cardinality(seen) >= MaxAddresses /\ Refuse(r)
        /\ UNCHANGED <<redis, past, ops>>

\* The version the customer sent is the one the view shows; the update is
\* conditional on it.
AddressStands(r) ==
    LET x == tx[r].request.on
        seen == tx[r].view.address
    IN  /\ x \in Saved(seen, tx[r].customer)
        /\ ~db.address[x].deleted
        /\ db.address[x].version = seen[x].version
        /\ seen[x].version < MaxVersion

\* Giving the flag up passes it to another address of the view, if one is left.
UpdateAddress(r) ==
    LET x == tx[r].request.on
        c == tx[r].customer
        seen == tx[r].view.address
        flag == tx[r].request.default
        others == Saved(seen, c) \ {x}
        gives == seen[x].default /\ flag = FALSE
        cleared == Marked(db.address, IF flag = TRUE THEN Defaults(c) \ {x} ELSE {}, FALSE)
        written == Marked(cleared, {x}, IF flag = None THEN db.address[x].default ELSE flag)
    IN  /\ At(r, "address") /\ tx[r].request.op = "update"
        /\ \/ /\ AddressStands(r) /\ ~gives
              /\ db' = [db EXCEPT !.address = written]
              /\ End(r)
           \/ /\ AddressStands(r) /\ gives
              /\ \E y \in others :
                    db' = [db EXCEPT !.address =
                            Marked(written, {y} \ {z \in others : db.address[z].deleted}, TRUE)]
              /\ End(r)
           \/ /\ AddressStands(r) => gives /\ others = {}
              /\ Refuse(r)
        /\ UNCHANGED <<redis, past, ops>>

\* Removing the default address passes the flag to another one.
RemoveAddress(r) ==
    LET x == tx[r].request.on
        c == tx[r].customer
        others == Saved(tx[r].view.address, c) \ {x}
        left == {y \in others : ~db.address[y].deleted}
        written == [Marked(db.address, {x}, FALSE) EXCEPT ![x].deleted = TRUE]
    IN  /\ At(r, "address") /\ tx[r].request.op = "remove"
        /\ \/ /\ AddressStands(r)
              /\ ~tx[r].view.address[x].default \/ others = {}
              /\ db' = [db EXCEPT !.address = written]
              /\ End(r)
           \/ /\ AddressStands(r) /\ tx[r].view.address[x].default
              /\ \E y \in others :
                    db' = [db EXCEPT !.address = Marked(written, {y} \cap left, TRUE)]
              /\ End(r)
           \/ ~AddressStands(r) /\ Refuse(r)
        /\ UNCHANGED <<redis, past, ops>>

-----------------------------------------------------------------------------
(* Wishlist: at most one variant of a product *)

WishRequests == [op: {"add", "remove"}, variant: Variants]

SameProduct(v) == {w \in Variants : ProductOf[w] = ProductOf[v]}

WishCommit(r) ==
    LET c == tx[r].customer
        v == tx[r].request.variant
        seen == tx[r].view.wish[c]
    IN  /\ At(r, "wishlist")
        /\ \/ /\ tx[r].request.op = "add"
              /\ v \in tx[r].view.public
              /\ seen \cap SameProduct(v) = {} => Cardinality(seen) < MaxWishes
              /\ db' = [db EXCEPT !.wish[c] = (@ \ SameProduct(v)) \cup {v}]
              /\ End(r)
           \/ /\ tx[r].request.op = "remove"
              /\ v \in seen /\ v \in db.wish[c]
              /\ db' = [db EXCEPT !.wish[c] = @ \ {v}]
              /\ End(r)
           \/ /\ tx[r].request.op = "add" =>
                    \/ v \notin tx[r].view.public
                    \/ seen \cap SameProduct(v) = {} /\ Cardinality(seen) >= MaxWishes
              /\ tx[r].request.op = "remove" => v \notin seen \/ v \notin db.wish[c]
              /\ Refuse(r)
        /\ UNCHANGED <<redis, past, ops>>
=============================================================================
