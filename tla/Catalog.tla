------------------------------ MODULE Catalog ------------------------------
(***************************************************************************)
(* Products, their variants (AdminProductsService, AdminVariantsService),  *)
(* what the storefront shows of them (catalog-policy), and the brands and  *)
(* categories they are under (TaxonomyService).                            *)
(***************************************************************************)
EXTENDS CatalogDb

Live(i) == db.img[i].status \notin {"NONE", "DELETED"}

ImagesOf(o) == {i \in Images : Live(i) /\ db.img[i].owner = o}

\* The live images of a product and of its variants
ImagesUnder(p) == UNION {ImagesOf(o) : o \in {p} \cup VariantsOf(p)}

Approved(I) == \E i \in I : db.img[i].status = "APPROVED"

Unresolved(p) == \E i \in ImagesUnder(p) : db.img[i].status = "PENDING"

publicSellableVariant(v) == db.var[v].status = "PUBLISHED" /\ db.var[v].price > 0

\* buildPublicProductWhere without its search filters.  Two of its conditions
\* are left out: publishedAt is set by every publication and never lies ahead,
\* and no operation writes restrictions.
PublicProduct(p) ==
    /\ db.prod[p].status = "PUBLISHED"
    /\ db.cat[db.prod[p].cat].status = "PUBLISHED"
    /\ db.prod[p].brand # None => db.brand[db.prod[p].brand] = "PUBLISHED"
    /\ \E v \in VariantsOf(p) : publicSellableVariant(v)
    /\ \/ Approved(ImagesOf(p))
       \/ \E v \in VariantsOf(p) : publicSellableVariant(v) /\ Approved(ImagesOf(v))

-----------------------------------------------------------------------------
(* Products *)

ensureReferences(c, b, requirePublished) ==
    LET ok == IF requirePublished THEN {"PUBLISHED"} ELSE {"DRAFT", "PUBLISHED", "SUSPENDED"}
    IN db.cat[c].status \in ok /\ (b # None => db.brand[b] \in ok)

\* Only the insertion is in the transaction.
CreateProductBegin(s, p, c, b) ==
    /\ db.prod[p].status = "NONE"
    /\ ensureReferences(c, b, FALSE)
    /\ Begin(s, "createProduct", p, [cat |-> c, brand |-> b], {}, {}, {})
    /\ UNCHANGED <<db, stored, lease>>

CreateProductCommit(s) ==
    LET p == tx[s].on IN
    /\ Working(s, "createProduct")
    /\ db.prod[p].status = "NONE"
    /\ Free(s, {ProductsIn(tx[s].arg.cat), ProductsIn(tx[s].arg.brand)})
    /\ db' = [db EXCEPT !.prod[p] = [status |-> "DRAFT", cat |-> tx[s].arg.cat,
                                     brand |-> tx[s].arg.brand, review |-> FALSE]]
    /\ Increment(s, {})
    /\ UNCHANGED <<stored, lease>>

\* update to a status the public does not see: checked before the
\* transaction, whose update is conditional on the version.
UpdateProductBegin(s, p, c, b, status) ==
    /\ db.prod[p].status \in MutableStatus
    /\ status # "PUBLISHED"
    /\ ensureReferences(c, b, FALSE)
    /\ Begin(s, "updateProduct", p, [cat |-> c, brand |-> b, status |-> status], {p}, {}, {})
    /\ UNCHANGED <<db, stored, lease>>

\* The rows a change of product p to category c and brand b writes
ProductWrite(p, c, b) ==
    {p} \cup {ProductsIn(x) : x \in {c, b, db.prod[p].cat, db.prod[p].brand}}

UpdateProductCommit(s) ==
    LET p == tx[s].on
        a == tx[s].arg
    IN
    /\ Working(s, "updateProduct")
    /\ SameVersion(s, p)
    /\ Free(s, ProductWrite(p, a.cat, a.brand))
    /\ db' = Edited([db EXCEPT !.prod[p] = [db.prod[p] EXCEPT !.cat = a.cat, !.brand = a.brand,
                                                              !.status = a.status]], {p})
    /\ Increment(s, {p})
    /\ UNCHANGED <<stored, lease>>

validateMediaReview(p, confirmed) ==
    /\ ~ Unresolved(p)
    /\ db.prod[p].review =>
         /\ confirmed
         /\ \/ Approved(ImagesOf(p))
            \/ \E v \in VariantsOf(p) : db.var[v].status = "PUBLISHED" /\ Approved(ImagesOf(v))

validatePublication(p, confirmed) ==
    LET published == {v \in VariantsOf(p) : db.var[v].status = "PUBLISHED"} IN
    /\ published # {}
    /\ \A v \in published : db.var[v].price > 0 /\ db.var[v].stock
    /\ \/ Approved(ImagesOf(p))
       \/ \E v \in published : Approved(ImagesOf(v))
    /\ ~ Unresolved(p)
    /\ db.prod[p].review => confirmed
    /\ db.deliverable

\* Mutant: category, brand and variants are read without a lock.
PublishBeginUnlocked(s, p, c, b, confirmed) ==
    /\ db.prod[p].status \in MutableStatus
    /\ ensureReferences(c, b, TRUE)
    /\ db.prod[p].status # "PUBLISHED" => validatePublication(p, confirmed)
    /\ Begin(s, "publish", p, [cat |-> c, brand |-> b], {}, {}, {p})
    /\ UNCHANGED <<db, stored, lease>>

\* update to PUBLISHED, or of a published product: SERIALIZABLE, with the
\* product locked and everything read again under that lock.
PublishBegin(s, p, c, b, confirmed) ==
    /\ db.prod[p].status \in MutableStatus
    /\ confirmed => db.prod[p].review
    /\ ensureReferences(c, b, TRUE)
    /\ IF db.prod[p].status = "PUBLISHED"
       THEN validateMediaReview(p, confirmed)
       ELSE validatePublication(p, confirmed)
    /\ Begin(s, "publish", p, [cat |-> c, brand |-> b], {},
             {c, b} \cup VariantsOf(p) \cup {DeliveryConfig}, {p})
    /\ UNCHANGED <<db, stored, lease>>

\* publicationStatus PUBLISHED clears needsMediaReview; on a product that is
\* published already so does mediaReviewConfirmed, and without either the
\* product needed none.
PublishCommit(s) ==
    LET p == tx[s].on
        a == tx[s].arg
    IN
    /\ Working(s, "publish")
    /\ Free(s, ProductWrite(p, a.cat, a.brand))
    /\ db' = Edited([db EXCEPT !.prod[p] = [status |-> "PUBLISHED", cat |-> a.cat,
                                            brand |-> a.brand, review |-> FALSE]], {p})
    /\ Increment(s, {p})
    /\ UNCHANGED <<stored, lease>>

\* Mutant: pending images do not keep the review open.
ConfirmMediaReviewAnyway(p) ==
    /\ "review" \in ops
    /\ Free(None, {p})
    /\ db.prod[p].status = "DRAFT" /\ db.prod[p].review
    /\ db' = Edited([db EXCEPT !.prod[p].review = FALSE], {p})
    /\ Increment(None, {p})
    /\ UNCHANGED <<stored, lease>>

ConfirmMediaReview(p) ==
    /\ "review" \in ops
    /\ Free(None, {p})
    /\ db.prod[p].status = "DRAFT" /\ db.prod[p].review
    /\ ~ Unresolved(p)
    /\ \/ Approved(ImagesOf(p))
       \/ \E v \in VariantsOf(p) :
            db.var[v].status \in {"DRAFT", "PUBLISHED"} /\ Approved(ImagesOf(v))
    /\ db' = Edited([db EXCEPT !.prod[p].review = FALSE], {p})
    /\ Increment(None, {p})
    /\ UNCHANGED <<stored, lease>>

\* archive and restore, conditional on the version alone
ChangeProductArchive(p) ==
    /\ "archive" \in ops
    /\ db.prod[p].status # "NONE"
    /\ Free(None, {p, ProductsIn(db.prod[p].cat), ProductsIn(db.prod[p].brand)})
    /\ db' = Edited([db EXCEPT !.prod[p].status = IF @ = "ARCHIVED" THEN "DRAFT" ELSE "ARCHIVED"],
                    {p})
    /\ Increment(None, {p})
    /\ UNCHANGED <<stored, lease>>

-----------------------------------------------------------------------------
(* Variants *)

CreateVariant(v, price) ==
    /\ "variants" \in ops
    /\ db.var[v].status = "NONE"
    /\ db.prod[ProductOf[v]].status \in MutableStatus
    /\ Free(None, {v})
    /\ db' = [db EXCEPT !.var[v] = [status |-> "DRAFT", price |-> price, stock |-> FALSE]]
    /\ UNCHANGED <<stored, lease, tx>>

validateVariantPublication(v, price) ==
    LET p == ProductOf[v] IN
    /\ db.prod[p].status # "ARCHIVED"
    /\ price > 0 /\ db.var[v].stock
    /\ Approved(ImagesOf(p) \cup ImagesOf(v))
    /\ ~ Unresolved(p) /\ ~ db.prod[p].review
    /\ db.deliverable

\* update to PUBLISHED or of a published variant: product and variant locked
\* (lockPublicationOwner), under SERIALIZABLE.
PublishVariant(v, price) ==
    /\ "variants" \in ops
    /\ db.var[v].status \in MutableStatus
    /\ IF db.var[v].status = "PUBLISHED" THEN price > 0 ELSE validateVariantPublication(v, price)
    /\ Free(None, {v, ProductOf[v]})
    /\ db' = Edited([db EXCEPT !.var[v] = [db.var[v] EXCEPT !.status = "PUBLISHED", !.price = price]], {v})
    /\ Increment(None, {v})
    /\ UNCHANGED <<stored, lease>>

\* update of a variant the public does not see, conditional on the version
UpdateVariant(v, price, status) ==
    /\ "variants" \in ops
    /\ db.var[v].status \in {"DRAFT", "SUSPENDED"}
    /\ status # "PUBLISHED"
    /\ Free(None, {v})
    /\ db' = Edited([db EXCEPT !.var[v] = [db.var[v] EXCEPT !.status = status, !.price = price]], {v})
    /\ Increment(None, {v})
    /\ UNCHANGED <<stored, lease>>

ensurePublishedProductRetainsSellableVariant(v) ==
    db.prod[ProductOf[v]].status = "PUBLISHED" =>
        \E w \in VariantsOf(ProductOf[v]) \ {v} : publicSellableVariant(w)

\* Mutant: the product is not locked while its other variants are counted.
RemoveVariantBeginUnlocked(s, v, status) ==
    /\ db.var[v].status = "PUBLISHED"
    /\ ensurePublishedProductRetainsSellableVariant(v)
    /\ Begin(s, "removeVariant", v, [to |-> status], {}, {}, {v})
    /\ UNCHANGED <<db, stored, lease>>

\* archive of a published variant, or its update to another status
RemoveVariantBegin(s, v, status) ==
    /\ db.var[v].status = "PUBLISHED"
    /\ ensurePublishedProductRetainsSellableVariant(v)
    /\ Begin(s, "removeVariant", v, [to |-> status], {}, VariantsOf(ProductOf[v]), {ProductOf[v], v})
    /\ UNCHANGED <<db, stored, lease>>

RemoveVariantCommit(s) ==
    LET v == tx[s].on IN
    /\ Working(s, "removeVariant")
    /\ Free(s, {v})
    /\ db' = Edited([db EXCEPT !.var[v].status = tx[s].arg.to], {v})
    /\ Increment(s, {v})
    /\ UNCHANGED <<stored, lease>>

\* archive of a variant that is not published, and restore
ChangeVariantArchive(v) ==
    /\ "variants" \in ops
    /\ db.var[v].status \in {"DRAFT", "SUSPENDED", "ARCHIVED"}
    /\ Free(None, {v})
    /\ db' = Edited([db EXCEPT !.var[v].status = IF @ = "ARCHIVED" THEN "DRAFT" ELSE "ARCHIVED"],
                    {v})
    /\ Increment(None, {v})
    /\ UNCHANGED <<stored, lease>>

\* Checkout, inventory and delivery configuration move what publication
\* depends on.
StockMoves(v) ==
    /\ "stock" \in ops
    /\ db.var[v].status # "NONE"
    /\ db' = [db EXCEPT !.var[v].stock = ~ @]
    /\ UNCHANGED <<stored, lease, tx>>

-----------------------------------------------------------------------------
(* Brands and the category tree (TaxonomyService) *)

PublishedProductIn(x) ==
    \E p \in Products : db.prod[p].status = "PUBLISHED" /\ x \in {db.prod[p].cat, db.prod[p].brand}

PublishedChild(c) ==
    \E k \in Categories : db.cat[k].status = "PUBLISHED" /\ db.cat[k].parent = c

statusBecomesNonPublic(from, to) == from = "PUBLISHED" /\ to # "PUBLISHED"

\* create, update, archive and restore of a brand, each one SERIALIZABLE
\* transaction.  Restoring gives a DRAFT.
UpdateBrand(b, to) ==
    /\ "brands" \in ops
    /\ db.brand[b] \in {"NONE", "ARCHIVED"} => to = "DRAFT"
    /\ statusBecomesNonPublic(db.brand[b], to) \/ to = "ARCHIVED" => ~ PublishedProductIn(b)
    /\ Free(None, {b}) /\ Readable(None, {ProductsIn(b)} \cup Products)
    /\ db' = [db EXCEPT !.brand[b] = to]
    /\ UNCHANGED <<stored, lease, tx>>

\* The categories in S have their parents in S.
Upward(cat, S) == \A k \in S : cat[k].parent # None => cat[k].parent \in S

\* The categories from c up to its root, which is all that the walk of
\* assertNoParentCycle visits: the least set that has c and the parents of
\* its members.  (The walk gives up beyond a depth of 100.)
AncestorsIn(cat, c) ==
    {k \in Categories : c # None /\ \A S \in SUBSET Categories : c \in S /\ Upward(cat, S) => k \in S}

Ancestors(c) == AncestorsIn(db.cat, c)

\* Mutant: the new parent is compared with the category itself only.
CategoryBeginShallow(s, c, parent, to) ==
    /\ db.cat[c].status \in MutableStatus
    /\ parent # c
    /\ to # "ARCHIVED"
    /\ Begin(s, "category", c, [parent |-> parent, to |-> to], {}, {c}, {})
    /\ UNCHANGED <<db, stored, lease>>

\* update, archive and restore of a category.
CategoryBegin(s, c, parent, to) ==
    /\ db.cat[c].status # "NONE"
    /\ db.cat[c].status = "ARCHIVED" => to = "DRAFT" /\ parent = db.cat[c].parent
    /\ to = "ARCHIVED" => parent = db.cat[c].parent
    /\ db.cat[c].status # "ARCHIVED" /\ to # "ARCHIVED" /\ parent # None =>
         /\ c \notin Ancestors(parent)
         /\ db.cat[parent].status \in MutableStatus
         /\ to = "PUBLISHED" => db.cat[parent].status = "PUBLISHED"
    /\ statusBecomesNonPublic(db.cat[c].status, to) \/ to = "ARCHIVED" =>
         ~ PublishedProductIn(c) /\ ~ PublishedChild(c)
    /\ Begin(s, "category", c, [parent |-> parent, to |-> to], {},
             {c, ProductsIn(c), ChildrenOf(c)} \cup Ancestors(parent), {})
    /\ UNCHANGED <<db, stored, lease>>

\* Each of two sessions that read what the other is to write waits for the
\* other: InnoDB aborts one of them.
CategoryCommit(s) ==
    LET c == tx[s].on IN
    /\ Working(s, "category")
    /\ Free(s, {c, ChildrenOf(tx[s].arg.parent), ChildrenOf(db.cat[c].parent)})
    /\ db' = [db EXCEPT !.cat[c] = [status |-> tx[s].arg.to, parent |-> tx[s].arg.parent]]
    /\ Increment(s, {})
    /\ UNCHANGED <<stored, lease>>

CreateCategory(c, parent) ==
    /\ "category" \in ops
    /\ db.cat[c].status = "NONE"
    /\ parent # None => db.cat[parent].status \in MutableStatus
    /\ Free(None, {c, ChildrenOf(parent)})
    /\ db' = [db EXCEPT !.cat[c] = [status |-> "DRAFT", parent |-> parent]]
    /\ UNCHANGED <<stored, lease, tx>>
=============================================================================
