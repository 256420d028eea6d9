------------------------- MODULE StorefrontProofs -------------------------
(***************************************************************************)
(* Proofs about Storefront.                                                *)
(***************************************************************************)
EXTENDS Storefront, FiniteSetTheorems, TLAPS

-----------------------------------------------------------------------------
(* Rows *)

Tables == {"prod", "var", "brand", "cat", "img", "batch", "queued", "deliverable", "imported", "edited"}

\* Rows n are rows r in all tables but those in F.
Keeps(r, n, F) == \A f \in Tables \ F : n[f] = r[f]

LEMMA RowsTyped ==
    ASSUME NEW r \in Rows
    PROVE  /\ r.prod \in [Products -> ProductRow] /\ r.var \in [Variants -> VariantRow]
           /\ r.brand \in [Brands -> PublicationStatus] /\ r.cat \in [Categories -> CategoryRow]
           /\ r.img \in [Images -> ImageRow] /\ r.batch \in [Batches -> BatchRow]
           /\ r.queued \subseteq Images /\ r.imported \subseteq Products
           /\ r.edited \in [Batches -> SUBSET Owners]
BY DEF Rows

LEMMA WithProducts ==
    ASSUME NEW r \in Rows, NEW t \in [Products -> ProductRow]
    PROVE  /\ [r EXCEPT !.prod = t] \in Rows
           /\ Keeps(r, [r EXCEPT !.prod = t], {"prod"})
           /\ [r EXCEPT !.prod = t].prod = t
BY DEF Rows, Keeps, Tables

LEMMA WithVariants ==
    ASSUME NEW r \in Rows, NEW t \in [Variants -> VariantRow]
    PROVE  /\ [r EXCEPT !.var = t] \in Rows
           /\ Keeps(r, [r EXCEPT !.var = t], {"var"})
           /\ [r EXCEPT !.var = t].var = t
BY DEF Rows, Keeps, Tables

LEMMA WithBrands ==
    ASSUME NEW r \in Rows, NEW t \in [Brands -> PublicationStatus]
    PROVE  /\ [r EXCEPT !.brand = t] \in Rows
           /\ Keeps(r, [r EXCEPT !.brand = t], {"brand"})
           /\ [r EXCEPT !.brand = t].brand = t
BY DEF Rows, Keeps, Tables

LEMMA WithCategories ==
    ASSUME NEW r \in Rows, NEW t \in [Categories -> CategoryRow]
    PROVE  /\ [r EXCEPT !.cat = t] \in Rows
           /\ Keeps(r, [r EXCEPT !.cat = t], {"cat"})
           /\ [r EXCEPT !.cat = t].cat = t
BY DEF Rows, Keeps, Tables

LEMMA WithBatches ==
    ASSUME NEW r \in Rows, NEW t \in [Batches -> BatchRow]
    PROVE  /\ [r EXCEPT !.batch = t] \in Rows
           /\ Keeps(r, [r EXCEPT !.batch = t], {"batch"})
           /\ [r EXCEPT !.batch = t].batch = t
BY DEF Rows, Keeps, Tables

LEMMA EditedRows ==
    ASSUME NEW r \in Rows, NEW O \in SUBSET Owners
    PROVE  /\ Edited(r, O) \in Rows
           /\ Keeps(r, Edited(r, O), {"batch", "edited"})
           /\ \A b \in Batches :
                /\ Edited(r, O).batch[b] = [r.batch[b] EXCEPT !.same = r.batch[b].same \ O]
                /\ Edited(r, O).edited[b] = r.edited[b] \cup (IF r.batch[b].status = "APPLIED" THEN O ELSE {})
<1> DEFINE t == [b \in Batches |-> Outdated(r.batch[b], O)]
           e == [b \in Batches |-> r.edited[b] \cup (IF r.batch[b].status = "APPLIED" THEN O ELSE {})]
<1>1. t \in [Batches -> BatchRow]
    BY RowsTyped DEF BatchRow, Outdated
<1>2. e \in [Batches -> SUBSET Owners]
    BY RowsTyped
<1>3. Edited(r, O) = [r EXCEPT !.batch = t, !.edited = e]
    BY DEF Edited
<1>4. \A b \in Batches : t[b] = [r.batch[b] EXCEPT !.same = r.batch[b].same \ O]
    BY DEF Outdated
<1>5. \A b \in Batches : e[b] = r.edited[b] \cup (IF r.batch[b].status = "APPLIED" THEN O ELSE {})
    OBVIOUS
<1> HIDE DEF t, e
<1>6. [r EXCEPT !.batch = t, !.edited = e] \in Rows
    BY <1>1, <1>2 DEF Rows
<1>7. Keeps(r, [r EXCEPT !.batch = t, !.edited = e], {"batch", "edited"})
    BY DEF Rows, Keeps, Tables
<1>8. [r EXCEPT !.batch = t, !.edited = e].batch = t /\ [r EXCEPT !.batch = t, !.edited = e].edited = e
    BY DEF Rows
<1> QED
    BY <1>3, <1>4, <1>5, <1>6, <1>7, <1>8

-----------------------------------------------------------------------------
(* What a step may do to the rows, and what others rely on.  s is the       *)
(* session that takes the step, or None; X the rows it found free, O the    *)
(* owners whose version it moves, and i the image it was about to record.   *)

\* Request t is u after the step: only versions it knows may be outdated.
Kept(t, u, O) ==
    /\ u.op = t.op /\ u.on = t.on /\ u.arg = t.arg /\ u.rd = t.rd /\ u.wr = t.wr
    /\ u.fresh = t.fresh \ O
    /\ u = [op |-> u.op, on |-> u.on, arg |-> u.arg, fresh |-> u.fresh, rd |-> u.rd, wr |-> u.wr]

ProductMove(r, n, X) ==
    \A p \in Products :
        /\ r.prod[p].status # "NONE" => n.prod[p].status # "NONE"
        /\ n.prod[p].status = "PUBLISHED" =>
             \/ /\ r.prod[p].status = "PUBLISHED"
                /\ n.prod[p].cat = r.prod[p].cat /\ n.prod[p].brand = r.prod[p].brand
             \/ {p, ProductsIn(n.prod[p].cat), ProductsIn(n.prod[p].brand)} \subseteq X

VariantMove(r, n, X) ==
    \A v \in Variants \ X : n.var[v].status = r.var[v].status /\ n.var[v].price = r.var[v].price

CategoryMove(r, n, X) ==
    /\ \A b \in Brands \ X : n.brand[b] = r.brand[b]
    /\ \A c \in Categories \ X : n.cat[c] = r.cat[c]
    /\ \A c \in Categories : r.cat[c].status # "NONE" => n.cat[c].status # "NONE"
    /\ \A c \in Categories : n.cat[c] = r.cat[c] \/ ChildrenOf(n.cat[c].parent) \in X

ImageMove(r, n, X, O, i) ==
    \A j \in Images :
        LET x == r.img[j]
            y == n.img[j]
        IN  \/ y = x
            \/ /\ x.status = "NONE" /\ j = i /\ y.status \in {"APPROVED", "PENDING"} /\ y.owner \in O
               /\ y.status = "PENDING" => ProductOfOwner(y.owner) \in X
            \/ /\ x.status # "NONE" /\ y.status # "NONE" /\ y.owner = x.owner /\ x.owner \in O
               /\ y.status = "PENDING" => x.status = "PENDING"
               /\ x.status = "DELETED" => y.status = "DELETED"

BatchMove(r, n, O) ==
    \A b \in Batches :
        /\ n.edited[b] \subseteq r.edited[b] \cup O
        /\ r.batch[b].status # "NONE" => n.batch[b].status # "NONE" /\ n.batch[b].payload = r.batch[b].payload
        /\ r.batch[b].status \in {"APPLIED", "ROLLED_BACK"} => n.batch[b].status \in {"APPLIED", "ROLLED_BACK"}
        /\ r.batch[b].status = "APPLIED" /\ n.batch[b].status = "ROLLED_BACK" =>
             /\ r.edited[b] \cap OwnersOf(r.batch[b].payload) = {}
             /\ \A v \in Variants : n.var[v] # r.var[v] => v \in r.batch[b].created
             /\ \A p \in Products : n.prod[p] # r.prod[p] => p = r.batch[b].payload.product

RowsMove(r, n, X, O, i) ==
    /\ ProductMove(r, n, X) /\ VariantMove(r, n, X) /\ CategoryMove(r, n, X)
    /\ ImageMove(r, n, X, O, i) /\ BatchMove(r, n, O)
    /\ r.imported \subseteq n.imported

\* The ancestors of c are the least set with c and the parents of its members.
LEMMA AncestorsLeast ==
    ASSUME NEW r \in Rows, NEW c \in Categories
    PROVE  /\ AncestorsIn(r.cat, c) \subseteq Categories
           /\ c \in AncestorsIn(r.cat, c)
           /\ Upward(r.cat, AncestorsIn(r.cat, c))
           /\ \A S \in SUBSET Categories : c \in S /\ Upward(r.cat, S) => AncestorsIn(r.cat, c) \subseteq S
<1> DEFINE A == AncestorsIn(r.cat, c)
<1>1. A \subseteq Categories /\ c \in A
    BY CatalogAssumption DEF AncestorsIn
<1>2. Upward(r.cat, A)
    <2> SUFFICES ASSUME NEW k \in A, r.cat[k].parent # None PROVE r.cat[k].parent \in A
        BY DEF Upward
    <2>1. k \in Categories /\ r.cat[k].parent \in Categories
        BY <1>1, RowsTyped DEF CategoryRow
    <2>2. ASSUME NEW S \in SUBSET Categories, c \in S, Upward(r.cat, S) PROVE r.cat[k].parent \in S
        BY <2>2 DEF AncestorsIn, Upward
    <2> QED
        BY <2>1, <2>2, CatalogAssumption DEF AncestorsIn
<1>3. ASSUME NEW S \in SUBSET Categories, c \in S, Upward(r.cat, S) PROVE A \subseteq S
    BY <1>3 DEF AncestorsIn
<1> QED
    BY <1>1, <1>2, <1>3

\* A write to categories that are not above c leaves the ancestors of c.
LEMMA AncestorsKept ==
    ASSUME NEW r \in Rows, NEW n \in Rows, NEW c \in Categories,
           \A k \in AncestorsIn(r.cat, c) : n.cat[k] = r.cat[k]
    PROVE  AncestorsIn(n.cat, c) \subseteq AncestorsIn(r.cat, c)
<1> DEFINE A == AncestorsIn(r.cat, c)
<1>1. A \subseteq Categories /\ c \in A /\ Upward(r.cat, A)
    BY AncestorsLeast
<1>2. Upward(n.cat, A)
    BY <1>1 DEF Upward
<1> HIDE DEF A
<1>3. AncestorsIn(n.cat, c) \subseteq A
    BY <1>1, <1>2, AncestorsLeast
<1> QED
    BY <1>3 DEF A

LEMMA ExistsKept ==
    ASSUME NEW o \in Owners, NEW X, NEW O, NEW i, Exists(o), RowsMove(db, db', X, O, i)
    PROVE  Exists(o)'
<1>1. ProductOfOwner(o) \in Products
    BY CatalogAssumption DEF Owners, ProductOfOwner
<1> QED
    BY <1>1 DEF Exists, RowsMove, ProductMove

LEMMA SellableKept ==
    ASSUME NEW p, NEW W, NEW X, NEW O, NEW i, Sellable(db, p, W), VariantsOf(p) \cap X = {},
           RowsMove(db, db', X, O, i)
    PROVE  Sellable(db', p, W)
BY DEF Sellable, RowsMove, VariantMove, VariantsOf

\* A request goes on relying on what it checked while others take steps.
LEMMA PublishKept ==
    ASSUME NEW t, NEW X, NEW O, NEW i, t.op = "publish", RequestOK(t), (t.rd \cup t.wr) \cap X = {},
           Sound(db), RowsMove(db, db', X, O, i)
    PROVE  /\ t.on \in Products /\ References(t.arg)
           /\ Exists(t.on)'
           /\ {t.arg.cat, t.arg.brand} \cup VariantsOf(t.on) \subseteq t.rd /\ t.on \in t.wr
           /\ OnShelf(db, t.arg.cat, t.arg.brand)'
           /\ (~ Unresolved(t.on))'
           /\ (t.on \notin db.imported => Sellable(db, t.on, {}))'
<1>1. /\ t.on \in Products /\ References(t.arg)
      /\ Exists(t.on)
      /\ {t.arg.cat, t.arg.brand} \cup VariantsOf(t.on) \subseteq t.rd /\ t.on \in t.wr
      /\ OnShelf(db, t.arg.cat, t.arg.brand)
      /\ ~ Unresolved(t.on)
      /\ t.on \notin db.imported => Sellable(db, t.on, {})
    BY DEF RequestOK
<1>2. Exists(t.on)'
    BY <1>1, ExistsKept DEF Owners
<1>3. t.on \notin X /\ t.arg.cat \notin X /\ t.arg.brand \notin X
    BY <1>1
<1>4. OnShelf(db, t.arg.cat, t.arg.brand)'
    BY <1>1, <1>3 DEF OnShelf, References, RowsMove, CategoryMove
<1>5. (t.on \notin db.imported => Sellable(db, t.on, {}))'
    BY <1>1, SellableKept DEF RowsMove
<1>6. (~ Unresolved(t.on))'
    <2> SUFFICES ASSUME NEW j \in Images, db'.img[j].status = "PENDING",
                        db'.img[j].owner \in {t.on} \cup VariantsOf(t.on)
                 PROVE  FALSE
        BY DEF Unresolved, ImagesUnder, ImagesOf, Live
    <2>1. ProductOfOwner(db'.img[j].owner) = t.on
        BY <1>1, CatalogAssumption DEF ProductOfOwner, VariantsOf
    <2>2. db.img[j].status = "PENDING" /\ db.img[j].owner = db'.img[j].owner
        BY <1>3, <2>1 DEF RowsMove, ImageMove
    <2>3. Unresolved(t.on)
        BY <2>2 DEF Unresolved, ImagesUnder, ImagesOf, Live
    <2> QED
        BY <1>1, <2>3
<1> QED
    BY <1>1, <1>2, <1>4, <1>5, <1>6

LEMMA RemoveVariantKept ==
    ASSUME NEW t, NEW X, NEW O, NEW i, t.op = "removeVariant", RequestOK(t),
           (t.rd \cup t.wr) \cap X = {}, RowsMove(db, db', X, O, i)
    PROVE  /\ t.on \in Variants /\ t.arg.to \in {"DRAFT", "SUSPENDED", "ARCHIVED"}
           /\ Exists(t.on)'
           /\ VariantsOf(ProductOf[t.on]) \subseteq t.rd /\ ProductOf[t.on] \in t.wr
           /\ (db.prod[ProductOf[t.on]].status = "PUBLISHED" => Sellable(db, ProductOf[t.on], {t.on}))'
<1>1. /\ t.on \in Variants /\ t.arg.to \in {"DRAFT", "SUSPENDED", "ARCHIVED"}
      /\ Exists(t.on)
      /\ VariantsOf(ProductOf[t.on]) \subseteq t.rd /\ ProductOf[t.on] \in t.wr
      /\ db.prod[ProductOf[t.on]].status = "PUBLISHED" => Sellable(db, ProductOf[t.on], {t.on})
    BY DEF RequestOK
<1>2. Exists(t.on)'
    BY <1>1, ExistsKept DEF Owners
<1>3. ProductOf[t.on] \in Products /\ ProductOf[t.on] \notin X
    BY <1>1, CatalogAssumption
<1>4. db'.prod[ProductOf[t.on]].status = "PUBLISHED" => db.prod[ProductOf[t.on]].status = "PUBLISHED"
    BY <1>3 DEF RowsMove, ProductMove
<1>5. (db.prod[ProductOf[t.on]].status = "PUBLISHED" => Sellable(db, ProductOf[t.on], {t.on}))'
    BY <1>1, <1>3, <1>4, SellableKept
<1> QED
    BY <1>1, <1>2, <1>5

LEMMA CategoryKept ==
    ASSUME NEW t, NEW X, NEW O, NEW i, t.op = "category", RequestOK(t),
           (t.rd \cup t.wr) \cap X = {}, db \in Rows, db' \in Rows, RowsMove(db, db', X, O, i)
    PROVE  /\ t.on \in Categories /\ t.arg.parent \in Categories \cup {None}
           /\ t.arg.to \in MutableStatus \cup {"ARCHIVED"}
           /\ {t.on, ProductsIn(t.on), ChildrenOf(t.on)} \subseteq t.rd
           /\ (t.arg.to # "PUBLISHED" /\ db.cat[t.on].status = "PUBLISHED" =>
                ~ PublishedProductIn(t.on) /\ ~ PublishedChild(t.on))'
           /\ (t.arg.parent # None =>
                /\ Ancestors(t.arg.parent) \subseteq t.rd
                /\ t.on \notin Ancestors(t.arg.parent)
                /\ db.cat[t.arg.parent].status # "NONE"
                /\ t.arg.to = "PUBLISHED" => db.cat[t.arg.parent].status = "PUBLISHED")'
<1>1. /\ t.on \in Categories /\ t.arg.parent \in Categories \cup {None}
      /\ t.arg.to \in MutableStatus \cup {"ARCHIVED"}
      /\ {t.on, ProductsIn(t.on), ChildrenOf(t.on)} \subseteq t.rd
    BY DEF RequestOK
<1>2. t.on \notin X /\ ProductsIn(t.on) \notin X /\ ChildrenOf(t.on) \notin X
    BY <1>1
<1>3. db'.cat[t.on] = db.cat[t.on]
    BY <1>1, <1>2 DEF RowsMove, CategoryMove
<1>4. PublishedProductIn(t.on)' => PublishedProductIn(t.on)
    BY <1>2 DEF PublishedProductIn, RowsMove, ProductMove
<1>5. PublishedChild(t.on)' => PublishedChild(t.on)
    BY <1>2 DEF PublishedChild, RowsMove, CategoryMove
<1>6. (t.arg.to # "PUBLISHED" /\ db.cat[t.on].status = "PUBLISHED" =>
           ~ PublishedProductIn(t.on) /\ ~ PublishedChild(t.on))'
    BY <1>3, <1>4, <1>5 DEF RequestOK
<1>7. ASSUME t.arg.parent # None
      PROVE  /\ Ancestors(t.arg.parent)' \subseteq t.rd
             /\ t.on \notin Ancestors(t.arg.parent)'
             /\ db'.cat[t.arg.parent].status # "NONE"
             /\ t.arg.to = "PUBLISHED" => db'.cat[t.arg.parent].status = "PUBLISHED"
    <2>1. /\ Ancestors(t.arg.parent) \subseteq t.rd
          /\ t.on \notin Ancestors(t.arg.parent)
          /\ db.cat[t.arg.parent].status # "NONE"
          /\ t.arg.to = "PUBLISHED" => db.cat[t.arg.parent].status = "PUBLISHED"
        BY <1>7 DEF RequestOK
    <2>2. \A k \in AncestorsIn(db.cat, t.arg.parent) : db'.cat[k] = db.cat[k]
        <3> SUFFICES ASSUME NEW k \in AncestorsIn(db.cat, t.arg.parent) PROVE db'.cat[k] = db.cat[k]
            OBVIOUS
        <3>1. k \in Categories
            BY DEF AncestorsIn
        <3>2. k \notin X
            BY <2>1 DEF Ancestors
        <3> QED
            BY <3>1, <3>2 DEF RowsMove, CategoryMove
    <2>3. AncestorsIn(db'.cat, t.arg.parent) \subseteq AncestorsIn(db.cat, t.arg.parent)
        BY <1>1, <1>7, <2>2, AncestorsKept
    <2>4. t.arg.parent \in AncestorsIn(db.cat, t.arg.parent)
        BY <1>1, <1>7 DEF AncestorsIn
    <2> QED
        BY <2>1, <2>2, <2>3, <2>4 DEF Ancestors
<1> QED
    BY <1>1, <1>6, <1>7

LEMMA MediaKept ==
    ASSUME NEW t, NEW u, NEW X, NEW O, NEW i, t.op = "mediaImport", RequestOK(t),
           u.fresh = t.fresh \ O, Sound(db), RowsMove(db, db', X, O, i)
    PROVE  /\ t.on \in Batches /\ db'.batch[t.on].status \in {"APPLIED", "ROLLED_BACK"}
           /\ t.arg = [left |-> t.arg.left, image |-> t.arg.image, ok |-> t.arg.ok]
           /\ t.arg.left \subseteq OwnersOf(db'.batch[t.on].payload)
           /\ u.fresh \cap db'.edited[t.on] = {}
           /\ t.arg.image # None =>
                /\ t.arg.image \in OwnersOf(db'.batch[t.on].payload) \X Images
                /\ t.arg.image[1] \in u.fresh =>
                     \A j \in Images : ~ (db'.img[j].owner = t.arg.image[1] /\ CountedIn(db', j))
<1>1. /\ t.on \in Batches /\ db.batch[t.on].status \in {"APPLIED", "ROLLED_BACK"}
      /\ t.arg = [left |-> t.arg.left, image |-> t.arg.image, ok |-> t.arg.ok]
      /\ t.arg.left \subseteq OwnersOf(db.batch[t.on].payload)
      /\ t.fresh \cap db.edited[t.on] = {}
      /\ t.arg.image # None =>
           /\ t.arg.image \in OwnersOf(db.batch[t.on].payload) \X Images
           /\ t.arg.image[1] \in t.fresh =>
                \A j \in Images : ~ (db.img[j].owner = t.arg.image[1] /\ CountedIn(db, j))
    BY DEF RequestOK
<1>2. /\ db'.batch[t.on].status \in {"APPLIED", "ROLLED_BACK"}
      /\ db'.batch[t.on].payload = db.batch[t.on].payload
      /\ db'.edited[t.on] \subseteq db.edited[t.on] \cup O
    BY <1>1 DEF RowsMove, BatchMove
<1>3. u.fresh \cap db'.edited[t.on] = {}
    BY <1>1, <1>2
<1>4. ASSUME t.arg.image # None, t.arg.image[1] \in u.fresh, NEW j \in Images
      PROVE  ~ (db'.img[j].owner = t.arg.image[1] /\ CountedIn(db', j))
    <2>1. t.arg.image[1] \notin O /\ t.arg.image[1] \in t.fresh
        BY <1>4
    <2>2. db'.img[j] = db.img[j] \/ db'.img[j].owner \in O
        BY DEF RowsMove, ImageMove
    <2> QED
        BY <1>1, <1>4, <2>1, <2>2 DEF CountedIn
<1> QED
    BY <1>1, <1>2, <1>3, <1>4

LEMMA ReplaceKept ==
    ASSUME NEW t, NEW u, NEW X, NEW O, NEW i, t.op = "replace", RequestOK(t),
           u.fresh = t.fresh \ O, RowsMove(db, db', X, O, i)
    PROVE  /\ t.on \in Images /\ t.arg.image \in Images /\ t.arg.primary \in BOOLEAN
           /\ db'.img[t.on].status # "NONE" /\ db'.img[t.on].owner = t.arg.owner
           /\ t.arg.owner \in u.fresh =>
                db'.img[t.on].status = "APPROVED" /\ db'.img[t.on].primary = t.arg.primary
<1>1. /\ t.on \in Images /\ t.arg.image \in Images /\ t.arg.primary \in BOOLEAN
      /\ db.img[t.on].status # "NONE" /\ db.img[t.on].owner = t.arg.owner
      /\ t.arg.owner \in t.fresh =>
           db.img[t.on].status = "APPROVED" /\ db.img[t.on].primary = t.arg.primary
    BY DEF RequestOK
<1>2. \/ db'.img[t.on] = db.img[t.on]
      \/ /\ db'.img[t.on].status # "NONE" /\ db'.img[t.on].owner = db.img[t.on].owner
         /\ db.img[t.on].owner \in O
    BY <1>1 DEF RowsMove, ImageMove
<1> QED
    BY <1>1, <1>2

LEMMA OthersKept ==
    ASSUME NEW t, NEW u, NEW X, NEW O, NEW i,
           RequestOK(t), Kept(t, u, O), (t.rd \cup t.wr) \cap X = {},
           Sound(db), db' \in Rows, RowsMove(db, db', X, O, i)
    PROVE  RequestOK(u)'
<1>1. /\ u.op = t.op /\ u.on = t.on /\ u.arg = t.arg /\ u.rd = t.rd /\ u.wr = t.wr
      /\ u.fresh = t.fresh \ O
      /\ u = [op |-> u.op, on |-> u.on, arg |-> u.arg, fresh |-> u.fresh, rd |-> u.rd, wr |-> u.wr]
    BY DEF Kept
<1>2. db \in Rows
    BY DEF Sound
<1>3. CASE t.op = "publish"
    BY <1>1, <1>3, PublishKept DEF RequestOK
<1>4. CASE t.op = "removeVariant"
    BY <1>1, <1>4, RemoveVariantKept DEF RequestOK
<1>5. CASE t.op = "category"
    BY <1>1, <1>2, <1>5, CategoryKept DEF RequestOK
<1>6. CASE t.op = "mediaImport"
    BY <1>1, <1>6, MediaKept DEF RequestOK
<1>7. CASE t.op = "replace"
    BY <1>1, <1>7, ReplaceKept DEF RequestOK
<1>8. CASE t.op = "updateProduct"
    <2>1. t.on \in Owners /\ Exists(t.on)
        BY <1>8 DEF RequestOK, Owners
    <2>2. Exists(t.on)'
        BY <2>1, ExistsKept
    <2> QED
        BY <1>1, <1>8, <2>2 DEF RequestOK
<1>9. CASE t.op = "upload"
    <2>1. t.on \in Owners /\ Exists(t.on)
        BY <1>9 DEF RequestOK
    <2>2. Exists(t.on)'
        BY <2>1, ExistsKept
    <2> QED
        BY <1>1, <1>9, <2>2 DEF RequestOK
<1>10. CASE t.op = "apply"
    BY <1>1, <1>10 DEF RequestOK, RowsMove, BatchMove
<1>11. CASE t.op \notin {"publish", "removeVariant", "category", "mediaImport", "replace",
                         "updateProduct", "upload", "apply"}
    BY <1>1, <1>11 DEF RequestOK
<1> QED
    BY <1>3, <1>4, <1>5, <1>6, <1>7, <1>8, <1>9, <1>10, <1>11

-----------------------------------------------------------------------------
(* The invariant is kept by every step of this form. *)

\* What becomes of the other sessions
TxStep(s, X, O) ==
    /\ Free(s, X)
    /\ tx' = [q \in Sessions |-> tx'[q]]
    /\ \A q \in Sessions \ {s} :
         IF tx[q] = None THEN tx'[q] = None ELSE Kept(tx[q], tx'[q], O)

\* What becomes of the objects.  i is the image session s was about to record,
\* or None.
ObjectStep(s, i) ==
    /\ i # None => s \in Sessions /\ i = PendingImage(s)
    /\ \A j \in Images : j \in stored /\ j \notin stored' => j = i \/ db'.img[j].status = "DELETED"
    /\ i # None => db'.img[i].status = "NONE" \/ i \in stored' \/ i \in unsure'
    /\ s \in Sessions /\ PendingImage(s)' # None =>
         /\ PendingImage(s)' \in stored' /\ db'.img[PendingImage(s)'].status = "NONE"
         /\ PendingImage(s)' = PendingImage(s) \/ PendingImage(s)' \notin stored

LEMMA PendingKept ==
    ASSUME NEW q \in Sessions, NEW O,
           IF tx[q] = None THEN tx'[q] = None ELSE Kept(tx[q], tx'[q], O)
    PROVE  PendingImage(q)' \in {PendingImage(q), None}
BY DEF PendingImage, Working, Kept

LEMMA PendingTyped ==
    ASSUME NEW q \in Sessions, StorefrontInv, PendingImage(q) # None
    PROVE  PendingImage(q) \in Images
<1>1. tx[q] # None /\ RequestOK(tx[q])
    BY DEF PendingImage, Working, StorefrontInv
<1> QED
    BY <1>1 DEF PendingImage, Working, RequestOK

\* A live image is without its objects because it was before, or because its
\* own writer removed them.
LiveKept ==
    \A j \in Images : Live(j)' /\ j \notin stored' => (Live(j) /\ j \notin stored) \/ j \in unsure'

LEMMA ObjectsKept ==
    ASSUME NEW s \in Sessions \cup {None}, NEW X, NEW O, NEW i,
           StorefrontInv, TxStep(s, X, O), ImageMove(db, db', X, O, i), ObjectStep(s, i)
    PROVE  ObjectsOK' /\ LiveKept
<1>1. ASSUME NEW j \in Images, Live(j)', j \notin stored'
      PROVE  (Live(j) /\ j \notin stored) \/ j \in unsure'
    <2>1. i # None => i = PendingImage(s) /\ s \in Sessions /\ db.img[i].status = "NONE"
        BY DEF ObjectStep, StorefrontInv, ObjectsOK
    <2>2. CASE db.img[j].status # "NONE"
        <3>1. Live(j)
            BY <1>1, <2>2 DEF Live, ImageMove
        <3>2. j \in stored => j = i \/ db'.img[j].status = "DELETED"
            BY <1>1 DEF ObjectStep
        <3> QED
            BY <1>1, <2>1, <2>2, <3>1, <3>2, CatalogAssumption DEF Live
    <2>3. CASE db.img[j].status = "NONE"
        <3>1. j = i
            BY <1>1, <2>3 DEF Live, ImageMove
        <3> QED
            BY <1>1, <3>1, CatalogAssumption DEF ObjectStep, Live
    <2> QED
        BY <2>2, <2>3
<1>2. ASSUME NEW q \in Sessions \ {s} PROVE PendingImage(q)' \in {PendingImage(q), None}
    BY PendingKept DEF TxStep
<1>3. ASSUME NEW q \in Sessions \ {s}, PendingImage(q) # None
      PROVE  db'.img[PendingImage(q)].status = "NONE" /\ PendingImage(q) \in stored'
    <2>1. PICK j : j = PendingImage(q)
        OBVIOUS
    <2>2. j \in Images /\ db.img[j].status = "NONE" /\ j \in stored
        BY <1>3, <2>1, PendingTyped DEF StorefrontInv, ObjectsOK
    <2>3. j # i
        BY <1>3, <2>1 DEF ObjectStep, StorefrontInv, ObjectsOK
    <2>4. db'.img[j].status = "NONE"
        BY <2>2, <2>3 DEF ImageMove
    <2>5. j \in stored'
        BY <2>2, <2>3, <2>4 DEF ObjectStep
    <2> QED
        BY <2>1, <2>4, <2>5
<1>4. ASSUME s \in Sessions, PendingImage(s)' # None
      PROVE  /\ PendingImage(s)' \in stored' /\ db'.img[PendingImage(s)'].status = "NONE"
             /\ \A q \in Sessions \ {s} : PendingImage(q)' # PendingImage(s)'
    <2>1. PendingImage(s)' \in stored' /\ db'.img[PendingImage(s)'].status = "NONE"
        BY <1>4 DEF ObjectStep
    <2>2. ASSUME NEW q \in Sessions \ {s} PROVE PendingImage(q)' # PendingImage(s)'
        <3>1. PendingImage(q) # None => PendingImage(q) \in stored /\ PendingImage(q) # PendingImage(s)
            BY <1>4 DEF StorefrontInv, ObjectsOK
        <3>2. PendingImage(s)' = PendingImage(s) \/ PendingImage(s)' \notin stored
            BY <1>4 DEF ObjectStep
        <3> QED
            BY <1>2, <1>4, <3>1, <3>2
    <2> QED
        BY <2>1, <2>2
<1>5. ASSUME NEW q \in Sessions, NEW z \in Sessions \ {q}, PendingImage(q)' # None
      PROVE  PendingImage(z)' # PendingImage(q)'
    <2>1. CASE q # s /\ z # s
        <3>1. PendingImage(z) # PendingImage(q)
            BY <1>2, <1>5, <2>1 DEF StorefrontInv, ObjectsOK
        <3> QED
            BY <1>2, <1>5, <2>1, <3>1
    <2>2. CASE q = s
        BY <1>4, <1>5, <2>2
    <2>3. CASE z = s
        BY <1>4, <1>5, <2>3
    <2> QED
        BY <2>1, <2>2, <2>3
<1>6. ASSUME NEW q \in Sessions, PendingImage(q)' # None
      PROVE  db'.img[PendingImage(q)'].status = "NONE" /\ PendingImage(q)' \in stored'
    BY <1>2, <1>3, <1>4, <1>6
<1> QED
    BY <1>1, <1>5, <1>6 DEF ObjectsOK, LiveKept

\* What RollbackWithinBatch says of a step
RollbackKept ==
    \A b \in Batches :
        db.batch[b].status = "APPLIED" /\ db'.batch[b].status = "ROLLED_BACK" =>
            /\ db.edited[b] \cap OwnersOf(db.batch[b].payload) = {}
            /\ \A v \in Variants : db'.var[v] # db.var[v] => v \in db.batch[b].created
            /\ \A p \in Products : db'.prod[p] # db.prod[p] => p = db.batch[b].payload.product

StepKept == LiveKept /\ RollbackKept

LEMMA StepKeeps ==
    ASSUME NEW s \in Sessions \cup {None}, NEW X, NEW O, NEW i,
           StorefrontInv, TxStep(s, X, O), Sound(db)', RowsMove(db, db', X, O, i), ObjectStep(s, i),
           s \in Sessions /\ tx'[s] # None => RequestOK(tx[s])'
    PROVE  StorefrontInv' /\ StepKept
<1>1. ObjectsOK' /\ LiveKept
    BY ObjectsKept DEF RowsMove
<1>2. ASSUME NEW q \in Sessions, tx'[q] # None PROVE RequestOK(tx[q])'
    <2>1. CASE q = s
        BY <1>2, <2>1
    <2>2. CASE q # s
        <3>1. tx[q] # None /\ Kept(tx[q], tx'[q], O)
            BY <1>2, <2>2 DEF TxStep
        <3>2. RequestOK(tx[q])
            BY <3>1 DEF StorefrontInv
        <3>3. (tx[q].rd \cup tx[q].wr) \cap X = {}
            BY <2>2, <3>1 DEF TxStep, Free, Others
        <3>4. PICK t : t = tx[q]
            OBVIOUS
        <3>5. PICK u : u = tx'[q]
            OBVIOUS
        <3>6. RequestOK(u)'
            BY <3>1, <3>2, <3>3, <3>4, <3>5, OthersKept DEF StorefrontInv, Sound
        <3> QED
            BY <3>5, <3>6
    <2> QED
        BY <2>1, <2>2
<1>3. RollbackKept
    BY DEF RollbackKept, RowsMove, BatchMove
<1> QED
    BY <1>1, <1>2, <1>3 DEF StorefrontInv, TxStep, StepKept

-----------------------------------------------------------------------------
(* Steps that leave the rows alone *)

LEMMA NothingMoves ==
    ASSUME UNCHANGED db
    PROVE  RowsMove(db, db', {}, {}, None)
BY DEF RowsMove, ProductMove, VariantMove, CategoryMove, ImageMove, BatchMove

\* Only session s changes its state.
LEMMA OneSession ==
    ASSUME NEW s \in Sessions, StorefrontInv, NEW u, tx' = [tx EXCEPT ![s] = u]
    PROVE  TxStep(s, {}, {}) /\ tx'[s] = u
<1>1. \A q \in Sessions \ {s} : tx'[q] = tx[q]
    BY DEF StorefrontInv
<1>2. ASSUME NEW q \in Sessions, tx[q] # None
      PROVE  tx[q] = [op |-> tx[q].op, on |-> tx[q].on, arg |-> tx[q].arg, fresh |-> tx[q].fresh,
                      rd |-> tx[q].rd, wr |-> tx[q].wr]
    BY <1>2 DEF StorefrontInv, RequestOK
<1>3. \A q \in Sessions \ {s} :
         IF tx[q] = None THEN tx'[q] = None ELSE Kept(tx[q], tx'[q], {})
    BY <1>1, <1>2 DEF Kept
<1> QED
    BY <1>3 DEF TxStep, Free, StorefrontInv

\* A request begins, or one under way goes on without touching a row.
LEMMA RequestStep ==
    ASSUME NEW s \in Sessions, NEW u, StorefrontInv, UNCHANGED db, stored \subseteq stored',
           tx' = [tx EXCEPT ![s] = u], u # None => RequestOK(u)',
           PendingImage(s)' # None =>
             /\ PendingImage(s)' \in stored' /\ db'.img[PendingImage(s)'].status = "NONE"
             /\ PendingImage(s)' = PendingImage(s) \/ PendingImage(s)' \notin stored
    PROVE  StorefrontInv' /\ StepKept
<1>1. TxStep(s, {}, {}) /\ tx'[s] = u
    BY OneSession
<1>2. ObjectStep(s, None)
    BY DEF ObjectStep
<1>3. RowsMove(db, db', {}, {}, None)
    BY NothingMoves
<1>4. Sound(db)'
    BY DEF StorefrontInv, Sound, ImagesSound, ShelvesSound, BatchesSound
<1>5. tx'[s] # None => RequestOK(tx[s])'
    BY <1>1
<1> QED
    BY <1>1, <1>2, <1>3, <1>4, <1>5, StepKeeps

\* The same for a request that stores nothing.
LEMMA QuietStep ==
    ASSUME NEW s \in Sessions, NEW u, StorefrontInv, UNCHANGED <<db, stored>>,
           tx' = [tx EXCEPT ![s] = u], u # None => RequestOK(u)',
           u = None \/ u.op \notin {"upload", "replace", "mediaImport"}
             \/ (u.op = "mediaImport" /\ u.arg.image = None)
    PROVE  StorefrontInv' /\ StepKept
<1>1. tx'[s] = u
    BY DEF StorefrontInv
<1>2. PendingImage(s)' = None
    BY <1>1 DEF PendingImage, Working
<1> QED
    BY <1>2, RequestStep

LEMMA CreateProductBeginStep ==
    ASSUME StorefrontInv, NEW s \in Sessions, NEW p \in Products, NEW c \in Categories,
           NEW b \in Brands \cup {None}, CreateProductBegin(s, p, c, b)
    PROVE  StorefrontInv' /\ StepKept
<1> DEFINE u == [op |-> "createProduct", on |-> p, arg |-> [cat |-> c, brand |-> b],
                 fresh |-> {}, rd |-> {}, wr |-> {}]
<1>1. tx' = [tx EXCEPT ![s] = u] /\ UNCHANGED <<db, stored>>
    BY DEF CreateProductBegin, Begin
<1>2. RequestOK(u)'
    BY DEF RequestOK, References
<1> QED
    BY <1>1, <1>2, QuietStep

LEMMA UpdateProductBeginStep ==
    ASSUME StorefrontInv, NEW s \in Sessions, NEW p \in Products, NEW c \in Categories,
           NEW b \in Brands \cup {None}, NEW t \in MutableStatus, UpdateProductBegin(s, p, c, b, t)
    PROVE  StorefrontInv' /\ StepKept
<1> DEFINE u == [op |-> "updateProduct", on |-> p, arg |-> [cat |-> c, brand |-> b, status |-> t],
                 fresh |-> {p}, rd |-> {}, wr |-> {}]
<1>1. tx' = [tx EXCEPT ![s] = u] /\ UNCHANGED <<db, stored>>
    BY DEF UpdateProductBegin, Begin
<1>2. Exists(p)'
    BY <1>1, CatalogAssumption DEF UpdateProductBegin, Exists, ProductOfOwner, MutableStatus
<1>3. RequestOK(u)'
    BY <1>2 DEF RequestOK, References, UpdateProductBegin
<1> QED
    BY <1>1, <1>3, QuietStep

LEMMA PublishBeginStep ==
    ASSUME StorefrontInv, NEW s \in Sessions, NEW p \in Products, NEW c \in Categories,
           NEW b \in Brands \cup {None}, NEW y \in BOOLEAN, PublishBegin(s, p, c, b, y)
    PROVE  StorefrontInv' /\ StepKept
<1> DEFINE u == [op |-> "publish", on |-> p, arg |-> [cat |-> c, brand |-> b], fresh |-> {},
                 rd |-> {c, b} \cup VariantsOf(p) \cup {DeliveryConfig}, wr |-> {p}]
<1>1. tx' = [tx EXCEPT ![s] = u] /\ UNCHANGED <<db, stored>>
    BY DEF PublishBegin, Begin
<1>2. Exists(p)'
    BY <1>1, CatalogAssumption DEF PublishBegin, Exists, ProductOfOwner, MutableStatus
<1>3. OnShelf(db, c, b)'
    BY <1>1 DEF PublishBegin, ensureReferences, OnShelf
<1>4. (~ Unresolved(p))'
    <2>1. ~ Unresolved(p)
        BY DEF PublishBegin, validateMediaReview, validatePublication
    <2> QED
        BY <1>1, <2>1 DEF Unresolved, ImagesUnder, ImagesOf, Live
<1>5. (p \notin db.imported => Sellable(db, p, {}))'
    <2>1. CASE db.prod[p].status = "PUBLISHED"
        BY <1>1, <2>1 DEF StorefrontInv, Sound, ShelvesSound
    <2>2. CASE db.prod[p].status # "PUBLISHED"
        BY <1>1, <2>2 DEF PublishBegin, validatePublication, Sellable
    <2> QED
        BY <2>1, <2>2
<1>6. RequestOK(u)'
    BY <1>2, <1>3, <1>4, <1>5 DEF RequestOK, References
<1> QED
    BY <1>1, <1>6, QuietStep

LEMMA RemoveVariantBeginStep ==
    ASSUME StorefrontInv, NEW s \in Sessions, NEW v \in Variants,
           NEW t \in {"DRAFT", "SUSPENDED", "ARCHIVED"}, RemoveVariantBegin(s, v, t)
    PROVE  StorefrontInv' /\ StepKept
<1> DEFINE u == [op |-> "removeVariant", on |-> v, arg |-> [to |-> t], fresh |-> {},
                 rd |-> VariantsOf(ProductOf[v]), wr |-> {ProductOf[v], v}]
<1>1. tx' = [tx EXCEPT ![s] = u] /\ UNCHANGED <<db, stored>>
    BY DEF RemoveVariantBegin, Begin
<1>2. Exists(v)'
    BY <1>1 DEF RemoveVariantBegin, Exists, ProductOfOwner, StorefrontInv, Sound, ShelvesSound
<1>3. (db.prod[ProductOf[v]].status = "PUBLISHED" => Sellable(db, ProductOf[v], {v}))'
    BY <1>1 DEF RemoveVariantBegin, ensurePublishedProductRetainsSellableVariant, Sellable,
                publicSellableVariant
<1>4. RequestOK(u)'
    BY <1>2, <1>3 DEF RequestOK
<1> QED
    BY <1>1, <1>4, QuietStep

LEMMA CategoryBeginStep ==
    ASSUME StorefrontInv, NEW s \in Sessions, NEW c \in Categories, NEW parent \in Categories \cup {None},
           NEW t \in MutableStatus \cup {"ARCHIVED"}, CategoryBegin(s, c, parent, t)
    PROVE  StorefrontInv' /\ StepKept
<1> DEFINE u == [op |-> "category", on |-> c, arg |-> [parent |-> parent, to |-> t], fresh |-> {},
                 rd |-> {c, ProductsIn(c), ChildrenOf(c)} \cup Ancestors(parent), wr |-> {}]
<1>1. tx' = [tx EXCEPT ![s] = u] /\ UNCHANGED <<db, stored>>
    BY DEF CategoryBegin, Begin
<1>2. t # "PUBLISHED" /\ db.cat[c].status = "PUBLISHED" => ~ PublishedProductIn(c) /\ ~ PublishedChild(c)
    BY DEF CategoryBegin, statusBecomesNonPublic
<1>3. ASSUME parent # None
      PROVE  /\ c \notin Ancestors(parent)
             /\ db.cat[parent].status # "NONE"
             /\ t = "PUBLISHED" => db.cat[parent].status = "PUBLISHED"
    <2>1. CASE db.cat[c].status # "ARCHIVED" /\ t # "ARCHIVED"
        BY <1>3, <2>1 DEF CategoryBegin, MutableStatus
    <2>2. CASE db.cat[c].status = "ARCHIVED" \/ t = "ARCHIVED"
        <3>1. parent = db.cat[c].parent /\ t # "PUBLISHED"
            BY <2>2 DEF CategoryBegin
        <3> QED
            BY <1>3, <3>1 DEF StorefrontInv, Sound, ShelvesSound, Ancestors
    <2> QED
        BY <2>1, <2>2
<1>4. PICK rd : rd = u.rd
    OBVIOUS
<1> DEFINE w == [op |-> "category", on |-> c, arg |-> [parent |-> parent, to |-> t], fresh |-> {},
                 rd |-> rd, wr |-> {}]
<1>5. w = u
    BY <1>4
<1>6. /\ (t # "PUBLISHED" /\ db.cat[c].status = "PUBLISHED" => ~ PublishedProductIn(c) /\ ~ PublishedChild(c))'
      /\ {c, ProductsIn(c), ChildrenOf(c)} \subseteq rd
      /\ (parent # None => /\ Ancestors(parent) \subseteq rd
                           /\ c \notin Ancestors(parent)
                           /\ db.cat[parent].status # "NONE"
                           /\ t = "PUBLISHED" => db.cat[parent].status = "PUBLISHED")'
    BY <1>1, <1>2, <1>3, <1>4 DEF PublishedProductIn, PublishedChild, Ancestors
<1>7. RequestOK(w)'
    BY <1>6 DEF RequestOK
<1> HIDE DEF u
<1>8. tx' = [tx EXCEPT ![s] = w] /\ UNCHANGED <<db, stored>>
    BY <1>1, <1>5
<1> QED
    BY <1>7, <1>8, QuietStep

LEMMA UploadBeginStep ==
    ASSUME StorefrontInv, NEW s \in Sessions, NEW o \in Owners, NEW i \in Images, NEW y \in BOOLEAN,
           UploadBegin(s, o, i, y)
    PROVE  StorefrontInv' /\ StepKept
<1> DEFINE u == [op |-> "upload", on |-> o, arg |-> [image |-> i, primary |-> y],
                 fresh |-> {o}, rd |-> {}, wr |-> {}]
<1>1. tx' = [tx EXCEPT ![s] = u] /\ UNCHANGED db /\ stored' = stored \cup {i} /\ tx[s] = None
    BY DEF UploadBegin, Begin, Idle
<1>2. Exists(o)'
    BY <1>1, CatalogAssumption
       DEF UploadBegin, Exists, ProductOfOwner, Owners, StorefrontInv, Sound, ShelvesSound
<1>3. RequestOK(u)'
    BY <1>2 DEF RequestOK
<1>4. tx'[s] = u
    BY <1>1 DEF StorefrontInv
<1>5. PendingImage(s)' \in {i, None}
    BY <1>4 DEF PendingImage, Working
<1>6. i \in stored' /\ i \notin stored /\ db'.img[i].status = "NONE"
    BY <1>1 DEF UploadBegin, Unused
<1> QED
    BY <1>1, <1>3, <1>5, <1>6, RequestStep

LEMMA ReplaceBeginStep ==
    ASSUME StorefrontInv, NEW s \in Sessions, NEW i \in Images, NEW j \in Images, ReplaceBegin(s, i, j)
    PROVE  StorefrontInv' /\ StepKept
<1>1. PICK o, y : o = db.img[i].owner /\ y = db.img[i].primary
    OBVIOUS
<1> DEFINE u == [op |-> "replace", on |-> i, arg |-> [image |-> j, owner |-> o, primary |-> y],
                 fresh |-> {o}, rd |-> {}, wr |-> {}]
<1>2. tx' = [tx EXCEPT ![s] = u] /\ UNCHANGED db /\ stored' = stored \cup {j}
    BY <1>1 DEF ReplaceBegin, Begin
<1>3. y \in BOOLEAN
    BY <1>1, RowsTyped DEF StorefrontInv, Sound, ImageRow
<1>4. RequestOK(u)'
    BY <1>1, <1>2, <1>3 DEF RequestOK, ReplaceBegin
<1>5. tx'[s] = u
    BY <1>2 DEF StorefrontInv
<1>6. PendingImage(s)' \in {j, None}
    BY <1>5 DEF PendingImage, Working
<1>7. j \in stored' /\ j \notin stored /\ db'.img[j].status = "NONE"
    BY <1>2 DEF ReplaceBegin, Unused
<1> QED
    BY <1>2, <1>4, <1>6, <1>7, RequestStep

LEMMA ApplyBeginStep ==
    ASSUME StorefrontInv, NEW s \in Sessions, NEW b \in Batches, ApplyBegin(s, b)
    PROVE  StorefrontInv' /\ StepKept
<1>1. PICK pl : pl = db.batch[b].payload
    OBVIOUS
<1> DEFINE u == [op |-> "apply", on |-> b, arg |-> pl, fresh |-> {}, rd |-> {}, wr |-> {}]
<1>2. tx' = [tx EXCEPT ![s] = u] /\ UNCHANGED <<db, stored>>
    BY <1>1 DEF ApplyBegin, Begin
<1>3. RequestOK(u)'
    BY <1>1, <1>2 DEF ApplyBegin, RequestOK
<1> QED
    BY <1>2, <1>3, QuietStep

LEMMA MediaImportBeginStep ==
    ASSUME StorefrontInv, NEW s \in Sessions, NEW b \in Batches, MediaImportBegin(s, b)
    PROVE  StorefrontInv' /\ StepKept
<1>1. PICK O : O = OwnersOf(db.batch[b].payload)
    OBVIOUS
<1> DEFINE u == [op |-> "mediaImport", on |-> b, arg |-> [left |-> O, image |-> None, ok |-> TRUE],
                 fresh |-> O, rd |-> {}, wr |-> {}]
<1>2. tx' = [tx EXCEPT ![s] = u] /\ UNCHANGED <<db, stored>>
    BY <1>1 DEF MediaImportBegin, Begin
<1>3. O \cap db'.edited[b] = {} /\ db'.batch[b].status = "APPLIED" /\ O = OwnersOf(db'.batch[b].payload)
    BY <1>1, <1>2 DEF MediaImportBegin, StorefrontInv, Sound, BatchesSound
<1>4. RequestOK(u)'
    BY <1>3 DEF RequestOK
<1> QED
    BY <1>2, <1>4, QuietStep

\* What a media import under way knows
LEMMA ImportRequest ==
    ASSUME StorefrontInv, NEW s \in Sessions, Working(s, "mediaImport")
    PROVE  /\ tx[s] = [op |-> "mediaImport", on |-> tx[s].on, arg |-> tx[s].arg, fresh |-> tx[s].fresh,
                       rd |-> tx[s].rd, wr |-> tx[s].wr]
           /\ tx[s].on \in Batches /\ db.batch[tx[s].on].status \in {"APPLIED", "ROLLED_BACK"}
           /\ tx[s].arg = [left |-> tx[s].arg.left, image |-> tx[s].arg.image, ok |-> tx[s].arg.ok]
           /\ tx[s].arg.left \subseteq OwnersOf(db.batch[tx[s].on].payload)
           /\ tx[s].fresh \cap db.edited[tx[s].on] = {}
           /\ tx[s].arg.image # None =>
                /\ tx[s].arg.image \in OwnersOf(db.batch[tx[s].on].payload) \X Images
                /\ PendingImage(s) = tx[s].arg.image[2]
                /\ tx[s].arg.image[1] \in tx[s].fresh =>
                     \A i \in Images : ~ (db.img[i].owner = tx[s].arg.image[1] /\ CountedIn(db, i))
<1>1. RequestOK(tx[s]) /\ tx[s].op = "mediaImport"
    BY DEF StorefrontInv, Working
<1>2. tx[s].arg.image # None => PendingImage(s) = tx[s].arg.image[2]
    BY DEF PendingImage, Working
<1> QED
    BY <1>1, <1>2 DEF RequestOK

LEMMA DownloadImageStep ==
    ASSUME StorefrontInv, NEW s \in Sessions, NEW o \in Owners, NEW i \in Images, DownloadImage(s, o, i)
    PROVE  StorefrontInv' /\ StepKept
<1>1. PICK t : t = tx[s]
    OBVIOUS
<1> DEFINE a == [left |-> t.arg.left \ {o}, image |-> <<o, i>>, ok |-> t.arg.ok]
           u == [op |-> "mediaImport", on |-> t.on, arg |-> a, fresh |-> t.fresh, rd |-> t.rd, wr |-> t.wr]
<1>2. /\ t = [op |-> "mediaImport", on |-> t.on, arg |-> t.arg, fresh |-> t.fresh, rd |-> t.rd, wr |-> t.wr]
      /\ t.on \in Batches /\ db.batch[t.on].status \in {"APPLIED", "ROLLED_BACK"}
      /\ t.arg.left \subseteq OwnersOf(db.batch[t.on].payload)
      /\ t.fresh \cap db.edited[t.on] = {}
    BY <1>1, ImportRequest DEF DownloadImage
<1>3. tx' = [tx EXCEPT ![s] = u] /\ UNCHANGED db /\ stored' = stored \cup {i}
    <2>1. tx' = [tx EXCEPT ![s] = [t EXCEPT !.arg = a]]
        BY <1>1 DEF DownloadImage
    <2> HIDE DEF a
    <2>2. [t EXCEPT !.arg = a] = u
        BY <1>2
    <2> QED
        BY <2>1, <2>2 DEF DownloadImage
<1>4. o \in t.arg.left
    BY <1>1 DEF DownloadImage
<1>5. \A j \in Images : ~ (db.img[j].owner = o /\ CountedIn(db, j))
    BY DEF DownloadImage, ImagesOf, Live, CountedIn
<1>6. RequestOK(u)'
    <2>1. \A j \in Images : ~ (db'.img[j].owner = o /\ CountedIn(db', j))
        BY <1>3, <1>5
    <2>2. a.image = <<o, i>> /\ a.left = t.arg.left \ {o} /\ a = [left |-> a.left, image |-> a.image, ok |-> a.ok]
        OBVIOUS
    <2>3. a.image[1] = o /\ a.image \in OwnersOf(db'.batch[t.on].payload) \X Images
        BY <1>2, <1>3, <1>4, <2>2
    <2> HIDE DEF a
    <2> QED
        BY <1>2, <1>3, <2>1, <2>2, <2>3 DEF RequestOK
<1>7. tx'[s] = u
    BY <1>3 DEF StorefrontInv
<1>8. PendingImage(s)' \in {i, None}
    BY <1>7 DEF PendingImage, Working
<1>9. i \in stored' /\ i \notin stored /\ db'.img[i].status = "NONE"
    BY <1>3 DEF DownloadImage, Unused
<1> QED
    BY <1>3, <1>6, <1>8, <1>9, RequestStep

LEMMA SkipImageStep ==
    ASSUME StorefrontInv, NEW s \in Sessions, NEW o \in Owners, SkipImage(s, o)
    PROVE  StorefrontInv' /\ StepKept
<1>1. PICK clean \in BOOLEAN :
         tx' = [tx EXCEPT ![s] = [tx[s] EXCEPT !.arg = [left |-> tx[s].arg.left \ {o}, image |-> None,
                                                       ok |-> tx[s].arg.ok /\ clean]]]
    BY DEF SkipImage
<1>2. PICK t : t = tx[s]
    OBVIOUS
<1> DEFINE a == [left |-> t.arg.left \ {o}, image |-> None, ok |-> t.arg.ok /\ clean]
           u == [op |-> "mediaImport", on |-> t.on, arg |-> a, fresh |-> t.fresh, rd |-> t.rd, wr |-> t.wr]
<1>3. /\ t = [op |-> "mediaImport", on |-> t.on, arg |-> t.arg, fresh |-> t.fresh, rd |-> t.rd, wr |-> t.wr]
      /\ t.on \in Batches /\ db.batch[t.on].status \in {"APPLIED", "ROLLED_BACK"}
      /\ t.arg = [left |-> t.arg.left, image |-> t.arg.image, ok |-> t.arg.ok]
      /\ t.arg.left \subseteq OwnersOf(db.batch[t.on].payload)
      /\ t.fresh \cap db.edited[t.on] = {}
    BY <1>2, ImportRequest DEF SkipImage
<1>4. t.arg.image = None /\ UNCHANGED <<db, stored>>
    BY <1>2 DEF SkipImage
<1>5. tx' = [tx EXCEPT ![s] = u]
    <2>1. tx' = [tx EXCEPT ![s] = [t EXCEPT !.arg = a]]
        BY <1>1, <1>2
    <2> HIDE DEF a
    <2>2. [t EXCEPT !.arg = a] = u
        BY <1>3
    <2> QED
        BY <2>1, <2>2
<1>6. RequestOK(u)'
    BY <1>3, <1>4 DEF RequestOK
<1> QED
    BY <1>4, <1>5, <1>6, QuietStep

LEMMA AbortStep ==
    ASSUME StorefrontInv, NEW s \in Sessions, Abort(s) \/ ImportCrashes(s)
    PROVE  StorefrontInv' /\ StepKept
<1>1. tx' = [tx EXCEPT ![s] = None] /\ UNCHANGED <<db, stored>>
    BY DEF Abort, ImportCrashes
<1> QED
    BY <1>1, QuietStep

\* A commit ends session s and moves the versions of the owners in O.
LEMMA CommitTx ==
    ASSUME NEW s \in Sessions \cup {None}, NEW X, NEW O, StorefrontInv, Free(s, X), Increment(s, O)
    PROVE  TxStep(s, X, O) /\ (s \in Sessions => tx'[s] = None /\ PendingImage(s)' = None)
<1>1. ASSUME NEW q \in Sessions, tx[q] # None
      PROVE  tx[q] = [op |-> tx[q].op, on |-> tx[q].on, arg |-> tx[q].arg, fresh |-> tx[q].fresh,
                      rd |-> tx[q].rd, wr |-> tx[q].wr]
    BY <1>1 DEF StorefrontInv, RequestOK
<1>2. ASSUME NEW q \in Sessions \ {s}, tx[q] # None
      PROVE  Kept(tx[q], tx'[q], O)
    <2>1. PICK t : t = tx[q]
        OBVIOUS
    <2>2. tx'[q] = [t EXCEPT !.fresh = t.fresh \ O]
        BY <1>2, <2>1 DEF Increment
    <2>3. t = [op |-> t.op, on |-> t.on, arg |-> t.arg, fresh |-> t.fresh, rd |-> t.rd, wr |-> t.wr]
        BY <1>1, <1>2, <2>1
    <2>4. tx'[q] = [op |-> t.op, on |-> t.on, arg |-> t.arg, fresh |-> t.fresh \ O, rd |-> t.rd, wr |-> t.wr]
        BY <2>2, <2>3
    <2>5. Kept(t, tx'[q], O)
        BY <2>4 DEF Kept
    <2> QED
        BY <2>1, <2>5
<1>3. \A q \in Sessions \ {s} :
         IF tx[q] = None THEN tx'[q] = None ELSE Kept(tx[q], tx'[q], O)
    BY <1>2 DEF Increment
<1>4. tx' = [q \in Sessions |-> tx'[q]]
    BY DEF Increment
<1>5. s \in Sessions => tx'[s] = None
    BY DEF Increment
<1>6. s \in Sessions => PendingImage(s)' = None
    BY <1>5 DEF PendingImage, Working
<1> QED
    BY <1>3, <1>4, <1>5, <1>6 DEF TxStep

LEMMA WriteFailsStep ==
    ASSUME StorefrontInv, NEW s \in Sessions, WriteFails(s)
    PROVE  StorefrontInv' /\ StepKept
<1>1. PICK i : i = PendingImage(s)
    OBVIOUS
<1>2. PendingImage(s) = tx[s].arg.image
    BY DEF WriteFails, PendingImage
<1>3. PendingImage(s) # None
    <2>1. tx[s].arg.image \in Images
        BY DEF WriteFails, Working, StorefrontInv, RequestOK
    <2> QED
        BY <1>2, <2>1, CatalogAssumption
<1>4. TxStep(s, {}, {}) /\ tx'[s] = None /\ PendingImage(s)' = None
    <2>1. Free(s, {}) /\ Increment(s, {})
        BY DEF Free, WriteFails
    <2> QED
        BY <2>1, CommitTx
<1>5. UNCHANGED db /\ stored' \in {stored, stored \ {i}}
    BY <1>1, <1>2 DEF WriteFails, CleanUp
<1>6. db'.img[i].status = "NONE"
    BY <1>1, <1>3, <1>5 DEF StorefrontInv, ObjectsOK
<1>7. ObjectStep(s, i)
    BY <1>1, <1>4, <1>5, <1>6 DEF ObjectStep
<1>8. RowsMove(db, db', {}, {}, i)
    BY <1>5 DEF RowsMove, ProductMove, VariantMove, CategoryMove, ImageMove, BatchMove
<1>9. Sound(db)'
    BY <1>5 DEF StorefrontInv, Sound, ImagesSound, ShelvesSound, BatchesSound
<1> QED
    BY <1>4, <1>7, <1>8, <1>9, StepKeeps

LEMMA UploadRefusedStep ==
    ASSUME StorefrontInv, NEW s \in Sessions, UploadRefused(s)
    PROVE  StorefrontInv' /\ StepKept
<1>1. PICK t : t = tx[s]
    OBVIOUS
<1>2. PICK i : i = PendingImage(s)
    OBVIOUS
<1> DEFINE a == [left |-> t.arg.left, image |-> None, ok |-> FALSE]
           u == [op |-> "mediaImport", on |-> t.on, arg |-> a, fresh |-> t.fresh, rd |-> t.rd, wr |-> t.wr]
<1>3. /\ t = [op |-> "mediaImport", on |-> t.on, arg |-> t.arg, fresh |-> t.fresh, rd |-> t.rd, wr |-> t.wr]
      /\ t.on \in Batches /\ db.batch[t.on].status \in {"APPLIED", "ROLLED_BACK"}
      /\ t.arg.left \subseteq OwnersOf(db.batch[t.on].payload)
      /\ t.fresh \cap db.edited[t.on] = {}
      /\ t.arg.image[2] \in Images /\ i = t.arg.image[2]
    BY <1>1, <1>2, ImportRequest DEF UploadRefused
<1>4. tx' = [tx EXCEPT ![s] = u] /\ UNCHANGED db /\ stored' \in {stored, stored \ {i}}
    <2>1. tx' = [tx EXCEPT ![s] = [t EXCEPT !.arg = a]]
        BY <1>1 DEF UploadRefused
    <2> HIDE DEF a
    <2>2. [t EXCEPT !.arg = a] = u
        BY <1>3
    <2> QED
        BY <1>1, <1>3, <2>1, <2>2 DEF UploadRefused, CleanUp
<1>5. TxStep(s, {}, {}) /\ tx'[s] = u
    BY <1>4, OneSession
<1>6. PendingImage(s)' = None
    BY <1>5 DEF PendingImage, Working
<1>7. i # None /\ db'.img[i].status = "NONE"
    BY <1>2, <1>3, <1>4, CatalogAssumption DEF StorefrontInv, ObjectsOK
<1>8. ObjectStep(s, i)
    BY <1>2, <1>4, <1>6, <1>7 DEF ObjectStep
<1>9. RowsMove(db, db', {}, {}, i)
    BY <1>4 DEF RowsMove, ProductMove, VariantMove, CategoryMove, ImageMove, BatchMove
<1>10. Sound(db)'
    BY <1>4 DEF StorefrontInv, Sound, ImagesSound, ShelvesSound, BatchesSound
<1>11. RequestOK(u)'
    BY <1>3, <1>4 DEF RequestOK
<1>12. RequestOK(tx[s])'
    BY <1>5, <1>11
<1> QED
    BY <1>5, <1>8, <1>9, <1>10, <1>12, StepKeeps

LEMMA SameSessions ==
    ASSUME NEW X, StorefrontInv, Free(None, X), UNCHANGED tx
    PROVE  TxStep(None, X, {})
<1>1. ASSUME NEW q \in Sessions, tx[q] # None
      PROVE  Kept(tx[q], tx'[q], {})
    <2>1. tx[q] = [op |-> tx[q].op, on |-> tx[q].on, arg |-> tx[q].arg, fresh |-> tx[q].fresh,
                   rd |-> tx[q].rd, wr |-> tx[q].wr]
        BY <1>1 DEF StorefrontInv, RequestOK
    <2> QED
        BY <2>1 DEF Kept
<1> QED
    BY <1>1 DEF TxStep, StorefrontInv

LEMMA WorkerStep ==
    ASSUME StorefrontInv, (\E i \in Images : WorkerDeletes(i)) \/ LeaseExpires
    PROVE  StorefrontInv' /\ StepKept
<1>1. UNCHANGED <<db, tx>>
    BY DEF WorkerDeletes, LeaseExpires
<1>2. TxStep(None, {}, {})
    BY <1>1, SameSessions DEF Free
<1>3. ASSUME NEW j \in Images, j \in stored, j \notin stored' PROVE db'.img[j].status = "DELETED"
    BY <1>1, <1>3 DEF WorkerDeletes, LeaseExpires, StorefrontInv, Sound, ImagesSound
<1>4. ObjectStep(None, None)
    BY <1>3, CatalogAssumption DEF ObjectStep
<1>5. RowsMove(db, db', {}, {}, None)
    BY <1>1, NothingMoves
<1>6. Sound(db)'
    BY <1>1 DEF StorefrontInv, Sound, ImagesSound, ShelvesSound, BatchesSound
<1> QED
    BY <1>2, <1>4, <1>5, <1>6, StepKeeps, CatalogAssumption

-----------------------------------------------------------------------------
(* Steps that leave some of the tables alone *)

LEMMA ProductOfOwnerTyped ==
    ASSUME NEW o \in Owners
    PROVE  ProductOfOwner(o) \in Products
BY CatalogAssumption DEF Owners, ProductOfOwner

\* The images stay, and no product loses its flag with an image pending.
ImagesStay(r, n) ==
    /\ n.img = r.img /\ n.queued = r.queued
    /\ \A p \in Products :
         /\ r.prod[p].status # "NONE" => n.prod[p].status # "NONE"
         /\ r.prod[p].review => n.prod[p].review \/
              \A i \in Images : r.img[i].status = "PENDING" => ProductOfOwner(r.img[i].owner) # p

LEMMA ImagesStaySound ==
    ASSUME NEW r, NEW n, ImagesSound(r), ImagesStay(r, n)
    PROVE  ImagesSound(n) /\ \A X, O, i : ImageMove(r, n, X, O, i)
<1>1. \A j \in Images : LiveIn(n, j) = LiveIn(r, j) /\ CountedIn(n, j) = CountedIn(r, j)
    BY DEF ImagesStay, LiveIn, CountedIn
<1>2. ASSUME NEW j \in Images, r.img[j].status # "NONE"
      PROVE  /\ r.img[j].owner \in Owners
             /\ n.prod[ProductOfOwner(r.img[j].owner)].status # "NONE"
    BY <1>2, ProductOfOwnerTyped DEF ImagesSound, ImagesStay
<1>3. ASSUME NEW j \in Images, r.img[j].status = "PENDING"
      PROVE  n.prod[ProductOfOwner(r.img[j].owner)].review
    BY <1>2, <1>3, ProductOfOwnerTyped DEF ImagesSound, ImagesStay
<1>4. ImagesSound(n)
    BY <1>1, <1>2, <1>3 DEF ImagesSound, ImagesStay
<1> QED
    BY <1>4 DEF ImageMove, ImagesStay

\* What decides about publication stays.
ShelvesStay(r, n) ==
    /\ \A p \in Products : /\ n.prod[p].status = r.prod[p].status
                           /\ n.prod[p].cat = r.prod[p].cat /\ n.prod[p].brand = r.prod[p].brand
    /\ \A v \in Variants : n.var[v].status = r.var[v].status /\ n.var[v].price = r.var[v].price
    /\ n.brand = r.brand /\ n.cat = r.cat /\ n.imported = r.imported

LEMMA ShelvesStaySound ==
    ASSUME NEW r, NEW n, ShelvesSound(r), ShelvesStay(r, n)
    PROVE  /\ ShelvesSound(n)
           /\ \A X : ProductMove(r, n, X) /\ VariantMove(r, n, X) /\ CategoryMove(r, n, X)
           /\ r.imported \subseteq n.imported
<1>1. \A p \in Products : \A W : Sellable(n, p, W) = Sellable(r, p, W)
    BY DEF Sellable, VariantsOf, ShelvesStay
<1>2. \A c, b : OnShelf(n, c, b) = OnShelf(r, c, b)
    BY DEF OnShelf, ShelvesStay
<1>3. \A v \in Variants : n.var[v].status # "NONE" => n.prod[ProductOf[v]].status # "NONE"
    BY CatalogAssumption DEF ShelvesSound, ShelvesStay
<1>4. ShelvesSound(n)
    BY <1>1, <1>2, <1>3 DEF ShelvesSound, ShelvesStay
<1>5. \A X : ProductMove(r, n, X) /\ VariantMove(r, n, X) /\ CategoryMove(r, n, X)
    BY DEF ShelvesStay, ProductMove, VariantMove, CategoryMove
<1> QED
    BY <1>4, <1>5 DEF ShelvesStay

\* No batch gains an owner, or is edited in one that still has its version.
BatchesStay(r, n, O) ==
    \A b \in Batches :
        /\ n.batch[b].status = r.batch[b].status /\ n.batch[b].payload = r.batch[b].payload
        /\ n.batch[b].same \subseteq r.batch[b].same
        /\ \/ n.edited[b] = r.edited[b]
           \/ n.edited[b] = r.edited[b] \cup O /\ n.batch[b].same \cap O = {}

LEMMA BatchesStaySound ==
    ASSUME NEW r, NEW n, NEW O, r \in Rows, BatchesSound(r), BatchesStay(r, n, O),
           \A p \in Products : r.prod[p].status # "NONE" => n.prod[p].status # "NONE"
    PROVE  BatchesSound(n) /\ BatchMove(r, n, O)
<1>1. ASSUME NEW b \in Batches
      PROVE  /\ n.batch[b].same \cap n.edited[b] = {}
             /\ n.edited[b] \subseteq r.edited[b] \cup O
    BY DEF BatchesSound, BatchesStay
<1>2. ASSUME NEW b \in Batches, n.batch[b].status \in {"APPLIED", "ROLLED_BACK"}
      PROVE  n.prod[n.batch[b].payload.product].status # "NONE"
    BY <1>2, PayloadAssumption DEF BatchesSound, BatchesStay, PayloadRow
<1>3. BatchesSound(n)
    BY <1>1, <1>2 DEF BatchesSound, BatchesStay
<1> QED
    BY <1>1, <1>3 DEF BatchMove, BatchesStay

LEMMA EditedStay ==
    ASSUME NEW r \in Rows, NEW n, NEW O \in SUBSET Owners,
           n.batch = Edited(r, O).batch, n.edited = Edited(r, O).edited
    PROVE  BatchesStay(r, n, O)
<1>1. ASSUME NEW b \in Batches
      PROVE  /\ n.batch[b] = [r.batch[b] EXCEPT !.same = r.batch[b].same \ O]
             /\ n.edited[b] = r.edited[b] \cup (IF r.batch[b].status = "APPLIED" THEN O ELSE {})
    BY EditedRows
<1>2. ASSUME NEW b \in Batches
      PROVE  r.batch[b] \in BatchRow
    BY RowsTyped
<1>3. ASSUME NEW b \in Batches
      PROVE  /\ n.batch[b].status = r.batch[b].status /\ n.batch[b].payload = r.batch[b].payload
             /\ n.batch[b].same = r.batch[b].same \ O
    BY <1>1, <1>2 DEF BatchRow
<1>4. ASSUME NEW b \in Batches
      PROVE  n.edited[b] = r.edited[b] \/ n.edited[b] = r.edited[b] \cup O
    BY <1>1
<1> QED
    BY <1>3, <1>4 DEF BatchesStay

-----------------------------------------------------------------------------
(* Products *)

\* The row of one product changes.
LEMMA ProductWritten ==
    ASSUME StorefrontInv, NEW s \in Sessions \cup {None}, NEW X, NEW O, NEW p \in Products,
           NEW row \in ProductRow, NEW n,
           TxStep(s, X, O), s \in Sessions => tx'[s] = None /\ PendingImage(s)' = None,
           n = [db EXCEPT !.prod[p] = row], UNCHANGED stored,
           \/ db' = n /\ O = {}
           \/ db' = Edited(n, {p}) /\ O = {p},
           row.status # "NONE",
           row.review \/ ~ db.prod[p].review \/ ~ Unresolved(p),
           row.status = "PUBLISHED" =>
             /\ \/ /\ db.prod[p].status = "PUBLISHED"
                   /\ row.cat = db.prod[p].cat /\ row.brand = db.prod[p].brand
                \/ {p, ProductsIn(row.cat), ProductsIn(row.brand)} \subseteq X
             /\ p \notin db.imported => OnShelf(db, row.cat, row.brand) /\ Sellable(db, p, {})
    PROVE  StorefrontInv' /\ StepKept
<1>1. db \in Rows /\ ImagesSound(db) /\ ShelvesSound(db) /\ BatchesSound(db)
    BY DEF StorefrontInv, Sound
<1> DEFINE t == [db.prod EXCEPT ![p] = row]
<1>2. t \in [Products -> ProductRow] /\ t[p] = row /\ \A q \in Products \ {p} : t[q] = db.prod[q]
    BY <1>1, RowsTyped
<1>3. n = [db EXCEPT !.prod = t]
    OBVIOUS
<1> HIDE DEF t
<1>4. n \in Rows /\ Keeps(db, n, {"prod"}) /\ n.prod = t
    <2>1. PICK r : r = db
        OBVIOUS
    <2>2. /\ [r EXCEPT !.prod = t] \in Rows /\ Keeps(r, [r EXCEPT !.prod = t], {"prod"})
          /\ [r EXCEPT !.prod = t].prod = t
        BY <1>1, <1>2, <2>1, WithProducts
    <2> QED
        BY <1>3, <2>1, <2>2
<1>5. /\ n.var = db.var /\ n.brand = db.brand /\ n.cat = db.cat /\ n.img = db.img
      /\ n.batch = db.batch /\ n.queued = db.queued /\ n.imported = db.imported /\ n.edited = db.edited
    BY <1>4 DEF Keeps, Tables
<1>6. /\ db' \in Rows /\ db'.prod = t /\ db'.var = db.var /\ db'.brand = db.brand /\ db'.cat = db.cat
      /\ db'.img = db.img /\ db'.queued = db.queued /\ db'.imported = db.imported
      /\ BatchesStay(db, db', O)
    <2>1. CASE db' = n /\ O = {}
        <3>1. BatchesStay(db, db', O)
            BY <1>5, <2>1 DEF BatchesStay
        <3> QED
            BY <1>4, <1>5, <2>1, <3>1
    <2>2. CASE db' = Edited(n, {p}) /\ O = {p}
        <3>1. {p} \in SUBSET Owners
            BY DEF Owners
        <3>2. Edited(n, {p}) \in Rows /\ Keeps(n, Edited(n, {p}), {"batch", "edited"})
            BY <1>4, <3>1, EditedRows
        <3>3. BatchesStay(n, db', O)
            BY <1>4, <2>2, <3>1, EditedStay
        <3>4. BatchesStay(db, db', O)
            BY <1>5, <3>3 DEF BatchesStay
        <3> QED
            BY <1>4, <1>5, <2>2, <3>2, <3>4 DEF Keeps, Tables
    <2> QED
        BY <2>1, <2>2
<1>7. \A q \in Products : db.prod[q].status # "NONE" => db'.prod[q].status # "NONE"
    BY <1>2, <1>6
<1>8. ImagesStay(db, db')
    <2>1. ASSUME NEW q \in Products, db.prod[q].review, ~ db'.prod[q].review,
                 NEW i \in Images, db.img[i].status = "PENDING", ProductOfOwner(db.img[i].owner) = q
          PROVE  FALSE
        <3>1. q = p /\ ~ Unresolved(p)
            BY <1>2, <1>6, <2>1
        <3>2. db.img[i].owner \in Owners
            BY <1>1, <2>1 DEF ImagesSound
        <3>3. db.img[i].owner \in {p} \cup VariantsOf(p)
            BY <2>1, <3>1, <3>2 DEF ProductOfOwner, VariantsOf, Owners
        <3> QED
            BY <2>1, <3>1, <3>3 DEF Unresolved, ImagesUnder, ImagesOf, Live
    <2> QED
        BY <1>6, <1>7, <2>1 DEF ImagesStay
<1>9. ShelvesSound(db')
    <2>1. \A q \in Products : \A W : Sellable(db', q, W) = Sellable(db, q, W)
        BY <1>6 DEF Sellable
    <2>2. \A c, b : OnShelf(db', c, b) = OnShelf(db, c, b)
        BY <1>6 DEF OnShelf
    <2>3. ASSUME NEW q \in Products \ db'.imported, db'.prod[q].status = "PUBLISHED"
          PROVE  OnShelf(db', db'.prod[q].cat, db'.prod[q].brand) /\ Sellable(db', q, {})
        <3>1. CASE q = p
            BY <1>2, <1>6, <2>1, <2>2, <2>3, <3>1
        <3>2. CASE q # p
            BY <1>1, <1>2, <1>6, <2>1, <2>2, <2>3, <3>2 DEF ShelvesSound
        <3> QED
            BY <3>1, <3>2
    <2>4. \A v \in Variants : db'.var[v].status # "NONE" => db'.prod[ProductOf[v]].status # "NONE"
        BY <1>1, <1>6, <1>7, CatalogAssumption DEF ShelvesSound
    <2>5. \A c \in Categories : db'.cat[c].parent # None =>
            /\ db'.cat[c].status = "PUBLISHED" => db'.cat[db'.cat[c].parent].status = "PUBLISHED"
            /\ db'.cat[db'.cat[c].parent].status # "NONE"
            /\ c \notin AncestorsIn(db'.cat, db'.cat[c].parent)
        BY <1>1, <1>6 DEF ShelvesSound
    <2> QED
        BY <2>3, <2>4, <2>5 DEF ShelvesSound
<1>10. BatchesSound(db') /\ BatchMove(db, db', O)
    BY <1>1, <1>6, <1>7, BatchesStaySound
<1>11. ImagesSound(db') /\ ImageMove(db, db', X, O, None)
    BY <1>1, <1>8, ImagesStaySound
<1>12. ProductMove(db, db', X)
    BY <1>2, <1>6, <1>7 DEF ProductMove
<1>13. VariantMove(db, db', X) /\ CategoryMove(db, db', X)
    BY <1>6 DEF VariantMove, CategoryMove
<1>14. RowsMove(db, db', X, O, None)
    BY <1>6, <1>10, <1>11, <1>12, <1>13 DEF RowsMove
<1>15. Sound(db)'
    BY <1>6, <1>9, <1>10, <1>11 DEF Sound
<1>16. ObjectStep(s, None)
    BY DEF ObjectStep
<1> QED
    BY <1>14, <1>15, <1>16, StepKeeps

LEMMA CreateProductCommitStep ==
    ASSUME StorefrontInv, NEW s \in Sessions, CreateProductCommit(s)
    PROVE  StorefrontInv' /\ StepKept
<1>1. PICK p, a : p = tx[s].on /\ a = tx[s].arg
    OBVIOUS
<1>2. p \in Products /\ References(a)
    BY <1>1 DEF CreateProductCommit, Working, StorefrontInv, RequestOK
<1>3. PICK X : X = {ProductsIn(a.cat), ProductsIn(a.brand)}
    OBVIOUS
<1>4. TxStep(s, X, {}) /\ tx'[s] = None /\ PendingImage(s)' = None
    <2>1. Free(s, X) /\ Increment(s, {})
        BY <1>1, <1>3 DEF CreateProductCommit
    <2> QED
        BY <2>1, CommitTx
<1>5. PICK row : row = [status |-> "DRAFT", cat |-> a.cat, brand |-> a.brand, review |-> FALSE]
    OBVIOUS
<1>6. PICK n : n = [db EXCEPT !.prod[p] = row]
    OBVIOUS
<1>7. db' = n /\ UNCHANGED stored
    BY <1>1, <1>5, <1>6 DEF CreateProductCommit
<1>8. row \in ProductRow /\ row.status = "DRAFT"
    BY <1>2, <1>5 DEF ProductRow, References, PublicationStatus
<1>9. ~ Unresolved(p)
    <2> SUFFICES ASSUME NEW i \in Images, db.img[i].status = "PENDING", db.img[i].owner \in {p} \cup VariantsOf(p)
                 PROVE  FALSE
        BY DEF Unresolved, ImagesUnder, ImagesOf, Live
    <2>1. ProductOfOwner(db.img[i].owner) = p
        BY <1>2, CatalogAssumption DEF ProductOfOwner, VariantsOf
    <2>2. db.prod[p].status # "NONE"
        BY <2>1 DEF StorefrontInv, Sound, ImagesSound
    <2> QED
        BY <1>1, <2>2 DEF CreateProductCommit
<1> QED
    BY <1>2, <1>4, <1>6, <1>7, <1>8, <1>9, ProductWritten

LEMMA UpdateProductCommitStep ==
    ASSUME StorefrontInv, NEW s \in Sessions, UpdateProductCommit(s)
    PROVE  StorefrontInv' /\ StepKept
<1>1. PICK p, a : p = tx[s].on /\ a = tx[s].arg
    OBVIOUS
<1>2. p \in Products /\ References(a) /\ a.status \in MutableStatus \ {"PUBLISHED"}
    BY <1>1 DEF UpdateProductCommit, Working, StorefrontInv, RequestOK
<1>3. PICK X : X = ProductWrite(p, a.cat, a.brand)
    OBVIOUS
<1>4. TxStep(s, X, {p}) /\ tx'[s] = None /\ PendingImage(s)' = None
    <2>1. Free(s, X) /\ Increment(s, {p})
        BY <1>1, <1>3 DEF UpdateProductCommit
    <2> QED
        BY <2>1, CommitTx
<1>5. PICK row : row = [db.prod[p] EXCEPT !.cat = a.cat, !.brand = a.brand, !.status = a.status]
    OBVIOUS
<1>6. PICK n : n = [db EXCEPT !.prod[p] = row]
    OBVIOUS
<1>7. db' = Edited(n, {p}) /\ UNCHANGED stored
    BY <1>1, <1>5, <1>6 DEF UpdateProductCommit
<1>8. db.prod[p] \in ProductRow
    BY <1>2, RowsTyped DEF StorefrontInv, Sound
<1>9. row \in ProductRow /\ row.status = a.status /\ row.review = db.prod[p].review
    BY <1>2, <1>5, <1>8 DEF ProductRow, References, PublicationStatus, MutableStatus
<1>10. row.status # "NONE" /\ row.status # "PUBLISHED"
    BY <1>2, <1>9 DEF MutableStatus
<1>11. row.review \/ ~ db.prod[p].review
    BY <1>9
<1> QED
    BY <1>2, <1>4, <1>6, <1>7, <1>9, <1>10, <1>11, ProductWritten

LEMMA PublishCommitStep ==
    ASSUME StorefrontInv, NEW s \in Sessions, PublishCommit(s)
    PROVE  StorefrontInv' /\ StepKept
<1>1. PICK p, a : p = tx[s].on /\ a = tx[s].arg
    OBVIOUS
<1>2. /\ p \in Products /\ References(a)
      /\ OnShelf(db, a.cat, a.brand)
      /\ ~ Unresolved(p)
      /\ p \notin db.imported => Sellable(db, p, {})
    BY <1>1 DEF PublishCommit, Working, StorefrontInv, RequestOK
<1>3. PICK X : X = ProductWrite(p, a.cat, a.brand)
    OBVIOUS
<1>4. TxStep(s, X, {p}) /\ tx'[s] = None /\ PendingImage(s)' = None
    <2>1. Free(s, X) /\ Increment(s, {p})
        BY <1>1, <1>3 DEF PublishCommit
    <2> QED
        BY <2>1, CommitTx
<1>5. PICK row : row = [status |-> "PUBLISHED", cat |-> a.cat, brand |-> a.brand, review |-> FALSE]
    OBVIOUS
<1>6. PICK n : n = [db EXCEPT !.prod[p] = row]
    OBVIOUS
<1>7. db' = Edited(n, {p}) /\ UNCHANGED stored
    BY <1>1, <1>5, <1>6 DEF PublishCommit
<1>8. row \in ProductRow /\ row.status = "PUBLISHED" /\ row.cat = a.cat /\ row.brand = a.brand
    BY <1>2, <1>5 DEF ProductRow, References, PublicationStatus
<1>9. {p, ProductsIn(row.cat), ProductsIn(row.brand)} \subseteq X
    BY <1>3, <1>8 DEF ProductWrite
<1>10. p \notin db.imported => OnShelf(db, row.cat, row.brand) /\ Sellable(db, p, {})
    BY <1>2, <1>8
<1> QED
    BY <1>2, <1>4, <1>6, <1>7, <1>8, <1>9, <1>10, ProductWritten

LEMMA ConfirmMediaReviewStep ==
    ASSUME StorefrontInv, NEW p \in Products, ConfirmMediaReview(p)
    PROVE  StorefrontInv' /\ StepKept
<1>1. TxStep(None, {p}, {p})
    BY CommitTx, CatalogAssumption DEF ConfirmMediaReview
<1>2. PICK row : row = [db.prod[p] EXCEPT !.review = FALSE]
    OBVIOUS
<1>3. PICK n : n = [db EXCEPT !.prod[p] = row]
    OBVIOUS
<1>4. db' = Edited(n, {p}) /\ UNCHANGED stored
    BY <1>2, <1>3 DEF ConfirmMediaReview
<1>5. db.prod[p] \in ProductRow
    BY RowsTyped DEF StorefrontInv, Sound
<1>6. row \in ProductRow /\ row.status = "DRAFT"
    BY <1>2, <1>5 DEF ProductRow, ConfirmMediaReview
<1>7. ~ Unresolved(p) /\ None \notin Sessions
    BY CatalogAssumption DEF ConfirmMediaReview
<1> QED
    BY <1>1, <1>3, <1>4, <1>6, <1>7, ProductWritten

LEMMA ChangeProductArchiveStep ==
    ASSUME StorefrontInv, NEW p \in Products, ChangeProductArchive(p)
    PROVE  StorefrontInv' /\ StepKept
<1>1. PICK X : X = {p, ProductsIn(db.prod[p].cat), ProductsIn(db.prod[p].brand)}
    OBVIOUS
<1>2. TxStep(None, X, {p})
    BY <1>1, CommitTx, CatalogAssumption DEF ChangeProductArchive
<1>3. PICK to \in {"DRAFT", "ARCHIVED"} : to = IF db.prod[p].status = "ARCHIVED" THEN "DRAFT" ELSE "ARCHIVED"
    OBVIOUS
<1>4. PICK row : row = [db.prod[p] EXCEPT !.status = to]
    OBVIOUS
<1>5. PICK n : n = [db EXCEPT !.prod[p] = row]
    OBVIOUS
<1>6. db' = Edited(n, {p}) /\ UNCHANGED stored
    BY <1>3, <1>4, <1>5 DEF ChangeProductArchive
<1>7. db.prod[p] \in ProductRow
    BY RowsTyped DEF StorefrontInv, Sound
<1>8. row \in ProductRow /\ row.status = to /\ row.review = db.prod[p].review
    BY <1>4, <1>7 DEF ProductRow, PublicationStatus
<1>9. None \notin Sessions /\ (row.review \/ ~ db.prod[p].review)
    BY <1>8, CatalogAssumption
<1> QED
    BY <1>2, <1>5, <1>6, <1>8, <1>9, ProductWritten

-----------------------------------------------------------------------------
(* Variants *)

\* Rows d are rows n, possibly marked as an administrator's edit.
WrittenAs(d, n, O) == O \subseteq Owners /\ ((d = n /\ O = {}) \/ d = Edited(n, O))

LEMMA MaybeEdited ==
    ASSUME NEW r \in Rows, NEW n \in Rows, NEW d, NEW O, WrittenAs(d, n, O),
           n.batch = r.batch, n.edited = r.edited
    PROVE  d \in Rows /\ BatchesStay(r, d, O) /\ Keeps(n, d, {"batch", "edited"})
<1>0. O \in SUBSET Owners
    BY DEF WrittenAs
<1>1. CASE d = n /\ O = {}
    BY <1>1 DEF BatchesStay, Keeps, Tables
<1>2. CASE d = Edited(n, O)
    <2>1. Edited(n, O) \in Rows /\ Keeps(n, Edited(n, O), {"batch", "edited"})
        BY <1>0, EditedRows
    <2>2. BatchesStay(n, d, O)
        BY <1>0, <1>2, EditedStay
    <2>3. BatchesStay(r, d, O)
        BY <2>2 DEF BatchesStay
    <2> QED
        BY <1>2, <2>1, <2>3
<1> QED
    BY <1>1, <1>2 DEF WrittenAs

\* The row of one variant changes.
LEMMA VariantWritten ==
    ASSUME StorefrontInv, NEW s \in Sessions \cup {None}, NEW X, NEW O, NEW v \in Variants,
           NEW row \in VariantRow, NEW n,
           TxStep(s, X, O), s \in Sessions => tx'[s] = None /\ PendingImage(s)' = None,
           n = [db EXCEPT !.var[v] = row], UNCHANGED stored,
           (db' = n /\ O = {}) \/ (db' = Edited(n, O) /\ O = {v}),
           db.prod[ProductOf[v]].status # "NONE",
           v \in X \/ (row.status = db.var[v].status /\ row.price = db.var[v].price),
           \/ row.status = "PUBLISHED" /\ row.price > 0
           \/ ~ (db.var[v].status = "PUBLISHED" /\ db.var[v].price > 0)
           \/ row.status = db.var[v].status /\ row.price = db.var[v].price
           \/ db.prod[ProductOf[v]].status = "PUBLISHED" => Sellable(db, ProductOf[v], {v})
    PROVE  StorefrontInv' /\ StepKept
<1>1. db \in Rows /\ ImagesSound(db) /\ ShelvesSound(db) /\ BatchesSound(db)
    BY DEF StorefrontInv, Sound
<1> DEFINE t == [db.var EXCEPT ![v] = row]
<1>2. t \in [Variants -> VariantRow] /\ t[v] = row /\ \A w \in Variants \ {v} : t[w] = db.var[w]
    BY <1>1, RowsTyped
<1>3. n = [db EXCEPT !.var = t]
    OBVIOUS
<1> HIDE DEF t
<1>4. PICK r : r = db
    OBVIOUS
<1>5. n \in Rows /\ Keeps(r, n, {"var"}) /\ n.var = t
    <2>1. /\ [r EXCEPT !.var = t] \in Rows /\ Keeps(r, [r EXCEPT !.var = t], {"var"})
          /\ [r EXCEPT !.var = t].var = t
        BY <1>1, <1>2, <1>4, WithVariants
    <2> QED
        BY <1>3, <1>4, <2>1
<1>6. /\ n.prod = db.prod /\ n.brand = db.brand /\ n.cat = db.cat /\ n.img = db.img
      /\ n.batch = db.batch /\ n.queued = db.queued /\ n.imported = db.imported /\ n.edited = db.edited
    BY <1>4, <1>5 DEF Keeps, Tables
<1>7. O \in SUBSET Owners
    BY DEF Owners
<1>8. /\ db' \in Rows /\ db'.prod = db.prod /\ db'.var = t /\ db'.brand = db.brand /\ db'.cat = db.cat
      /\ db'.img = db.img /\ db'.queued = db.queued /\ db'.imported = db.imported
      /\ BatchesStay(db, db', O)
    <2>1. PICK d : d = db'
        OBVIOUS
    <2>2. d \in Rows /\ BatchesStay(r, d, O) /\ Keeps(n, d, {"batch", "edited"})
        <3>1. r \in Rows /\ n \in Rows /\ n.batch = r.batch /\ n.edited = r.edited
            BY <1>1, <1>4, <1>5, <1>6
        <3>2. WrittenAs(d, n, O)
            BY <1>7, <2>1 DEF WrittenAs
        <3> QED
            BY <3>1, <3>2, MaybeEdited
    <2>3. /\ d.prod = n.prod /\ d.var = n.var /\ d.brand = n.brand /\ d.cat = n.cat /\ d.img = n.img
          /\ d.queued = n.queued /\ d.imported = n.imported
        BY <2>2 DEF Keeps, Tables
    <2> QED
        BY <1>4, <1>5, <1>6, <2>1, <2>2, <2>3
<1>9. ImagesStay(db, db')
    BY <1>8 DEF ImagesStay
<1>10. \A c, b : OnShelf(db', c, b) = OnShelf(db, c, b)
    BY <1>8 DEF OnShelf
<1>11. ASSUME NEW q \in Products, db.prod[q].status = "PUBLISHED", Sellable(db, q, {})
       PROVE  Sellable(db', q, {})
    <2>1. PICK w \in VariantsOf(q) : db.var[w].status = "PUBLISHED" /\ db.var[w].price > 0
        BY <1>11 DEF Sellable
    <2>2. w \in Variants /\ ProductOf[w] = q
        BY DEF VariantsOf
    <2>3. CASE w # v
        BY <1>2, <1>8, <2>1, <2>2, <2>3 DEF Sellable
    <2>4. CASE w = v /\ row.status = "PUBLISHED" /\ row.price > 0
        BY <1>2, <1>8, <2>1, <2>2, <2>4 DEF Sellable
    <2>5. CASE w = v /\ row.status = db.var[v].status /\ row.price = db.var[v].price
        BY <1>2, <1>8, <2>1, <2>2, <2>5 DEF Sellable
    <2>6. CASE w = v /\ Sellable(db, q, {v})
        <3>1. PICK z \in VariantsOf(q) \ {v} : db.var[z].status = "PUBLISHED" /\ db.var[z].price > 0
            BY <2>6 DEF Sellable
        <3>2. z \in Variants \ {v}
            BY DEF VariantsOf
        <3> QED
            BY <1>2, <1>8, <3>1, <3>2 DEF Sellable
    <2> QED
        BY <1>11, <2>1, <2>2, <2>3, <2>4, <2>5, <2>6
<1>12. ShelvesSound(db')
    <2>1. ASSUME NEW q \in Products \ db'.imported, db'.prod[q].status = "PUBLISHED"
          PROVE  OnShelf(db', db'.prod[q].cat, db'.prod[q].brand) /\ Sellable(db', q, {})
        BY <1>1, <1>8, <1>10, <1>11, <2>1 DEF ShelvesSound
    <2>2. \A w \in Variants : db'.var[w].status # "NONE" => db'.prod[ProductOf[w]].status # "NONE"
        BY <1>1, <1>2, <1>8 DEF ShelvesSound
    <2>3. \A c \in Categories : db'.cat[c].parent # None =>
            /\ db'.cat[c].status = "PUBLISHED" => db'.cat[db'.cat[c].parent].status = "PUBLISHED"
            /\ db'.cat[db'.cat[c].parent].status # "NONE"
            /\ c \notin AncestorsIn(db'.cat, db'.cat[c].parent)
        BY <1>1, <1>8 DEF ShelvesSound
    <2> QED
        BY <2>1, <2>2, <2>3 DEF ShelvesSound
<1>13. BatchesSound(db') /\ BatchMove(db, db', O)
    BY <1>1, <1>8, BatchesStaySound
<1>14. ImagesSound(db') /\ ImageMove(db, db', X, O, None)
    BY <1>1, <1>9, ImagesStaySound
<1>15. VariantMove(db, db', X)
    BY <1>2, <1>8 DEF VariantMove
<1>16. ProductMove(db, db', X) /\ CategoryMove(db, db', X)
    BY <1>8 DEF ProductMove, CategoryMove
<1>17. RowsMove(db, db', X, O, None)
    BY <1>8, <1>13, <1>14, <1>15, <1>16 DEF RowsMove
<1>18. Sound(db)'
    BY <1>8, <1>12, <1>13, <1>14 DEF Sound
<1>19. ObjectStep(s, None)
    BY DEF ObjectStep
<1> QED
    BY <1>17, <1>18, <1>19, StepKeeps

\* A variant belongs to a product, and its row has its type.
LEMMA VariantTyped ==
    ASSUME StorefrontInv, NEW v \in Variants
    PROVE  /\ db.var[v] \in VariantRow
           /\ db.var[v].status # "NONE" => db.prod[ProductOf[v]].status # "NONE"
           /\ None \notin Sessions
BY RowsTyped, CatalogAssumption DEF StorefrontInv, Sound, ShelvesSound

LEMMA CreateVariantStep ==
    ASSUME StorefrontInv, NEW v \in Variants, NEW price \in {0, 1}, CreateVariant(v, price)
    PROVE  StorefrontInv' /\ StepKept
<1>1. TxStep(None, {v}, {})
    BY SameSessions DEF CreateVariant
<1>2. PICK row : row = [status |-> "DRAFT", price |-> price, stock |-> FALSE]
    OBVIOUS
<1>3. PICK n : n = [db EXCEPT !.var[v] = row]
    OBVIOUS
<1>4. db' = n /\ UNCHANGED stored
    BY <1>2, <1>3 DEF CreateVariant
<1>5. row \in VariantRow
    BY <1>2 DEF VariantRow, PublicationStatus
<1>6. db.prod[ProductOf[v]].status # "NONE" /\ db.var[v].status # "PUBLISHED"
    BY DEF CreateVariant, MutableStatus
<1>7. PICK O : O = {}
    OBVIOUS
<1>8. TxStep(None, {v}, O) /\ db' = n /\ O = {}
    BY <1>1, <1>4, <1>7
<1> QED
    BY <1>3, <1>4, <1>5, <1>6, <1>8, VariantTyped, VariantWritten

LEMMA PublishVariantStep ==
    ASSUME StorefrontInv, NEW v \in Variants, NEW price \in {0, 1}, PublishVariant(v, price)
    PROVE  StorefrontInv' /\ StepKept
<1>1. PICK X : X = {v, ProductOf[v]}
    OBVIOUS
<1>2. TxStep(None, X, {v})
    BY <1>1, CommitTx DEF PublishVariant
<1>3. PICK row : row = [db.var[v] EXCEPT !.status = "PUBLISHED", !.price = price]
    OBVIOUS
<1>4. PICK n : n = [db EXCEPT !.var[v] = row]
    OBVIOUS
<1>5. db' = Edited(n, {v}) /\ UNCHANGED stored
    BY <1>3, <1>4 DEF PublishVariant
<1>6. price > 0
    BY DEF PublishVariant, validateVariantPublication
<1>7. row \in VariantRow /\ row.status = "PUBLISHED" /\ row.price > 0
    BY <1>3, <1>6, VariantTyped DEF VariantRow, PublicationStatus
<1>8. db.var[v].status # "NONE"
    BY DEF PublishVariant, MutableStatus
<1> QED
    BY <1>1, <1>2, <1>4, <1>5, <1>7, <1>8, VariantTyped, VariantWritten

LEMMA UpdateVariantStep ==
    ASSUME StorefrontInv, NEW v \in Variants, NEW price \in {0, 1}, NEW to \in MutableStatus,
           UpdateVariant(v, price, to)
    PROVE  StorefrontInv' /\ StepKept
<1>1. TxStep(None, {v}, {v})
    BY CommitTx DEF UpdateVariant
<1>2. PICK row : row = [db.var[v] EXCEPT !.status = to, !.price = price]
    OBVIOUS
<1>3. PICK n : n = [db EXCEPT !.var[v] = row]
    OBVIOUS
<1>4. db' = Edited(n, {v}) /\ UNCHANGED stored
    BY <1>2, <1>3 DEF UpdateVariant
<1>5. row \in VariantRow
    BY <1>2, VariantTyped DEF VariantRow, PublicationStatus, MutableStatus
<1>6. db.var[v].status # "NONE" /\ db.var[v].status # "PUBLISHED"
    BY DEF UpdateVariant
<1> QED
    BY <1>1, <1>3, <1>4, <1>5, <1>6, VariantTyped, VariantWritten

LEMMA RemoveVariantCommitStep ==
    ASSUME StorefrontInv, NEW s \in Sessions, RemoveVariantCommit(s)
    PROVE  StorefrontInv' /\ StepKept
<1>1. PICK v, to : v = tx[s].on /\ to = tx[s].arg.to
    OBVIOUS
<1>2. /\ v \in Variants /\ to \in {"DRAFT", "SUSPENDED", "ARCHIVED"} /\ Exists(v)
      /\ db.prod[ProductOf[v]].status = "PUBLISHED" => Sellable(db, ProductOf[v], {v})
    BY <1>1 DEF RemoveVariantCommit, Working, StorefrontInv, RequestOK
<1>3. TxStep(s, {v}, {v}) /\ tx'[s] = None /\ PendingImage(s)' = None
    <2>1. Free(s, {v}) /\ Increment(s, {v})
        BY <1>1 DEF RemoveVariantCommit
    <2> QED
        BY <2>1, CommitTx
<1>4. PICK row : row = [db.var[v] EXCEPT !.status = to]
    OBVIOUS
<1>5. PICK n : n = [db EXCEPT !.var[v] = row]
    OBVIOUS
<1>6. db' = Edited(n, {v}) /\ UNCHANGED stored
    BY <1>1, <1>4, <1>5 DEF RemoveVariantCommit
<1>7. row \in VariantRow
    BY <1>2, <1>4, VariantTyped DEF VariantRow, PublicationStatus
<1>8. db.prod[ProductOf[v]].status # "NONE"
    BY <1>2 DEF Exists, ProductOfOwner
<1> QED
    BY <1>2, <1>3, <1>5, <1>6, <1>7, <1>8, VariantWritten

LEMMA ChangeVariantArchiveStep ==
    ASSUME StorefrontInv, NEW v \in Variants, ChangeVariantArchive(v)
    PROVE  StorefrontInv' /\ StepKept
<1>1. TxStep(None, {v}, {v})
    BY CommitTx DEF ChangeVariantArchive
<1>2. PICK to \in {"DRAFT", "ARCHIVED"} : to = IF db.var[v].status = "ARCHIVED" THEN "DRAFT" ELSE "ARCHIVED"
    OBVIOUS
<1>3. PICK row : row = [db.var[v] EXCEPT !.status = to]
    OBVIOUS
<1>4. PICK n : n = [db EXCEPT !.var[v] = row]
    OBVIOUS
<1>5. db' = Edited(n, {v}) /\ UNCHANGED stored
    BY <1>2, <1>3, <1>4 DEF ChangeVariantArchive
<1>6. row \in VariantRow
    BY <1>3, VariantTyped DEF VariantRow, PublicationStatus
<1>7. db.var[v].status # "NONE" /\ db.var[v].status # "PUBLISHED"
    BY DEF ChangeVariantArchive
<1> QED
    BY <1>1, <1>4, <1>5, <1>6, <1>7, VariantTyped, VariantWritten

LEMMA StockMovesStep ==
    ASSUME StorefrontInv, NEW v \in Variants, StockMoves(v)
    PROVE  StorefrontInv' /\ StepKept
<1>1. TxStep(None, {}, {})
    BY SameSessions DEF StockMoves, Free
<1>2. PICK row : row = [db.var[v] EXCEPT !.stock = ~ db.var[v].stock]
    OBVIOUS
<1>3. PICK n : n = [db EXCEPT !.var[v] = row]
    OBVIOUS
<1>4. db' = n /\ UNCHANGED stored
    BY <1>2, <1>3 DEF StockMoves
<1>5. row \in VariantRow /\ row.status = db.var[v].status /\ row.price = db.var[v].price
    BY <1>2, VariantTyped DEF VariantRow
<1>6. db.var[v].status # "NONE"
    BY DEF StockMoves
<1>7. PICK O : O = {}
    OBVIOUS
<1>8. TxStep(None, {}, O) /\ db' = n /\ O = {}
    BY <1>1, <1>4, <1>7
<1> QED
    BY <1>3, <1>4, <1>5, <1>6, <1>8, VariantTyped, VariantWritten

-----------------------------------------------------------------------------
(* Brands and categories *)

\* A category moved under one that is not below it closes no cycle.
LEMMA TreeKept ==
    ASSUME NEW r \in Rows, NEW n \in Rows, NEW c \in Categories, NEW q \in Categories \cup {None},
           \A k \in Categories \ {c} : n.cat[k] = r.cat[k],
           n.cat[c].parent = q, q # None => c \notin AncestorsIn(r.cat, q),
           \A k \in Categories : r.cat[k].parent # None => k \notin AncestorsIn(r.cat, r.cat[k].parent)
    PROVE  \A k \in Categories : n.cat[k].parent # None => k \notin AncestorsIn(n.cat, n.cat[k].parent)
<1> SUFFICES ASSUME NEW k \in Categories, n.cat[k].parent # None
             PROVE  k \notin AncestorsIn(n.cat, n.cat[k].parent)
    OBVIOUS
<1>1. PICK x : x = n.cat[k].parent
    OBVIOUS
<1>2. x \in Categories
    BY <1>1, RowsTyped DEF CategoryRow
<1> DEFINE A == AncestorsIn(r.cat, x)
<1>3. A \subseteq Categories /\ x \in A /\ Upward(r.cat, A)
    BY <1>2, AncestorsLeast
<1>4. CASE k = c
    <2>1. \A y \in A : n.cat[y] = r.cat[y]
        BY <1>1, <1>3, <1>4
    <2>2. AncestorsIn(n.cat, x) \subseteq A
        BY <1>2, <2>1, AncestorsKept
    <2> QED
        BY <1>1, <1>4, <2>2
<1>5. CASE k # c
    <2>1. r.cat[k].parent = x /\ k \notin A
        BY <1>1, <1>5
    <2>2. CASE c \notin A
        <3>1. \A y \in A : n.cat[y] = r.cat[y]
            BY <1>3, <2>2
        <3>2. AncestorsIn(n.cat, x) \subseteq A
            BY <1>2, <3>1, AncestorsKept
        <3> QED
            BY <1>1, <2>1, <3>2
    <2>3. CASE c \in A /\ q = None
        <3>1. Upward(n.cat, A)
            BY <1>3, <2>3 DEF Upward
        <3> HIDE DEF A
        <3>2. AncestorsIn(n.cat, x) \subseteq A
            BY <1>2, <1>3, <3>1, AncestorsLeast
        <3> QED
            BY <1>1, <2>1, <3>2
    <2>4. CASE c \in A /\ q # None
        <3> DEFINE B == AncestorsIn(r.cat, q)
        <3>1. q \in Categories
            BY <2>4
        <3>2. /\ B \subseteq Categories /\ q \in B /\ Upward(r.cat, B) /\ c \notin B
            BY <2>4, <3>1, AncestorsLeast
        <3>3. k \notin B
            <4>1. x \in B => A \subseteq B
                <5> HIDE DEF B
                <5> QED
                    BY <1>2, <3>2, AncestorsLeast
            <4> HIDE DEF A, B
            <4> QED
                BY <2>1, <2>4, <3>2, <4>1, <1>1 DEF Upward
        <3> HIDE DEF A, B
        <3>4. Upward(n.cat, A \cup B)
            BY <1>3, <2>4, <3>2 DEF Upward
        <3>5. A \cup B \in SUBSET Categories /\ x \in A \cup B
            BY <1>3, <3>2
        <3>6. AncestorsIn(n.cat, x) \subseteq A \cup B
            BY <1>2, <3>4, <3>5, AncestorsLeast
        <3> QED
            BY <1>1, <2>1, <3>3, <3>6
    <2> QED
        BY <2>2, <2>3, <2>4
<1> QED
    BY <1>4, <1>5

\* The row of one category changes.
LEMMA CategoryWritten ==
    ASSUME StorefrontInv, NEW s \in Sessions \cup {None}, NEW X, NEW c \in Categories,
           NEW row \in CategoryRow,
           TxStep(s, X, {}), s \in Sessions => tx'[s] = None /\ PendingImage(s)' = None,
           db' = [db EXCEPT !.cat[c] = row], UNCHANGED stored,
           row.status # "NONE", {c, ChildrenOf(row.parent)} \subseteq X,
           row.status # "PUBLISHED" /\ db.cat[c].status = "PUBLISHED" =>
             ~ PublishedProductIn(c) /\ ~ PublishedChild(c),
           row.parent # None =>
             /\ c \notin Ancestors(row.parent)
             /\ db.cat[row.parent].status # "NONE"
             /\ row.status = "PUBLISHED" => db.cat[row.parent].status = "PUBLISHED"
    PROVE  StorefrontInv' /\ StepKept
<1>1. db \in Rows /\ ImagesSound(db) /\ ShelvesSound(db) /\ BatchesSound(db)
    BY DEF StorefrontInv, Sound
<1>2. PICK r, n : r = db /\ n = db'
    OBVIOUS
<1> DEFINE t == [r.cat EXCEPT ![c] = row]
<1>3. t \in [Categories -> CategoryRow] /\ t[c] = row /\ \A k \in Categories \ {c} : t[k] = r.cat[k]
    BY <1>1, <1>2, RowsTyped
<1>4. n = [r EXCEPT !.cat = t]
    BY <1>2
<1> HIDE DEF t
<1>5. n \in Rows /\ Keeps(r, n, {"cat"}) /\ n.cat = t
    <2>1. /\ [r EXCEPT !.cat = t] \in Rows /\ Keeps(r, [r EXCEPT !.cat = t], {"cat"})
          /\ [r EXCEPT !.cat = t].cat = t
        BY <1>1, <1>2, <1>3, WithCategories
    <2> QED
        BY <1>4, <2>1
<1>6. /\ n.prod = r.prod /\ n.var = r.var /\ n.brand = r.brand /\ n.img = r.img
      /\ n.batch = r.batch /\ n.queued = r.queued /\ n.imported = r.imported /\ n.edited = r.edited
    BY <1>5 DEF Keeps, Tables
<1>7. ImagesSound(n) /\ ImageMove(r, n, X, {}, None)
    <2>1. ImagesStay(r, n)
        BY <1>6 DEF ImagesStay
    <2> QED
        BY <1>1, <1>2, <2>1, ImagesStaySound
<1>8. BatchesSound(n) /\ BatchMove(r, n, {})
    <2>1. BatchesStay(r, n, {})
        BY <1>6 DEF BatchesStay
    <2> QED
        BY <1>1, <1>2, <1>6, <2>1, BatchesStaySound
<1>9. row.parent \in Categories \cup {None}
    BY DEF CategoryRow
<1>10. ASSUME NEW p \in Products \ n.imported, n.prod[p].status = "PUBLISHED"
       PROVE  OnShelf(n, n.prod[p].cat, n.prod[p].brand) /\ Sellable(n, p, {})
    <2>1. OnShelf(r, r.prod[p].cat, r.prod[p].brand) /\ Sellable(r, p, {})
        BY <1>1, <1>2, <1>6, <1>10 DEF ShelvesSound
    <2>2. Sellable(n, p, {})
        BY <1>6, <2>1 DEF Sellable
    <2>3. r.prod[p].cat = c => row.status = "PUBLISHED"
        BY <1>2, <1>6, <1>10, <2>1 DEF OnShelf, PublishedProductIn
    <2>4. OnShelf(n, n.prod[p].cat, n.prod[p].brand)
        BY <1>3, <1>5, <1>6, <2>1, <2>3 DEF OnShelf
    <2> QED
        BY <2>2, <2>4
<1>11. ASSUME NEW k \in Categories, n.cat[k].parent # None
       PROVE  /\ n.cat[k].status = "PUBLISHED" => n.cat[n.cat[k].parent].status = "PUBLISHED"
              /\ n.cat[n.cat[k].parent].status # "NONE"
    <2>1. CASE k = c
        <3>1. row.parent \in Categories /\ c \in Categories
            BY <1>3, <1>5, <1>9, <1>11, <2>1
        <3>2. row.parent # c
            BY <1>1, <1>3, <1>5, <1>11, <2>1, <3>1, AncestorsLeast DEF Ancestors
        <3> QED
            BY <1>2, <1>3, <1>5, <1>11, <2>1, <3>1, <3>2
    <2>2. CASE k # c
        <3>1. n.cat[k] = r.cat[k] /\ r.cat[k].parent \in Categories
            BY <1>1, <1>2, <1>3, <1>5, <1>11, <2>2, RowsTyped DEF CategoryRow
        <3>2. /\ r.cat[k].status = "PUBLISHED" => r.cat[r.cat[k].parent].status = "PUBLISHED"
              /\ r.cat[r.cat[k].parent].status # "NONE"
            BY <1>1, <1>2, <1>11, <3>1 DEF ShelvesSound
        <3>3. CASE r.cat[k].parent # c
            BY <1>3, <1>5, <3>1, <3>2, <3>3
        <3>4. CASE r.cat[k].parent = c
            <4>1. r.cat[k].status = "PUBLISHED" => row.status = "PUBLISHED"
                BY <1>2, <3>2, <3>4 DEF PublishedChild
            <4> QED
                BY <1>3, <1>5, <3>1, <3>4, <4>1
        <3> QED
            BY <3>3, <3>4
    <2> QED
        BY <2>1, <2>2
<1>12. \A k \in Categories : n.cat[k].parent # None => k \notin AncestorsIn(n.cat, n.cat[k].parent)
    <2>1. \A k \in Categories : r.cat[k].parent # None => k \notin AncestorsIn(r.cat, r.cat[k].parent)
        BY <1>1, <1>2 DEF ShelvesSound
    <2>2. PICK q \in Categories \cup {None} : q = row.parent
        BY <1>9
    <2>3. q # None => c \notin AncestorsIn(r.cat, q)
        BY <1>2, <2>2 DEF Ancestors
    <2>4. n.cat[c].parent = q /\ \A k \in Categories \ {c} : n.cat[k] = r.cat[k]
        BY <1>3, <1>5, <2>2
    <2>5. r \in Rows /\ n \in Rows
        BY <1>1, <1>2, <1>5
    <2> QED
        BY <2>1, <2>3, <2>4, <2>5, TreeKept
<1>13. ShelvesSound(n)
    <2>1. \A v \in Variants : n.var[v].status # "NONE" => n.prod[ProductOf[v]].status # "NONE"
        BY <1>1, <1>2, <1>6 DEF ShelvesSound
    <2> QED
        BY <1>10, <1>11, <1>12, <2>1 DEF ShelvesSound
<1>14. ProductMove(r, n, X) /\ VariantMove(r, n, X) /\ CategoryMove(r, n, X)
    BY <1>3, <1>5, <1>6 DEF ProductMove, VariantMove, CategoryMove
<1>15. RowsMove(db, db', X, {}, None)
    BY <1>2, <1>6, <1>7, <1>8, <1>14 DEF RowsMove
<1>16. Sound(db)'
    BY <1>2, <1>5, <1>7, <1>8, <1>13 DEF Sound
<1>17. ObjectStep(s, None)
    BY DEF ObjectStep
<1> QED
    BY <1>15, <1>16, <1>17, StepKeeps

LEMMA CategoryCommitStep ==
    ASSUME StorefrontInv, NEW s \in Sessions, CategoryCommit(s)
    PROVE  StorefrontInv' /\ StepKept
<1>1. PICK c, a : c = tx[s].on /\ a = tx[s].arg
    OBVIOUS
<1>2. /\ c \in Categories /\ a.parent \in Categories \cup {None}
      /\ a.to \in MutableStatus \cup {"ARCHIVED"}
      /\ a.to # "PUBLISHED" /\ db.cat[c].status = "PUBLISHED" =>
           ~ PublishedProductIn(c) /\ ~ PublishedChild(c)
      /\ a.parent # None =>
           /\ c \notin Ancestors(a.parent)
           /\ db.cat[a.parent].status # "NONE"
           /\ a.to = "PUBLISHED" => db.cat[a.parent].status = "PUBLISHED"
    BY <1>1 DEF CategoryCommit, Working, StorefrontInv, RequestOK
<1>3. PICK X : X = {c, ChildrenOf(a.parent), ChildrenOf(db.cat[c].parent)}
    OBVIOUS
<1>4. TxStep(s, X, {}) /\ tx'[s] = None /\ PendingImage(s)' = None
    <2>1. Free(s, X) /\ Increment(s, {})
        BY <1>1, <1>3 DEF CategoryCommit
    <2> QED
        BY <2>1, CommitTx
<1>5. PICK row : row = [status |-> a.to, parent |-> a.parent]
    OBVIOUS
<1>6. db' = [db EXCEPT !.cat[c] = row] /\ UNCHANGED stored
    BY <1>1, <1>5 DEF CategoryCommit
<1>7. row \in CategoryRow /\ row.status # "NONE" /\ row.status = a.to /\ row.parent = a.parent
    BY <1>2, <1>5 DEF CategoryRow, PublicationStatus, MutableStatus
<1>8. {c, ChildrenOf(row.parent)} \subseteq X
    BY <1>3, <1>7
<1> QED
    BY <1>2, <1>4, <1>6, <1>7, <1>8, CategoryWritten

LEMMA CreateCategoryStep ==
    ASSUME StorefrontInv, NEW c \in Categories, NEW q \in Categories \cup {None}, CreateCategory(c, q)
    PROVE  StorefrontInv' /\ StepKept
<1>1. db \in Rows /\ ShelvesSound(db)
    BY DEF StorefrontInv, Sound
<1>2. PICK X : X = {c, ChildrenOf(q)}
    OBVIOUS
<1>3. TxStep(None, X, {})
    BY <1>2, SameSessions DEF CreateCategory
<1>4. PICK row : row = [status |-> "DRAFT", parent |-> q]
    OBVIOUS
<1>5. db' = [db EXCEPT !.cat[c] = row] /\ UNCHANGED stored
    BY <1>4 DEF CreateCategory
<1>6. row \in CategoryRow /\ row.status = "DRAFT" /\ row.parent = q
    BY <1>4 DEF CategoryRow, PublicationStatus
<1>7. db.cat[c].status = "NONE" /\ (q # None => db.cat[q].status # "NONE")
    BY DEF CreateCategory, MutableStatus
<1>8. ASSUME q # None PROVE c \notin Ancestors(q)
    <2> DEFINE S == {k \in Categories : db.cat[k].status # "NONE"}
    <2>1. S \in SUBSET Categories /\ q \in S /\ c \notin S
        BY <1>7, <1>8
    <2>2. Upward(db.cat, S)
        <3>1. \A k \in Categories : db.cat[k].parent \in Categories \cup {None}
            BY <1>1, RowsTyped DEF CategoryRow
        <3> QED
            BY <1>1, <3>1 DEF Upward, ShelvesSound
    <2> HIDE DEF S
    <2> QED
        BY <2>1, <2>2 DEF Ancestors, AncestorsIn
<1>9. {c, ChildrenOf(row.parent)} \subseteq X /\ None \notin Sessions
    BY <1>2, <1>6, CatalogAssumption
<1> QED
    BY <1>3, <1>5, <1>6, <1>7, <1>8, <1>9, CategoryWritten

LEMMA UpdateBrandStep ==
    ASSUME StorefrontInv, NEW b \in Brands, NEW to \in MutableStatus \cup {"ARCHIVED"}, UpdateBrand(b, to)
    PROVE  StorefrontInv' /\ StepKept
<1>1. db \in Rows /\ ImagesSound(db) /\ ShelvesSound(db) /\ BatchesSound(db)
    BY DEF StorefrontInv, Sound
<1>2. PICK r, n : r = db /\ n = db'
    OBVIOUS
<1>3. TxStep(None, {b}, {})
    BY SameSessions DEF UpdateBrand
<1> DEFINE t == [r.brand EXCEPT ![b] = to]
<1>4. t \in [Brands -> PublicationStatus] /\ t[b] = to /\ \A k \in Brands \ {b} : t[k] = r.brand[k]
    BY <1>1, <1>2, RowsTyped DEF PublicationStatus, MutableStatus
<1>5. n = [r EXCEPT !.brand = t] /\ UNCHANGED stored
    BY <1>2 DEF UpdateBrand
<1> HIDE DEF t
<1>6. n \in Rows /\ Keeps(r, n, {"brand"}) /\ n.brand = t
    <2>1. /\ [r EXCEPT !.brand = t] \in Rows /\ Keeps(r, [r EXCEPT !.brand = t], {"brand"})
          /\ [r EXCEPT !.brand = t].brand = t
        BY <1>1, <1>2, <1>4, WithBrands
    <2> QED
        BY <1>5, <2>1
<1>7. /\ n.prod = r.prod /\ n.var = r.var /\ n.cat = r.cat /\ n.img = r.img
      /\ n.batch = r.batch /\ n.queued = r.queued /\ n.imported = r.imported /\ n.edited = r.edited
    BY <1>6 DEF Keeps, Tables
<1>8. ImagesSound(n) /\ ImageMove(r, n, {b}, {}, None)
    <2>1. ImagesStay(r, n)
        BY <1>7 DEF ImagesStay
    <2> QED
        BY <1>1, <1>2, <2>1, ImagesStaySound
<1>9. BatchesSound(n) /\ BatchMove(r, n, {})
    <2>1. BatchesStay(r, n, {})
        BY <1>7 DEF BatchesStay
    <2> QED
        BY <1>1, <1>2, <1>7, <2>1, BatchesStaySound
<1>10. ASSUME NEW p \in Products \ n.imported, n.prod[p].status = "PUBLISHED"
       PROVE  OnShelf(n, n.prod[p].cat, n.prod[p].brand) /\ Sellable(n, p, {})
    <2>1. OnShelf(r, r.prod[p].cat, r.prod[p].brand) /\ Sellable(r, p, {})
        BY <1>1, <1>2, <1>7, <1>10 DEF ShelvesSound
    <2>2. Sellable(n, p, {})
        BY <1>7, <2>1 DEF Sellable
    <2>3. r.prod[p].brand = b => to = "PUBLISHED"
        <3>1. ASSUME r.prod[p].brand = b PROVE r.brand[b] = "PUBLISHED" /\ PublishedProductIn(b)
            BY <1>2, <1>7, <1>10, <2>1, <3>1, CatalogAssumption DEF OnShelf, PublishedProductIn
        <3> QED
            BY <1>2, <3>1 DEF UpdateBrand, statusBecomesNonPublic
    <2>4. r.prod[p].brand \in Brands \cup {None}
        BY <1>1, <1>2, RowsTyped DEF ProductRow
    <2>5. OnShelf(n, n.prod[p].cat, n.prod[p].brand)
        BY <1>4, <1>6, <1>7, <2>1, <2>3, <2>4 DEF OnShelf
    <2> QED
        BY <2>2, <2>5
<1>11. ShelvesSound(n)
    <2>1. \A v \in Variants : n.var[v].status # "NONE" => n.prod[ProductOf[v]].status # "NONE"
        BY <1>1, <1>2, <1>7 DEF ShelvesSound
    <2>2. \A c \in Categories : n.cat[c].parent # None =>
            /\ n.cat[c].status = "PUBLISHED" => n.cat[n.cat[c].parent].status = "PUBLISHED"
            /\ n.cat[n.cat[c].parent].status # "NONE"
            /\ c \notin AncestorsIn(n.cat, n.cat[c].parent)
        BY <1>1, <1>2, <1>7 DEF ShelvesSound
    <2> QED
        BY <1>10, <2>1, <2>2 DEF ShelvesSound
<1>12. ProductMove(r, n, {b}) /\ VariantMove(r, n, {b}) /\ CategoryMove(r, n, {b})
    BY <1>4, <1>6, <1>7 DEF ProductMove, VariantMove, CategoryMove
<1>13. RowsMove(db, db', {b}, {}, None)
    BY <1>2, <1>7, <1>8, <1>9, <1>12 DEF RowsMove
<1>14. Sound(db)'
    BY <1>2, <1>6, <1>8, <1>9, <1>11 DEF Sound
<1>15. ObjectStep(None, None) /\ None \notin Sessions
    BY <1>5, CatalogAssumption DEF ObjectStep
<1> QED
    BY <1>3, <1>13, <1>14, <1>15, StepKeeps

-----------------------------------------------------------------------------
(* Images *)

\* Images, flags and batches change; what decides about publication stays.
LEMMA TablesWritten ==
    ASSUME StorefrontInv, NEW s \in Sessions \cup {None}, NEW X, NEW O, NEW i,
           TxStep(s, X, O), s \in Sessions /\ tx'[s] # None => RequestOK(tx[s])',
           db' \in Rows, ShelvesStay(db, db'), ImagesSound(db'), ImageMove(db, db', X, O, i),
           BatchesSound(db'), BatchMove(db, db', O), ObjectStep(s, i)
    PROVE  StorefrontInv' /\ StepKept
<1>1. ShelvesSound(db)
    BY DEF StorefrontInv, Sound
<1>2. /\ ShelvesSound(db')
      /\ ProductMove(db, db', X) /\ VariantMove(db, db', X) /\ CategoryMove(db, db', X)
      /\ db.imported \subseteq db'.imported
    BY <1>1, ShelvesStaySound
<1>3. RowsMove(db, db', X, O, i)
    BY <1>2 DEF RowsMove
<1>4. Sound(db)'
    BY <1>2 DEF Sound
<1> QED
    BY <1>3, <1>4, StepKeeps

\* Between rows r and n nothing changes but the flags of products and images
\* of owner o, and what ImagesSound says of that owner is true in n.
OwnerImages(r, n, o, i, X) ==
    /\ \A p \in Products : r.prod[p].review => n.prod[p].review
    /\ \A j \in Images :
         \/ n.img[j] = r.img[j]
         \/ /\ n.img[j].owner = o
            /\ \/ /\ r.img[j].status = "NONE" /\ j = i /\ n.img[j].status \in {"APPROVED", "PENDING"}
                  /\ n.img[j].status = "PENDING" => ProductOfOwner(o) \in X
               \/ /\ r.img[j].status # "NONE" /\ n.img[j].status # "NONE" /\ r.img[j].owner = o
                  /\ n.img[j].status = "PENDING" => r.img[j].status = "PENDING"
                  /\ r.img[j].status = "DELETED" => n.img[j].status = "DELETED"
    /\ \A j \in Images : n.img[j].owner = o =>
         /\ n.img[j].status = "PENDING" => n.prod[ProductOfOwner(o)].review
         /\ LiveIn(n, j) /\ n.img[j].primary => n.img[j].status = "APPROVED"
    /\ \A j, k \in Images : n.img[j].owner = o /\ n.img[k].owner = o =>
         /\ LiveIn(n, j) /\ n.img[j].primary /\ LiveIn(n, k) /\ n.img[k].primary => j = k
         /\ CountedIn(n, j) /\ CountedIn(n, k) => j = k
    /\ \A j \in n.queued : n.img[j].status = "DELETED"

LEMMA OwnerImagesSound ==
    ASSUME NEW r, NEW n, NEW o \in Owners, NEW i, NEW X, NEW O, o \in O, ImagesSound(r),
           r.prod[ProductOfOwner(o)].status # "NONE",
           \A p \in Products : n.prod[p].status = r.prod[p].status,
           OwnerImages(r, n, o, i, X)
    PROVE  ImagesSound(n) /\ ImageMove(r, n, X, O, i)
<1>1. ASSUME NEW j \in Images, n.img[j] # r.img[j]
      PROVE  n.img[j].owner = o /\ n.img[j].status # "NONE"
    BY <1>1 DEF OwnerImages
<1>2. ASSUME NEW j \in Images, n.img[j].status = "NONE" PROVE n.img[j] = NoImage
    BY <1>1, <1>2 DEF ImagesSound
<1>3. ASSUME NEW j \in Images, n.img[j].status # "NONE"
      PROVE  n.img[j].owner \in Owners /\ n.prod[ProductOfOwner(n.img[j].owner)].status # "NONE"
    <2>1. n.img[j].owner \in Owners /\ r.prod[ProductOfOwner(n.img[j].owner)].status # "NONE"
        BY <1>1, <1>3 DEF ImagesSound
    <2> QED
        BY <2>1, ProductOfOwnerTyped
<1>4. ASSUME NEW j \in Images, n.img[j].owner # o
      PROVE  n.img[j] = r.img[j] /\ LiveIn(n, j) = LiveIn(r, j) /\ CountedIn(n, j) = CountedIn(r, j)
    BY <1>1, <1>4 DEF LiveIn, CountedIn
<1>5. ASSUME NEW j \in Images
      PROVE  /\ n.img[j].status = "PENDING" => n.prod[ProductOfOwner(n.img[j].owner)].review
             /\ LiveIn(n, j) /\ n.img[j].primary => n.img[j].status = "APPROVED"
    <2>1. CASE n.img[j].owner = o
        BY <2>1 DEF OwnerImages
    <2>2. CASE n.img[j].owner # o
        <3>1. n.img[j].status = "PENDING" => ProductOfOwner(n.img[j].owner) \in Products
            BY <1>3, ProductOfOwnerTyped
        <3> QED
            BY <1>4, <2>2, <3>1 DEF ImagesSound, OwnerImages
    <2> QED
        BY <2>1, <2>2
<1>6. ASSUME NEW j \in Images, NEW k \in Images, n.img[j].owner = n.img[k].owner
      PROVE  /\ LiveIn(n, j) /\ n.img[j].primary /\ LiveIn(n, k) /\ n.img[k].primary => j = k
             /\ CountedIn(n, j) /\ CountedIn(n, k) => j = k
    <2>1. CASE n.img[j].owner = o
        BY <1>6, <2>1 DEF OwnerImages
    <2>2. CASE n.img[j].owner # o
        BY <1>4, <1>6, <2>2 DEF ImagesSound
    <2> QED
        BY <2>1, <2>2
<1>7. ImagesSound(n)
    BY <1>2, <1>3, <1>5, <1>6 DEF ImagesSound, OwnerImages
<1>8. ImageMove(r, n, X, O, i)
    BY DEF ImageMove, OwnerImages
<1> QED
    BY <1>7, <1>8

\* An administrator changes images of one owner.
LEMMA ImagesWritten ==
    ASSUME StorefrontInv, NEW s \in Sessions \cup {None}, NEW X, NEW O, NEW o \in Owners, NEW i,
           NEW n \in Rows, TxStep(s, X, O), s \in Sessions => tx'[s] = None,
           WrittenAs(db', n, O), o \in O, Keeps(db, n, {"img", "queued", "prod"}),
           ShelvesStay(db, n), db.prod[ProductOfOwner(o)].status # "NONE",
           OwnerImages(db, n, o, i, X), ObjectStep(s, i)
    PROVE  StorefrontInv' /\ StepKept
<1>1. PICK r, d : r = db /\ d = db'
    OBVIOUS
<1>2. r \in Rows /\ ImagesSound(r) /\ BatchesSound(r)
    BY <1>1 DEF StorefrontInv, Sound
<1>3. n.batch = r.batch /\ n.edited = r.edited
    BY <1>1 DEF Keeps, Tables
<1>4. d \in Rows /\ BatchesStay(r, d, O) /\ Keeps(n, d, {"batch", "edited"})
    BY <1>1, <1>2, <1>3, MaybeEdited
<1>5. /\ d.prod = n.prod /\ d.var = n.var /\ d.brand = n.brand /\ d.cat = n.cat /\ d.img = n.img
      /\ d.queued = n.queued /\ d.imported = n.imported
    BY <1>4 DEF Keeps, Tables
<1>6. ShelvesStay(r, d)
    BY <1>1, <1>5 DEF ShelvesStay
<1>7. OwnerImages(r, d, o, i, X)
    BY <1>1, <1>5 DEF OwnerImages, LiveIn, CountedIn
<1>8. ImagesSound(d) /\ ImageMove(r, d, X, O, i)
    BY <1>1, <1>2, <1>6, <1>7, OwnerImagesSound DEF ShelvesStay
<1>9. BatchesSound(d) /\ BatchMove(r, d, O)
    BY <1>2, <1>4, <1>6, BatchesStaySound DEF ShelvesStay
<1> QED
    BY <1>1, <1>4, <1>6, <1>8, <1>9, TablesWritten

\* A row whose mark as primary is taken away is the same but for the mark.
Unmarked(x, y) ==
    y.status = x.status /\ y.owner = x.owner /\ y.imported = x.imported /\ y.primary = FALSE

LEMMA WithImageTable ==
    ASSUME NEW r \in Rows, NEW t \in [Images -> ImageRow]
    PROVE  /\ [r EXCEPT !.img = t] \in Rows
           /\ Keeps(r, [r EXCEPT !.img = t], {"img"})
           /\ [r EXCEPT !.img = t].img = t
BY DEF Rows, Keeps, Tables

LEMMA ClearedRows ==
    ASSUME NEW r \in Rows, NEW o
    PROVE  /\ clearPrimary(r, o) \in Rows
           /\ Keeps(r, clearPrimary(r, o), {"img"})
           /\ \A j \in Images :
                IF r.img[j].owner = o /\ r.img[j].status # "DELETED"
                THEN Unmarked(r.img[j], clearPrimary(r, o).img[j])
                ELSE clearPrimary(r, o).img[j] = r.img[j]
<1> DEFINE t == [j \in Images |-> IF r.img[j].owner = o /\ r.img[j].status # "DELETED"
                                  THEN [r.img[j] EXCEPT !.primary = FALSE] ELSE r.img[j]]
<1>1. \A j \in Images : r.img[j] \in ImageRow
    BY RowsTyped
<1>2. t \in [Images -> ImageRow]
    BY <1>1 DEF ImageRow
<1>3. \A j \in Images : IF r.img[j].owner = o /\ r.img[j].status # "DELETED"
                        THEN Unmarked(r.img[j], t[j]) ELSE t[j] = r.img[j]
    BY <1>1 DEF ImageRow, Unmarked
<1>4. clearPrimary(r, o) = [r EXCEPT !.img = t]
    BY DEF clearPrimary
<1> HIDE DEF t
<1>5. /\ [r EXCEPT !.img = t] \in Rows /\ Keeps(r, [r EXCEPT !.img = t], {"img"})
      /\ [r EXCEPT !.img = t].img = t
    BY <1>2, WithImageTable
<1> QED
    BY <1>3, <1>4, <1>5

LEMMA OneImageRow ==
    ASSUME NEW r \in Rows, NEW i \in Images, NEW row \in ImageRow
    PROVE  /\ [r EXCEPT !.img[i] = row] \in Rows
           /\ Keeps(r, [r EXCEPT !.img[i] = row], {"img"})
           /\ [r EXCEPT !.img[i] = row].img[i] = row
           /\ \A j \in Images \ {i} : [r EXCEPT !.img[i] = row].img[j] = r.img[j]
<1> DEFINE t == [r.img EXCEPT ![i] = row]
<1>1. t \in [Images -> ImageRow] /\ t[i] = row /\ \A j \in Images \ {i} : t[j] = r.img[j]
    BY RowsTyped
<1>2. [r EXCEPT !.img[i] = row] = [r EXCEPT !.img = t]
    OBVIOUS
<1> HIDE DEF t
<1>3. /\ [r EXCEPT !.img = t] \in Rows /\ Keeps(r, [r EXCEPT !.img = t], {"img"})
      /\ [r EXCEPT !.img = t].img = t
    BY <1>1, WithImageTable
<1> QED
    BY <1>1, <1>2, <1>3

\* n has a new image i of owner o, and the images that r has but for their
\* marks.
NewImage(r, n, i, o, status, primary, imported) ==
    /\ n.img[i].status = status /\ n.img[i].owner = o
    /\ n.img[i].primary = primary /\ n.img[i].imported = imported
    /\ n.queued = r.queued
    /\ \A j \in Images \ {i} :
         IF primary /\ r.img[j].owner = o /\ r.img[j].status # "DELETED"
         THEN Unmarked(r.img[j], n.img[j]) ELSE n.img[j] = r.img[j]

LEMMA CreatedRows ==
    ASSUME NEW r \in Rows, NEW i \in Images, NEW o \in Owners, NEW status \in {"APPROVED", "PENDING"},
           NEW primary \in BOOLEAN, NEW imported \in BOOLEAN, NEW n,
           n = CreateImage(r, i, o, status, primary, imported)
    PROVE  n \in Rows /\ Keeps(r, n, {"img"}) /\ NewImage(r, n, i, o, status, primary, imported)
<1>1. PICK m : m = IF primary THEN clearPrimary(r, o) ELSE r
    OBVIOUS
<1>2. /\ m \in Rows /\ Keeps(r, m, {"img"})
      /\ \A j \in Images : IF primary /\ r.img[j].owner = o /\ r.img[j].status # "DELETED"
                           THEN Unmarked(r.img[j], m.img[j]) ELSE m.img[j] = r.img[j]
    <2>1. CASE primary
        BY <1>1, <2>1, ClearedRows
    <2>2. CASE ~ primary
        BY <1>1, <2>2 DEF Keeps
    <2> QED
        BY <2>1, <2>2
<1>3. PICK row : row = [status |-> status, owner |-> o, primary |-> primary, imported |-> imported]
    OBVIOUS
<1>4. /\ row \in ImageRow /\ row.status = status /\ row.owner = o
      /\ row.primary = primary /\ row.imported = imported
    BY <1>3 DEF ImageRow
<1>5. n = [m EXCEPT !.img[i] = row]
    BY <1>1, <1>3 DEF CreateImage
<1>6. /\ [m EXCEPT !.img[i] = row] \in Rows /\ Keeps(m, [m EXCEPT !.img[i] = row], {"img"})
      /\ [m EXCEPT !.img[i] = row].img[i] = row
      /\ \A j \in Images \ {i} : [m EXCEPT !.img[i] = row].img[j] = m.img[j]
    BY <1>2, <1>4, OneImageRow
<1>7. n \in Rows /\ Keeps(m, n, {"img"}) /\ n.img[i] = row /\ \A j \in Images \ {i} : n.img[j] = m.img[j]
    BY <1>5, <1>6
<1>8. Keeps(r, n, {"img"}) /\ n.queued = r.queued
    BY <1>2, <1>7 DEF Keeps, Tables
<1> QED
    BY <1>2, <1>4, <1>7, <1>8 DEF NewImage

LEMMA NewImageSound ==
    ASSUME NEW r, NEW n, NEW i \in Images, NEW o \in Owners, NEW X,
           NEW status \in {"APPROVED", "PENDING"}, NEW primary \in BOOLEAN, NEW imported \in BOOLEAN,
           ImagesSound(r), NewImage(r, n, i, o, status, primary, imported),
           r.img[i].status = "NONE", r.queued \subseteq Images,
           \A p \in Products : r.prod[p].review => n.prod[p].review,
           status = "PENDING" => ~ primary /\ n.prod[ProductOfOwner(o)].review /\ ProductOfOwner(o) \in X,
           imported => \A j \in Images : ~ (r.img[j].owner = o /\ CountedIn(r, j))
    PROVE  OwnerImages(r, n, o, i, X)
<1>1. ProductOfOwner(o) \in Products /\ o # None
    BY ProductOfOwnerTyped, CatalogAssumption DEF Owners
<1>2. ASSUME NEW j \in Images \ {i}
      PROVE  /\ n.img[j].status = r.img[j].status /\ n.img[j].owner = r.img[j].owner
             /\ LiveIn(n, j) = LiveIn(r, j) /\ CountedIn(n, j) = CountedIn(r, j)
             /\ n.img[j] = r.img[j] \/ (r.img[j].owner = o /\ ~ n.img[j].primary)
             /\ primary /\ r.img[j].owner = o /\ LiveIn(r, j) => ~ n.img[j].primary
    BY DEF NewImage, Unmarked, LiveIn, CountedIn
<1>3. ASSUME NEW j \in Images, n.img[j] # r.img[j], j # i
      PROVE  n.img[j].owner = o /\ r.img[j].owner = o /\ r.img[j].status # "NONE"
    <2>1. r.img[j].owner = o /\ n.img[j].owner = o
        BY <1>2, <1>3
    <2> QED
        BY <1>1, <2>1 DEF ImagesSound, NoImage
<1>4. ASSUME NEW j \in Images
      PROVE  \/ n.img[j] = r.img[j]
             \/ /\ n.img[j].owner = o
                /\ \/ /\ r.img[j].status = "NONE" /\ j = i /\ n.img[j].status \in {"APPROVED", "PENDING"}
                      /\ n.img[j].status = "PENDING" => ProductOfOwner(o) \in X
                   \/ /\ r.img[j].status # "NONE" /\ n.img[j].status # "NONE" /\ r.img[j].owner = o
                      /\ n.img[j].status = "PENDING" => r.img[j].status = "PENDING"
                      /\ r.img[j].status = "DELETED" => n.img[j].status = "DELETED"
    <2>1. CASE j = i
        BY <2>1 DEF NewImage
    <2>2. CASE j # i
        BY <1>2, <1>3, <2>2
    <2> QED
        BY <2>1, <2>2
<1>5. ASSUME NEW j \in Images, n.img[j].owner = o
      PROVE  /\ n.img[j].status = "PENDING" => n.prod[ProductOfOwner(o)].review
             /\ LiveIn(n, j) /\ n.img[j].primary => n.img[j].status = "APPROVED"
    <2>1. CASE j = i
        BY <2>1 DEF NewImage
    <2>2. CASE j # i
        BY <1>1, <1>2, <1>5, <2>2 DEF ImagesSound
    <2> QED
        BY <2>1, <2>2
<1>6. ASSUME NEW j \in Images \ {i}, n.img[j].owner = o
      PROVE  ~ (LiveIn(n, i) /\ n.img[i].primary /\ LiveIn(n, j) /\ n.img[j].primary) /\ ~ (CountedIn(n, i) /\ CountedIn(n, j))
    <2>1. n.img[i].primary = primary /\ n.img[i].imported = imported
        BY DEF NewImage
    <2>2. primary => ~ (LiveIn(n, j) /\ n.img[j].primary)
        BY <1>2, <1>6
    <2>3. imported => ~ CountedIn(n, j)
        BY <1>2, <1>6
    <2>4. CountedIn(n, i) => imported
        BY <2>1 DEF CountedIn
    <2> QED
        BY <2>1, <2>2, <2>3, <2>4
<1>7. ASSUME NEW j \in Images \ {i}, NEW k \in Images \ {i}, n.img[j].owner = o, n.img[k].owner = o
      PROVE  /\ LiveIn(n, j) /\ n.img[j].primary /\ LiveIn(n, k) /\ n.img[k].primary => j = k
             /\ CountedIn(n, j) /\ CountedIn(n, k) => j = k
    BY <1>2, <1>7 DEF ImagesSound
<1>8. ASSUME NEW j \in Images, NEW k \in Images, n.img[j].owner = o, n.img[k].owner = o
      PROVE  /\ LiveIn(n, j) /\ n.img[j].primary /\ LiveIn(n, k) /\ n.img[k].primary => j = k
             /\ CountedIn(n, j) /\ CountedIn(n, k) => j = k
    BY <1>6, <1>7, <1>8
<1>9. \A j \in n.queued : n.img[j].status = "DELETED"
    BY <1>2 DEF NewImage, ImagesSound
<1> QED
    BY <1>4, <1>5, <1>8, <1>9 DEF OwnerImages

\* A commit, answered or not: only an unanswered one may remove the objects.
LEMMA UploadRecordsStep ==
    ASSUME StorefrontInv, NEW s \in Sessions, UploadRecords(s),
           UNCHANGED stored \/ (CleanUp(tx[s].arg.image) /\ tx[s].arg.image \in unsure')
    PROVE  StorefrontInv' /\ StepKept
<1>1. PICK r, o, i : r = db /\ o = tx[s].on /\ i = tx[s].arg.image
    OBVIOUS
<1>2. o \in Owners /\ Exists(o) /\ i \in Images /\ tx[s].arg.primary \in BOOLEAN
    BY <1>1 DEF UploadRecords, Working, StorefrontInv, RequestOK
<1>3. PICK primary \in BOOLEAN : primary = (tx[s].arg.primary \/ ImagesOf(o) = {})
    OBVIOUS
<1>4. PICK n : n = CreateImage(r, i, o, "APPROVED", primary, FALSE)
    OBVIOUS
<1>5. /\ db' = Edited(n, {o})
      /\ stored' = stored \/ (stored' \in {stored, stored \ {i}} /\ i \in unsure')
    BY <1>1, <1>3, <1>4 DEF UploadRecords, CleanUp
<1>6. r \in Rows /\ ImagesSound(r) /\ r.queued \subseteq Images
    BY <1>1, RowsTyped DEF StorefrontInv, Sound
<1>7. n \in Rows /\ Keeps(r, n, {"img"}) /\ NewImage(r, n, i, o, "APPROVED", primary, FALSE)
    BY <1>2, <1>4, <1>6, CreatedRows
<1>8. /\ n.prod = r.prod /\ n.var = r.var /\ n.brand = r.brand /\ n.cat = r.cat
      /\ n.queued = r.queued /\ n.imported = r.imported
    BY <1>7 DEF Keeps, Tables
<1>10. i = PendingImage(s)
    BY <1>1 DEF UploadRecords, PendingImage
<1>11. i # None /\ r.img[i].status = "NONE" /\ i \in stored
    BY <1>1, <1>2, <1>10, CatalogAssumption DEF StorefrontInv, ObjectsOK
<1>12. OwnerImages(r, n, o, i, {o})
    BY <1>2, <1>6, <1>7, <1>8, <1>11, NewImageSound
<1>13. TxStep(s, {o}, {o}) /\ tx'[s] = None /\ PendingImage(s)' = None
    <2>1. Free(s, {o}) /\ Increment(s, {o})
        BY <1>1 DEF UploadRecords, BumpOwner
    <2> QED
        BY <2>1, CommitTx
<1>14. ObjectStep(s, i)
    BY <1>5, <1>10, <1>11, <1>13 DEF ObjectStep
<1>15. ShelvesStay(r, n) /\ Keeps(r, n, {"img", "queued", "prod"})
    BY <1>7, <1>8 DEF ShelvesStay, Keeps
<1>16. WrittenAs(db', n, {o}) /\ db.prod[ProductOfOwner(o)].status # "NONE"
    BY <1>2, <1>5 DEF WrittenAs, Exists
<1> QED
    BY <1>1, <1>2, <1>7, <1>12, <1>13, <1>14, <1>15, <1>16, ImagesWritten

\* What a retired image is
RetiredIn(r, n, i) ==
    /\ n.img[i].status = "DELETED" /\ n.img[i].owner = r.img[i].owner /\ n.img[i].primary = FALSE
    /\ n.queued = r.queued \cup {i}
    /\ \A j \in Images \ {i} : n.img[j] = r.img[j]

LEMMA RetiredRows ==
    ASSUME NEW r \in Rows, NEW i \in Images, NEW n, n = Retire(r, i)
    PROVE  n \in Rows /\ Keeps(r, n, {"img", "queued"}) /\ RetiredIn(r, n, i)
<1> DEFINE row == [r.img[i] EXCEPT !.status = "DELETED", !.primary = FALSE]
           t == [r.img EXCEPT ![i] = row]
           Q == r.queued \cup {i}
<1>1. r.img[i] \in ImageRow /\ r.img \in [Images -> ImageRow]
    BY RowsTyped
<1>2. row \in ImageRow /\ row.status = "DELETED" /\ row.primary = FALSE /\ row.owner = r.img[i].owner
    BY <1>1 DEF ImageRow
<1>3. t \in [Images -> ImageRow] /\ t[i] = row /\ \A j \in Images \ {i} : t[j] = r.img[j]
    BY <1>1, <1>2
<1>4. n = [r EXCEPT !.img = t, !.queued = Q]
    BY DEF Retire, Rows
<1>5. Q \in SUBSET Images
    BY RowsTyped
<1> HIDE DEF row, t, Q
<1>6. /\ [r EXCEPT !.img = t, !.queued = Q] \in Rows
      /\ Keeps(r, [r EXCEPT !.img = t, !.queued = Q], {"img", "queued"})
      /\ [r EXCEPT !.img = t, !.queued = Q].img = t /\ [r EXCEPT !.img = t, !.queued = Q].queued = Q
    BY <1>3, <1>5 DEF Rows, Keeps, Tables
<1> QED
    BY <1>2, <1>3, <1>4, <1>6 DEF RetiredIn, Q

LEMMA ReplaceRecordsStep ==
    ASSUME StorefrontInv, NEW s \in Sessions, ReplaceRecords(s),
           CleanUp(tx[s].on) \/ (CleanUp(tx[s].arg.image) /\ tx[s].arg.image \in unsure')
    PROVE  StorefrontInv' /\ StepKept
<1>1. PICK r, i, a : r = db /\ i = tx[s].on /\ a = tx[s].arg
    OBVIOUS
<1>2. PICK o, j : o = a.owner /\ j = a.image
    OBVIOUS
<1>3. /\ i \in Images /\ j \in Images /\ a.primary \in BOOLEAN
      /\ r.img[i].status = "APPROVED" /\ r.img[i].owner = o /\ r.img[i].primary = a.primary
    BY <1>1, <1>2 DEF ReplaceRecords, BumpOwner, SameVersion, Working, StorefrontInv, RequestOK
<1>4. r \in Rows /\ ImagesSound(r) /\ r.queued \subseteq Images
    BY <1>1, RowsTyped DEF StorefrontInv, Sound
<1>5. o \in Owners /\ r.prod[ProductOfOwner(o)].status # "NONE" /\ ProductOfOwner(o) \in Products
    BY <1>3, <1>4, ProductOfOwnerTyped DEF ImagesSound
<1>6. j = PendingImage(s)
    BY <1>1, <1>2 DEF ReplaceRecords, PendingImage
<1>7. j # None /\ r.img[j].status = "NONE" /\ j \in stored /\ j # i
    BY <1>1, <1>3, <1>6, CatalogAssumption DEF StorefrontInv, ObjectsOK
<1>8. PICK m : m = Retire(r, i)
    OBVIOUS
<1>9. m \in Rows /\ Keeps(r, m, {"img", "queued"}) /\ RetiredIn(r, m, i)
    BY <1>3, <1>4, <1>8, RetiredRows
<1>10. PICK row : row = [status |-> "APPROVED", owner |-> a.owner, primary |-> a.primary, imported |-> FALSE]
    OBVIOUS
<1>11. /\ row \in ImageRow /\ row.status = "APPROVED" /\ row.owner = o /\ row.primary = a.primary
       /\ row.imported = FALSE
    BY <1>2, <1>3, <1>5, <1>10 DEF ImageRow
<1>12. PICK n : n = [m EXCEPT !.img[j] = row]
    OBVIOUS
<1>13. n \in Rows /\ Keeps(m, n, {"img"}) /\ n.img[j] = row /\ \A k \in Images \ {j} : n.img[k] = m.img[k]
    BY <1>3, <1>9, <1>11, <1>12, OneImageRow
<1>14. Replaced(i, a) = n
    BY <1>1, <1>2, <1>8, <1>10, <1>12 DEF Replaced
<1>15. /\ db' = Edited(n, {o})
       /\ \/ stored' \in {stored, stored \ {i}}
          \/ stored' \in {stored, stored \ {j}} /\ j \in unsure'
    BY <1>1, <1>2, <1>14 DEF ReplaceRecords, CleanUp
<1>16. /\ n.prod = r.prod /\ n.var = r.var /\ n.brand = r.brand /\ n.cat = r.cat
       /\ n.imported = r.imported /\ n.queued = r.queued \cup {i}
       /\ Keeps(r, n, {"img", "queued", "prod"})
    BY <1>9, <1>13 DEF Keeps, Tables, RetiredIn
<1>17. /\ n.img[i].status = "DELETED" /\ n.img[i].owner = o
       /\ n.img[j].status = "APPROVED" /\ n.img[j].owner = o /\ n.img[j].primary = r.img[i].primary
       /\ n.img[j].imported = FALSE
       /\ \A k \in Images \ {i, j} : n.img[k] = r.img[k]
    BY <1>3, <1>7, <1>9, <1>11, <1>13 DEF RetiredIn
<1>18. OwnerImages(r, n, o, j, {o})
    <2>1. \A k \in Images : /\ LiveIn(n, k) => k = j \/ (k # i /\ n.img[k] = r.img[k] /\ LiveIn(r, k))
                            /\ CountedIn(n, k) => k # i /\ k # j /\ n.img[k] = r.img[k] /\ CountedIn(r, k)
        BY <1>17 DEF LiveIn, CountedIn
    <2>2. ASSUME NEW k \in Images, n.img[k].owner = o
          PROVE  /\ n.img[k].status = "PENDING" => n.prod[ProductOfOwner(o)].review
                 /\ LiveIn(n, k) /\ n.img[k].primary => n.img[k].status = "APPROVED"
        BY <1>4, <1>16, <1>17, <2>1, <2>2 DEF ImagesSound
    <2>3. ASSUME NEW k \in Images, NEW l \in Images, n.img[k].owner = o, n.img[l].owner = o
          PROVE  /\ LiveIn(n, k) /\ n.img[k].primary /\ LiveIn(n, l) /\ n.img[l].primary => k = l
                 /\ CountedIn(n, k) /\ CountedIn(n, l) => k = l
        <3>1. LiveIn(r, i)
            BY <1>3 DEF LiveIn
        <3>2. ASSUME NEW x \in Images, x # j, LiveIn(n, x), n.img[x].primary, n.img[x].owner = o
              PROVE  ~ n.img[j].primary
            BY <1>3, <1>4, <1>17, <2>1, <3>1, <3>2 DEF ImagesSound
        <3> QED
            BY <1>4, <1>17, <2>1, <2>3, <3>2 DEF ImagesSound
    <2>4. \A k \in n.queued : n.img[k].status = "DELETED"
        BY <1>4, <1>7, <1>16, <1>17 DEF ImagesSound
    <2> QED
        BY <1>3, <1>7, <1>16, <1>17, <2>2, <2>3, <2>4 DEF OwnerImages
<1>19. TxStep(s, {o}, {o}) /\ tx'[s] = None /\ PendingImage(s)' = None
    <2>1. Free(s, {o}) /\ Increment(s, {o})
        BY <1>1, <1>2 DEF ReplaceRecords, BumpOwner
    <2> QED
        BY <2>1, CommitTx
<1>20. db'.img = n.img
    <2>1. {o} \in SUBSET Owners
        BY <1>5
    <2>2. Keeps(n, Edited(n, {o}), {"batch", "edited"})
        BY <1>13, <2>1, EditedRows
    <2> QED
        BY <1>15, <2>2 DEF Keeps, Tables
<1>21. ObjectStep(s, j)
    BY <1>6, <1>7, <1>15, <1>17, <1>19, <1>20 DEF ObjectStep
<1>22. ShelvesStay(r, n) /\ WrittenAs(db', n, {o})
    BY <1>5, <1>15, <1>16 DEF ShelvesStay, WrittenAs
<1> QED
    BY <1>1, <1>5, <1>13, <1>16, <1>18, <1>19, <1>21, <1>22, ImagesWritten

\* The owner of a live image exists, and only its version moves.
LEMMA OneOwnerStep ==
    ASSUME StorefrontInv, NEW i \in Images, NEW o, o = db.img[i].owner, OneOwner(i)
    PROVE  /\ o \in Owners /\ db.prod[ProductOfOwner(o)].status # "NONE"
           /\ ProductOfOwner(o) \in Products /\ None \notin Sessions
           /\ TxStep(None, {o}, {o})
<1>1. Live(i) /\ Free(None, {o}) /\ Increment(None, {o})
    BY DEF OneOwner
<1>2. TxStep(None, {o}, {o})
    BY <1>1, CommitTx
<1> QED
    BY <1>1, <1>2, ProductOfOwnerTyped, CatalogAssumption DEF StorefrontInv, Sound, ImagesSound, Live

LEMMA ArrangeImagesStep ==
    ASSUME StorefrontInv, NEW i \in Images, ArrangeImages(i)
    PROVE  StorefrontInv' /\ StepKept
<1>1. PICK o, n : o = db.img[i].owner /\ n = db
    OBVIOUS
<1>2. /\ o \in Owners /\ db.prod[ProductOfOwner(o)].status # "NONE" /\ None \notin Sessions
      /\ TxStep(None, {o}, {o})
    BY <1>1, OneOwnerStep DEF ArrangeImages
<1>3. n \in Rows /\ ImagesSound(n) /\ ProductOfOwner(o) \in Products
    BY <1>1, <1>2, ProductOfOwnerTyped DEF StorefrontInv, Sound
<1>4. db' = Edited(n, {o}) /\ UNCHANGED stored
    BY <1>1 DEF ArrangeImages
<1>5. WrittenAs(db', n, {o}) /\ Keeps(db, n, {"img", "queued", "prod"}) /\ ShelvesStay(db, n)
    BY <1>1, <1>2, <1>4 DEF WrittenAs, Keeps, ShelvesStay
<1>6. OwnerImages(db, n, o, None, {o})
    BY <1>1, <1>3 DEF OwnerImages, ImagesSound
<1>7. ObjectStep(None, None)
    BY <1>2, <1>4 DEF ObjectStep
<1> QED
    BY <1>2, <1>3, <1>5, <1>6, <1>7, ImagesWritten

LEMMA SetPrimaryStep ==
    ASSUME StorefrontInv, NEW i \in Images, SetPrimary(i)
    PROVE  StorefrontInv' /\ StepKept
<1>1. PICK r, o : r = db /\ o = db.img[i].owner
    OBVIOUS
<1>2. /\ o \in Owners /\ db.prod[ProductOfOwner(o)].status # "NONE" /\ None \notin Sessions
      /\ TxStep(None, {o}, {o}) /\ ProductOfOwner(o) \in Products
    BY <1>1, OneOwnerStep DEF SetPrimary
<1>3. r \in Rows /\ ImagesSound(r) /\ r.queued \subseteq Images /\ r.img[i].status = "APPROVED"
    BY <1>1, RowsTyped DEF StorefrontInv, Sound, SetPrimary
<1>4. PICK m : m = clearPrimary(r, o)
    OBVIOUS
<1>5. /\ m \in Rows /\ Keeps(r, m, {"img"})
      /\ \A j \in Images : IF r.img[j].owner = o /\ r.img[j].status # "DELETED"
                           THEN Unmarked(r.img[j], m.img[j]) ELSE m.img[j] = r.img[j]
    BY <1>3, <1>4, ClearedRows
<1>6. PICK row : row = [m.img[i] EXCEPT !.primary = TRUE]
    OBVIOUS
<1>7. m.img[i] \in ImageRow
    BY <1>5, RowsTyped
<1>8. /\ row \in ImageRow /\ row.status = m.img[i].status /\ row.owner = m.img[i].owner
      /\ row.imported = m.img[i].imported
    BY <1>6, <1>7 DEF ImageRow
<1>9. PICK n : n = [m EXCEPT !.img[i] = row]
    OBVIOUS
<1>10. n \in Rows /\ Keeps(m, n, {"img"}) /\ n.img[i] = row /\ \A j \in Images \ {i} : n.img[j] = m.img[j]
    BY <1>5, <1>8, <1>9, OneImageRow
<1>11. db' = Edited(n, {o}) /\ UNCHANGED stored
    BY <1>1, <1>4, <1>6, <1>9 DEF SetPrimary
<1>12. /\ n.prod = r.prod /\ n.var = r.var /\ n.brand = r.brand /\ n.cat = r.cat
       /\ n.imported = r.imported /\ n.queued = r.queued /\ Keeps(r, n, {"img", "queued", "prod"})
    BY <1>5, <1>10 DEF Keeps, Tables
<1>13. ASSUME NEW j \in Images
       PROVE  /\ n.img[j].status = r.img[j].status /\ n.img[j].owner = r.img[j].owner
              /\ n.img[j].imported = r.img[j].imported
              /\ n.img[j] = r.img[j] \/ r.img[j].owner = o
              /\ j # i /\ r.img[j].owner = o /\ r.img[j].status # "DELETED" => ~ n.img[j].primary
    BY <1>1, <1>3, <1>5, <1>8, <1>10 DEF Unmarked
<1>14. OwnerImages(r, n, o, None, {o})
    <2>1. \A j \in Images : LiveIn(n, j) = LiveIn(r, j) /\ CountedIn(n, j) = CountedIn(r, j)
        BY <1>13 DEF LiveIn, CountedIn
    <2>2. ASSUME NEW j \in Images, n.img[j].owner = o
          PROVE  /\ n.img[j].status = "PENDING" => n.prod[ProductOfOwner(o)].review
                 /\ LiveIn(n, j) /\ n.img[j].primary => j = i
        BY <1>3, <1>12, <1>13, <2>2 DEF ImagesSound, LiveIn
    <2>3. ASSUME NEW j \in Images, NEW k \in Images, n.img[j].owner = o, n.img[k].owner = o
          PROVE  /\ LiveIn(n, j) /\ n.img[j].primary /\ LiveIn(n, k) /\ n.img[k].primary => j = k
                 /\ CountedIn(n, j) /\ CountedIn(n, k) => j = k
        BY <1>3, <1>13, <2>1, <2>2, <2>3 DEF ImagesSound
    <2>4. \A j \in n.queued : n.img[j].status = "DELETED"
        BY <1>3, <1>12, <1>13 DEF ImagesSound
    <2>5. ASSUME NEW j \in Images, n.img[j] # r.img[j]
          PROVE  /\ n.img[j].owner = o /\ r.img[j].status # "NONE" /\ n.img[j].status # "NONE" /\ r.img[j].owner = o
                 /\ n.img[j].status = r.img[j].status
        <3>1. r.img[j].owner = o /\ o # None
            BY <1>2, <1>13, <2>5, CatalogAssumption DEF Owners
        <3> QED
            BY <1>3, <1>13, <3>1 DEF ImagesSound, NoImage
    <2> QED
        BY <1>3, <1>12, <1>13, <2>2, <2>3, <2>4, <2>5 DEF OwnerImages
<1>15. ShelvesStay(r, n) /\ WrittenAs(db', n, {o}) /\ ObjectStep(None, None)
    BY <1>2, <1>11, <1>12 DEF ShelvesStay, WrittenAs, ObjectStep
<1> QED
    BY <1>1, <1>2, <1>10, <1>12, <1>14, <1>15, ImagesWritten

LEMMA RemoveStep ==
    ASSUME StorefrontInv, NEW i \in Images, Remove(i)
    PROVE  StorefrontInv' /\ StepKept
<1>1. PICK r, o : r = db /\ o = db.img[i].owner
    OBVIOUS
<1>2. /\ o \in Owners /\ db.prod[ProductOfOwner(o)].status # "NONE" /\ None \notin Sessions
      /\ TxStep(None, {o}, {o}) /\ ProductOfOwner(o) \in Products
    BY <1>1, OneOwnerStep DEF Remove
<1>3. r \in Rows /\ ImagesSound(r) /\ r.queued \subseteq Images /\ LiveIn(r, i)
    BY <1>1, RowsTyped DEF StorefrontInv, Sound, Remove, OneOwner, Live, LiveIn
<1>4. PICK m : m = Retire(r, i)
    OBVIOUS
<1>5. m \in Rows /\ Keeps(r, m, {"img", "queued"}) /\ RetiredIn(r, m, i)
    BY <1>3, <1>4, RetiredRows
<1>6. PICK n :
        /\ db' = Edited(n, {o})
        /\ \/ n = m
           \/ \E j \in Images \ {i} :
                /\ r.img[i].primary /\ r.img[j].status = "APPROVED" /\ r.img[j].owner = o
                /\ n = [m EXCEPT !.img[j].primary = TRUE]
    <2>1. CASE db' = Edited(m, {o})
        BY <2>1
    <2>2. CASE db' # Edited(m, {o})
        <3>1. r.img[i].primary
            BY <1>1, <1>4, <2>2 DEF Remove
        <3>2. PICK j \in ImagesOf(o) \ {i} :
                /\ db.img[j].status = "APPROVED"
                /\ db' = Edited([Retire(db, i) EXCEPT !.img[j].primary = TRUE], {o})
            BY <1>1, <1>4, <2>2 DEF Remove
        <3>3. j \in Images \ {i} /\ r.img[j].status = "APPROVED" /\ r.img[j].owner = o
            BY <1>1, <3>2 DEF ImagesOf
        <3> QED
            BY <1>1, <1>4, <3>1, <3>2, <3>3
    <2> QED
        BY <2>1, <2>2
\* j is the image that takes the mark, or None.
<1>7. PICK j \in Images \cup {None} :
        /\ n \in Rows /\ Keeps(m, n, {"img"})
        /\ \A k \in Images \ {j} : n.img[k] = m.img[k]
        /\ j # None => /\ j # i /\ r.img[i].primary /\ r.img[j].status = "APPROVED" /\ r.img[j].owner = o
                       /\ n.img[j].status = "APPROVED" /\ n.img[j].owner = o
                       /\ n.img[j].imported = r.img[j].imported
    <2>1. CASE n = m
        BY <1>5, <2>1 DEF Keeps
    <2>2. ASSUME NEW j \in Images \ {i}, r.img[i].primary, r.img[j].status = "APPROVED", r.img[j].owner = o,
                 n = [m EXCEPT !.img[j].primary = TRUE]
          PROVE  /\ n \in Rows /\ Keeps(m, n, {"img"})
                 /\ \A k \in Images \ {j} : n.img[k] = m.img[k]
                 /\ n.img[j].status = "APPROVED" /\ n.img[j].owner = o
                 /\ n.img[j].imported = r.img[j].imported
        <3>1. PICK row : row = [m.img[j] EXCEPT !.primary = TRUE]
            OBVIOUS
        <3>2. m.img[j] \in ImageRow /\ m.img[j] = r.img[j]
            BY <1>5, RowsTyped DEF RetiredIn
        <3>3. /\ row \in ImageRow /\ row.status = "APPROVED" /\ row.owner = o
              /\ row.imported = r.img[j].imported
            BY <2>2, <3>1, <3>2 DEF ImageRow
        <3>4. n = [m EXCEPT !.img[j] = row]
            BY <2>2, <3>1
        <3>5. n \in Rows /\ Keeps(m, n, {"img"}) /\ n.img[j] = row /\ \A k \in Images \ {j} : n.img[k] = m.img[k]
            BY <1>5, <3>3, <3>4, OneImageRow
        <3> QED
            BY <3>3, <3>5
    <2> QED
        BY <1>6, <2>1, <2>2
<1>8. /\ n.prod = r.prod /\ n.var = r.var /\ n.brand = r.brand /\ n.cat = r.cat
      /\ n.imported = r.imported /\ n.queued = r.queued \cup {i}
      /\ Keeps(r, n, {"img", "queued", "prod"})
    BY <1>5, <1>7 DEF Keeps, Tables, RetiredIn
<1>9. /\ n.img[i].status = "DELETED" /\ n.img[i].owner = o
      /\ \A k \in Images \ {i, j} : n.img[k] = r.img[k]
    BY <1>1, <1>5, <1>7, CatalogAssumption DEF RetiredIn
<1>10. OwnerImages(r, n, o, None, {o})
    <2>1. ASSUME NEW k \in Images
          PROVE  /\ LiveIn(n, k) => k # i /\ LiveIn(r, k)
                 /\ CountedIn(n, k) => k # i /\ CountedIn(r, k)
                 /\ k # i => n.img[k].status = r.img[k].status /\ n.img[k].owner = r.img[k].owner
        BY <1>7, <1>9, CatalogAssumption DEF LiveIn, CountedIn
    <2>2. ASSUME NEW k \in Images, n.img[k].owner = o
          PROVE  /\ n.img[k].status = "PENDING" => n.prod[ProductOfOwner(o)].review
                 /\ LiveIn(n, k) /\ n.img[k].primary => n.img[k].status = "APPROVED"
        BY <1>3, <1>7, <1>8, <1>9, <2>1, <2>2, CatalogAssumption DEF ImagesSound
    <2>3. ASSUME NEW k \in Images, k # j, n.img[k].owner = o, LiveIn(n, k), n.img[k].primary, j # None
          PROVE  FALSE
        BY <1>1, <1>3, <1>7, <1>9, <2>1, <2>3 DEF ImagesSound
    <2>4. ASSUME NEW k \in Images, NEW l \in Images, n.img[k].owner = o, n.img[l].owner = o
          PROVE  /\ LiveIn(n, k) /\ n.img[k].primary /\ LiveIn(n, l) /\ n.img[l].primary => k = l
                 /\ CountedIn(n, k) /\ CountedIn(n, l) => k = l
        <3>1. CASE j = None
            BY <1>3, <1>9, <2>1, <2>4, <3>1, CatalogAssumption DEF ImagesSound
        <3>2. CASE j # None
            BY <1>3, <2>1, <2>3, <2>4, <3>2 DEF ImagesSound
        <3> QED
            BY <3>1, <3>2
    <2>5. \A k \in n.queued : n.img[k].status = "DELETED"
        BY <1>3, <1>8, <1>9, <2>1 DEF ImagesSound
    <2>6. ASSUME NEW k \in Images, n.img[k] # r.img[k]
          PROVE  /\ n.img[k].owner = o /\ r.img[k].status # "NONE" /\ n.img[k].status # "NONE" /\ r.img[k].owner = o
                 /\ n.img[k].status = "PENDING" => r.img[k].status = "PENDING"
                 /\ r.img[k].status = "DELETED" => n.img[k].status = "DELETED"
        BY <1>1, <1>3, <1>7, <1>9, <2>6, CatalogAssumption DEF LiveIn
    <2> QED
        BY <1>8, <2>2, <2>4, <2>5, <2>6 DEF OwnerImages
<1>11. db'.img = n.img
    <2>1. {o} \in SUBSET Owners
        BY <1>2
    <2>2. Keeps(n, Edited(n, {o}), {"batch", "edited"})
        BY <1>7, <2>1, EditedRows
    <2> QED
        BY <1>6, <2>2 DEF Keeps, Tables
<1>12. ObjectStep(None, None)
    BY <1>2, <1>9, <1>11 DEF ObjectStep, Remove
<1>13. ShelvesStay(r, n) /\ WrittenAs(db', n, {o})
    BY <1>2, <1>6, <1>8 DEF ShelvesStay, WrittenAs
<1> QED
    BY <1>1, <1>2, <1>7, <1>8, <1>10, <1>12, <1>13, ImagesWritten

\* A decision on image i, which gets the mark as primary or not
Decided(r, n, i, o, d, mark) ==
    /\ n.img[i].status = d /\ n.img[i].owner = o /\ n.img[i].primary = mark
    /\ n.img[i].imported = r.img[i].imported
    /\ \A j \in Images \ {i} :
         IF mark /\ r.img[j].owner = o /\ r.img[j].status # "DELETED"
         THEN Unmarked(r.img[j], n.img[j]) ELSE n.img[j] = r.img[j]
    /\ \A q \in Products : q # ProductOfOwner(o) => n.prod[q] = r.prod[q]
    /\ n.prod[ProductOfOwner(o)].review

\* The rows that review writes
Decide(r, i, o, d, mark) ==
    [(IF mark THEN clearPrimary(r, o) ELSE r) EXCEPT
        !.img[i].status = d, !.img[i].primary = mark, !.prod[ProductOfOwner(o)].review = TRUE]

LEMMA DecidedRows ==
    ASSUME NEW r \in Rows, NEW i \in Images, NEW o \in Owners, o = r.img[i].owner,
           NEW d \in {"APPROVED", "REJECTED"}, NEW mark \in BOOLEAN, NEW n,
           n = Decide(r, i, o, d, mark)
    PROVE  n \in Rows /\ Keeps(r, n, {"img", "prod"}) /\ Decided(r, n, i, o, d, mark) /\ ShelvesStay(r, n)
<1>1. PICK p \in Products : p = ProductOfOwner(o)
    BY ProductOfOwnerTyped
<1>15. PICK m : m = IF mark THEN clearPrimary(r, o) ELSE r
    OBVIOUS
<1>2. /\ m \in Rows /\ Keeps(r, m, {"img"})
      /\ \A j \in Images : IF mark /\ r.img[j].owner = o /\ r.img[j].status # "DELETED"
                           THEN Unmarked(r.img[j], m.img[j]) ELSE m.img[j] = r.img[j]
    <2>1. CASE mark
        BY <1>15, <2>1, ClearedRows
    <2>2. CASE ~ mark
        BY <1>15, <2>2 DEF Keeps
    <2> QED
        BY <2>1, <2>2
<1>3. m.img \in [Images -> ImageRow] /\ m.prod \in [Products -> ProductRow] /\ m.prod = r.prod
    BY <1>2, RowsTyped DEF Keeps, Tables
<1>4. m.img[i].owner = o /\ m.img[i].imported = r.img[i].imported
    BY <1>2 DEF Unmarked
<1> DEFINE row == [m.img[i] EXCEPT !.status = d, !.primary = mark]
           item == [m.prod[p] EXCEPT !.review = TRUE]
           t == [m.img EXCEPT ![i] = row]
           z == [m.prod EXCEPT ![p] = item]
<1>5. /\ row \in ImageRow /\ row.status = d /\ row.primary = mark /\ row.owner = o
      /\ row.imported = r.img[i].imported
    <2>1. m.img[i] \in ImageRow
        BY <1>3
    <2> QED
        BY <1>4, <2>1 DEF ImageRow
<1>6. /\ item \in ProductRow /\ item.review /\ item.status = r.prod[p].status
      /\ item.cat = r.prod[p].cat /\ item.brand = r.prod[p].brand
    <2>1. m.prod[p] \in ProductRow
        BY <1>3
    <2> QED
        BY <1>3, <2>1 DEF ProductRow
<1>7. n = [m EXCEPT !.img = t, !.prod = z]
    <2>1. n = [m EXCEPT !.img[i].status = d, !.img[i].primary = mark, !.prod[p].review = TRUE]
        BY <1>1, <1>15 DEF Decide
    <2>2. m = [prod |-> m.prod, var |-> m.var, brand |-> m.brand, cat |-> m.cat, img |-> m.img,
               batch |-> m.batch, queued |-> m.queued, deliverable |-> m.deliverable,
               imported |-> m.imported, edited |-> m.edited]
        BY <1>2 DEF Rows
    <2>3. PICK f : f = mark
        OBVIOUS
    <2>4. [m EXCEPT !.img[i].status = d, !.img[i].primary = f] = [m EXCEPT !.img = t]
        BY <1>3, <2>2, <2>3
    <2>5. [m EXCEPT !.img[i].status = d, !.img[i].primary = f, !.prod[p].review = TRUE]
            = [[m EXCEPT !.img[i].status = d, !.img[i].primary = f] EXCEPT !.prod[p].review = TRUE]
        OBVIOUS
    <2> HIDE DEF t
    <2>6. [[m EXCEPT !.img = t] EXCEPT !.prod[p].review = TRUE] = [m EXCEPT !.img = t, !.prod = z]
        BY <2>2
    <2> QED
        BY <2>1, <2>3, <2>4, <2>5, <2>6
<1> HIDE DEF row, item
<1>8. t \in [Images -> ImageRow] /\ t[i] = row /\ \A j \in Images \ {i} : t[j] = m.img[j]
    BY <1>3, <1>5
<1>9. z \in [Products -> ProductRow] /\ z[p] = item /\ \A q \in Products \ {p} : z[q] = m.prod[q]
    BY <1>3, <1>6
<1> HIDE DEF t, z
<1>10. /\ [m EXCEPT !.img = t, !.prod = z] \in Rows
       /\ Keeps(m, [m EXCEPT !.img = t, !.prod = z], {"img", "prod"})
       /\ [m EXCEPT !.img = t, !.prod = z].img = t /\ [m EXCEPT !.img = t, !.prod = z].prod = z
    BY <1>2, <1>8, <1>9 DEF Rows, Keeps, Tables
<1>11. n \in Rows /\ Keeps(m, n, {"img", "prod"}) /\ n.img = t /\ n.prod = z
    BY <1>7, <1>10
<1>12. Keeps(r, n, {"img", "prod"})
    BY <1>2, <1>11 DEF Keeps
<1>13. Decided(r, n, i, o, d, mark)
    <2>1. /\ n.img[i].status = d /\ n.img[i].owner = o /\ n.img[i].primary = mark
          /\ n.img[i].imported = r.img[i].imported
        BY <1>5, <1>8, <1>11
    <2>2. \A j \in Images \ {i} :
            IF mark /\ r.img[j].owner = o /\ r.img[j].status # "DELETED"
            THEN Unmarked(r.img[j], n.img[j]) ELSE n.img[j] = r.img[j]
        BY <1>2, <1>8, <1>11
    <2>3. /\ \A q \in Products : q # ProductOfOwner(o) => n.prod[q] = r.prod[q]
          /\ n.prod[ProductOfOwner(o)].review
        BY <1>1, <1>3, <1>6, <1>9, <1>11
    <2> QED
        BY <2>1, <2>2, <2>3 DEF Decided
<1>14. ShelvesStay(r, n)
    <2>1. n.var = r.var /\ n.brand = r.brand /\ n.cat = r.cat /\ n.imported = r.imported
        BY <1>12 DEF Keeps, Tables
    <2>2. ASSUME NEW q \in Products
          PROVE  /\ n.prod[q].status = r.prod[q].status
                 /\ n.prod[q].cat = r.prod[q].cat /\ n.prod[q].brand = r.prod[q].brand
        BY <1>3, <1>6, <1>9, <1>11
    <2> QED
        BY <2>1, <2>2 DEF ShelvesStay
<1> QED
    BY <1>11, <1>12, <1>13, <1>14

LEMMA ReviewStep ==
    ASSUME StorefrontInv, NEW i \in Images, NEW d \in {"APPROVED", "REJECTED"}, Review(i, d)
    PROVE  StorefrontInv' /\ StepKept
<1>1. PICK r, o : r = db /\ o = db.img[i].owner
    OBVIOUS
<1>2. r \in Rows /\ ImagesSound(r) /\ r.queued \subseteq Images /\ r.img[i].status = "PENDING"
    BY <1>1, RowsTyped DEF StorefrontInv, Sound, Review
<1>3. /\ o \in Owners /\ o # None /\ r.prod[ProductOfOwner(o)].status # "NONE" /\ None \notin Sessions
      /\ ProductOfOwner(o) \in Products
    BY <1>1, <1>2, ProductOfOwnerTyped, CatalogAssumption DEF ImagesSound, Owners
<1>4. PICK p : p = ProductOfOwner(o)
    OBVIOUS
<1>5. PICK X : X = {o, p}
    OBVIOUS
<1>6. TxStep(None, X, X)
    <2>1. Free(None, X) /\ Increment(None, X)
        BY <1>1, <1>4, <1>5 DEF Review
    <2> QED
        BY <2>1, CommitTx
<1> DEFINE hasPrimary == \E j \in ImagesOf(o) \ {i} : db.img[j].primary /\ db.img[j].status = "APPROVED"
<1>7. PICK mark \in BOOLEAN : mark = (d = "APPROVED" /\ ~ hasPrimary)
    OBVIOUS
<1>8. PICK n : n = Decide(r, i, o, d, mark)
    OBVIOUS
<1>10. db' = Edited(n, X) /\ UNCHANGED stored
    BY <1>1, <1>4, <1>5, <1>7, <1>8 DEF Review, Decide
<1>11. ASSUME ~ mark, d = "APPROVED"
       PROVE  \E j \in Images \ {i} : r.img[j].owner = o /\ r.img[j].primary /\ r.img[j].status = "APPROVED"
    BY <1>1, <1>7, <1>11 DEF ImagesOf
<1>12. mark => d = "APPROVED"
    BY <1>7
<1> HIDE DEF hasPrimary
<1>13. n \in Rows /\ Keeps(r, n, {"img", "prod"}) /\ Decided(r, n, i, o, d, mark) /\ ShelvesStay(r, n)
    BY <1>1, <1>2, <1>3, <1>8, DecidedRows
<1>14. n.queued = r.queued /\ Keeps(r, n, {"img", "queued", "prod"})
    BY <1>13 DEF Keeps, Tables
<1>15. OwnerImages(r, n, o, None, X)
    <2>1. ASSUME NEW j \in Images \ {i}
          PROVE  /\ n.img[j].status = r.img[j].status /\ n.img[j].owner = r.img[j].owner
                 /\ LiveIn(n, j) = LiveIn(r, j) /\ CountedIn(n, j) = CountedIn(r, j)
                 /\ n.img[j] = r.img[j] \/ (r.img[j].owner = o /\ ~ n.img[j].primary)
                 /\ mark /\ r.img[j].owner = o /\ LiveIn(r, j) => ~ n.img[j].primary
        BY <1>13 DEF Decided, Unmarked, LiveIn, CountedIn
    <2>2. /\ n.img[i].status = d /\ n.img[i].owner = o /\ (n.img[i].primary => mark)
          /\ CountedIn(n, i) => CountedIn(r, i)
          /\ n.prod[ProductOfOwner(o)].review
          /\ \A q \in Products : r.prod[q].review => n.prod[q].review
        BY <1>2, <1>13 DEF Decided, CountedIn
    <2>3. ASSUME NEW j \in Images, n.img[j].owner = o
          PROVE  LiveIn(n, j) /\ n.img[j].primary => n.img[j].status = "APPROVED"
        <3>1. CASE j = i
            BY <1>12, <2>2, <3>1
        <3>2. CASE j # i
            BY <1>2, <2>1, <3>2 DEF ImagesSound
        <3> QED
            BY <3>1, <3>2
    <2>4. ASSUME NEW j \in Images \ {i}, n.img[j].owner = o, LiveIn(n, j), n.img[j].primary
          PROVE  ~ n.img[i].primary
        BY <2>1, <2>2, <2>4
    <2>5. ASSUME NEW j \in Images, NEW k \in Images, n.img[j].owner = o, n.img[k].owner = o
          PROVE  /\ LiveIn(n, j) /\ n.img[j].primary /\ LiveIn(n, k) /\ n.img[k].primary => j = k
                 /\ CountedIn(n, j) /\ CountedIn(n, k) => j = k
        <3>1. CountedIn(n, j) /\ CountedIn(n, k) => j = k
            BY <1>1, <1>2, <2>1, <2>2, <2>5 DEF ImagesSound
        <3>2. CASE j # i /\ k # i
            BY <1>2, <2>1, <2>5, <3>1, <3>2 DEF ImagesSound
        <3>3. CASE j = i \/ k = i
            BY <2>4, <2>5, <3>1, <3>3
        <3> QED
            BY <3>2, <3>3
    <2>6. \A j \in n.queued : n.img[j].status = "DELETED"
        BY <1>2, <1>14, <2>1 DEF ImagesSound
    <2>7. ASSUME NEW j \in Images, n.img[j] # r.img[j]
          PROVE  /\ n.img[j].owner = o /\ r.img[j].status # "NONE" /\ n.img[j].status # "NONE" /\ r.img[j].owner = o
                 /\ n.img[j].status = "PENDING" => r.img[j].status = "PENDING"
                 /\ r.img[j].status = "DELETED" => n.img[j].status = "DELETED"
        <3>1. CASE j = i
            BY <1>1, <1>2, <2>2, <3>1
        <3>2. CASE j # i
            <4>1. r.img[j].owner = o
                BY <2>1, <2>7, <3>2
            <4> QED
                BY <1>2, <1>3, <2>1, <3>2, <4>1 DEF ImagesSound, NoImage
        <3> QED
            BY <3>1, <3>2
    <2> QED
        BY <2>2, <2>3, <2>5, <2>6, <2>7 DEF OwnerImages
<1>16. WrittenAs(db', n, X) /\ o \in X /\ ObjectStep(None, None)
    BY <1>3, <1>4, <1>5, <1>10 DEF WrittenAs, ObjectStep, Owners
<1> QED
    BY <1>1, <1>3, <1>6, <1>13, <1>14, <1>15, <1>16, ImagesWritten

-----------------------------------------------------------------------------
(* Imports *)

LEMMA DeliveryChangesStep ==
    ASSUME StorefrontInv, DeliveryChanges
    PROVE  StorefrontInv' /\ StepKept
<1>1. PICK r, n : r = db /\ n = db'
    OBVIOUS
<1>2. r \in Rows /\ ImagesSound(r) /\ BatchesSound(r)
    BY <1>1 DEF StorefrontInv, Sound
<1>3. n = [r EXCEPT !.deliverable = ~ r.deliverable] /\ UNCHANGED <<stored, tx>>
    BY <1>1 DEF DeliveryChanges
<1>4. n \in Rows /\ Keeps(r, n, {"deliverable"})
    BY <1>2, <1>3 DEF Rows, Keeps, Tables
<1>5. /\ n.prod = r.prod /\ n.var = r.var /\ n.brand = r.brand /\ n.cat = r.cat /\ n.img = r.img
      /\ n.batch = r.batch /\ n.queued = r.queued /\ n.imported = r.imported /\ n.edited = r.edited
    BY <1>4 DEF Keeps, Tables
<1>6. ShelvesStay(r, n) /\ ImagesStay(r, n) /\ BatchesStay(r, n, {})
    BY <1>5 DEF ShelvesStay, ImagesStay, BatchesStay
<1>7. ImagesSound(n) /\ ImageMove(r, n, {}, {}, None)
    BY <1>2, <1>6, ImagesStaySound
<1>8. BatchesSound(n) /\ BatchMove(r, n, {})
    BY <1>2, <1>5, <1>6, BatchesStaySound
<1>9. TxStep(None, {}, {}) /\ ObjectStep(None, None) /\ None \notin Sessions
    BY <1>3, SameSessions, CatalogAssumption DEF Free, ObjectStep
<1> QED
    BY <1>1, <1>4, <1>6, <1>7, <1>8, <1>9, TablesWritten

LEMMA PreviewStep ==
    ASSUME StorefrontInv, NEW b \in Batches, NEW pl \in Payloads, Preview(b, pl)
    PROVE  StorefrontInv' /\ StepKept
<1>1. PICK r, n : r = db /\ n = db'
    OBVIOUS
<1>2. r \in Rows /\ ImagesSound(r) /\ BatchesSound(r)
    BY <1>1 DEF StorefrontInv, Sound
<1>3. PICK row : row = [status |-> "PREVIEW_VALID", payload |-> pl, created |-> {}, same |-> {}]
    OBVIOUS
<1>4. row \in BatchRow /\ row.status = "PREVIEW_VALID" /\ row.payload = pl /\ row.same = {}
    BY <1>3 DEF BatchRow
<1> DEFINE t == [r.batch EXCEPT ![b] = row]
<1>5. t \in [Batches -> BatchRow] /\ t[b] = row /\ \A x \in Batches \ {b} : t[x] = r.batch[x]
    BY <1>2, <1>4, RowsTyped
<1>6. n = [r EXCEPT !.batch = t] /\ UNCHANGED <<stored, tx>> /\ r.batch[b].status = "NONE"
    BY <1>1, <1>3 DEF Preview
<1> HIDE DEF t
<1>7. n \in Rows /\ Keeps(r, n, {"batch"}) /\ n.batch = t
    <2>1. /\ [r EXCEPT !.batch = t] \in Rows /\ Keeps(r, [r EXCEPT !.batch = t], {"batch"})
          /\ [r EXCEPT !.batch = t].batch = t
        BY <1>2, <1>5, WithBatches
    <2> QED
        BY <1>6, <2>1
<1>8. /\ n.prod = r.prod /\ n.var = r.var /\ n.brand = r.brand /\ n.cat = r.cat /\ n.img = r.img
      /\ n.queued = r.queued /\ n.imported = r.imported /\ n.edited = r.edited
    BY <1>7 DEF Keeps, Tables
<1>9. ShelvesStay(r, n) /\ ImagesStay(r, n)
    BY <1>8 DEF ShelvesStay, ImagesStay
<1>10. ImagesSound(n) /\ ImageMove(r, n, {}, {}, None)
    BY <1>2, <1>9, ImagesStaySound
<1>11. BatchesSound(n) /\ BatchMove(r, n, {})
    BY <1>2, <1>4, <1>5, <1>6, <1>7, <1>8 DEF BatchesSound, BatchMove
<1>12. TxStep(None, {}, {}) /\ ObjectStep(None, None) /\ None \notin Sessions
    BY <1>6, SameSessions, CatalogAssumption DEF Free, ObjectStep
<1> QED
    BY <1>1, <1>7, <1>9, <1>10, <1>11, <1>12, TablesWritten

\* A payload names one product and variants of it.
LEMMA PayloadTyped ==
    ASSUME NEW pl \in Payloads
    PROVE  /\ pl.product \in Products /\ pl.cat \in Categories /\ pl.brand \in Brands
           /\ pl.rows \subseteq Variants /\ OwnersOf(pl) \in SUBSET Owners
           /\ \A v \in pl.rows : ProductOf[v] = pl.product
           /\ pl.price \in {0, 1, None} /\ pl.status \in MutableStatus \cup {None}
BY PayloadAssumption DEF PayloadRow, OwnersOf, Owners, VariantsOf

\* A product group changes as a whole: product p and its variants in V.
GroupMove(r, n, p, V, X) ==
    /\ n.brand = r.brand /\ n.cat = r.cat /\ n.img = r.img /\ n.queued = r.queued
    /\ r.imported \subseteq n.imported
    /\ \A q \in Products \ {p} : n.prod[q] = r.prod[q]
    /\ \A v \in Variants \ V : n.var[v] = r.var[v]
    /\ n.prod[p].status # "NONE" /\ (r.prod[p].review => n.prod[p].review)
    /\ n.prod[p].status = "PUBLISHED" =>
         p \in n.imported /\ {p, ProductsIn(n.prod[p].cat), ProductsIn(n.prod[p].brand)} \subseteq X
    /\ V \subseteq X /\ \A v \in V : v \in Variants /\ ProductOf[v] = p

LEMMA GroupWritten ==
    ASSUME StorefrontInv, NEW s \in Sessions \cup {None}, NEW X, NEW O, NEW p \in Products, NEW V,
           TxStep(s, X, O), s \in Sessions => tx'[s] = None /\ PendingImage(s)' = None,
           UNCHANGED stored, db' \in Rows, GroupMove(db, db', p, V, X),
           BatchesSound(db'), BatchMove(db, db', O)
    PROVE  StorefrontInv' /\ StepKept
<1>1. PICK r, n : r = db /\ n = db'
    OBVIOUS
<1>2. r \in Rows /\ ImagesSound(r) /\ ShelvesSound(r) /\ n \in Rows /\ GroupMove(r, n, p, V, X)
    BY <1>1 DEF StorefrontInv, Sound
<1>3. \A q \in Products : r.prod[q].status # "NONE" => n.prod[q].status # "NONE"
    BY <1>2 DEF GroupMove
<1>4. ImagesSound(n) /\ ImageMove(r, n, X, O, None)
    <2>1. ImagesStay(r, n)
        BY <1>2, <1>3 DEF ImagesStay, GroupMove
    <2> QED
        BY <1>2, <2>1, ImagesStaySound
<1>5. \A v \in Variants : n.var[v].status # "NONE" => n.prod[ProductOf[v]].status # "NONE"
    BY <1>2, <1>3, CatalogAssumption DEF GroupMove, ShelvesSound
<1>6. ASSUME NEW q \in Products \ n.imported, n.prod[q].status = "PUBLISHED"
      PROVE  OnShelf(n, n.prod[q].cat, n.prod[q].brand) /\ Sellable(n, q, {})
    <2>1. q # p /\ n.prod[q] = r.prod[q] /\ q \notin r.imported
        BY <1>2, <1>6 DEF GroupMove
    <2>2. OnShelf(r, r.prod[q].cat, r.prod[q].brand) /\ Sellable(r, q, {})
        BY <1>2, <1>6, <2>1 DEF ShelvesSound
    <2>3. OnShelf(n, n.prod[q].cat, n.prod[q].brand)
        BY <1>2, <2>1, <2>2 DEF OnShelf, GroupMove
    <2>4. Sellable(n, q, {})
        BY <1>2, <2>1, <2>2 DEF Sellable, VariantsOf, GroupMove
    <2> QED
        BY <2>3, <2>4
<1>7. ShelvesSound(n)
    BY <1>2, <1>5, <1>6 DEF ShelvesSound, GroupMove
<1>8. ProductMove(r, n, X)
    BY <1>2, <1>3 DEF ProductMove, GroupMove
<1>9. VariantMove(r, n, X) /\ CategoryMove(r, n, X) /\ r.imported \subseteq n.imported
    BY <1>2 DEF VariantMove, CategoryMove, GroupMove
<1>10. RowsMove(db, db', X, O, None)
    BY <1>1, <1>4, <1>8, <1>9 DEF RowsMove
<1>11. Sound(db)'
    BY <1>1, <1>2, <1>4, <1>7 DEF Sound
<1>12. ObjectStep(s, None)
    BY DEF ObjectStep
<1> QED
    BY <1>10, <1>11, <1>12, StepKeeps

Regrouped(e, P, V, B, E, I) ==
    [e EXCEPT !.prod = P, !.var = V, !.batch = B, !.edited = E, !.imported = I]

LEMMA WithGroup ==
    ASSUME NEW e \in Rows, NEW P \in [Products -> ProductRow], NEW V \in [Variants -> VariantRow],
           NEW B \in [Batches -> BatchRow], NEW E \in [Batches -> SUBSET Owners],
           NEW I \in SUBSET Products, NEW n, n = Regrouped(e, P, V, B, E, I)
    PROVE  /\ n \in Rows /\ Keeps(e, n, {"prod", "var", "batch", "edited", "imported"})
           /\ n.prod = P /\ n.var = V /\ n.batch = B /\ n.edited = E /\ n.imported = I
<1>1. n \in Rows
    BY DEF Rows, Regrouped
<1>2. n.prod = P /\ n.var = V /\ n.batch = B /\ n.edited = E /\ n.imported = I
    BY DEF Rows, Regrouped
<1>3. Keeps(e, n, {"prod", "var", "batch", "edited", "imported"})
    BY DEF Rows, Keeps, Tables, Regrouped
<1> QED
    BY <1>1, <1>2, <1>3

LEMMA AppliedRows ==
    ASSUME NEW pl \in Payloads, db \in Rows
    PROVE  /\ AppliedProduct(pl) \in ProductRow /\ AppliedProduct(pl).status # "NONE"
           /\ db.prod[pl.product].review => AppliedProduct(pl).review
           /\ AppliedProduct(pl).cat = pl.cat /\ AppliedProduct(pl).brand = pl.brand
           /\ AppliedProduct(pl).status = "PUBLISHED" => db.prod[pl.product].status = "PUBLISHED"
           /\ \A v \in Variants : AppliedVariant(pl, v) \in VariantRow
           /\ \A v \in Variants \ pl.rows : AppliedVariant(pl, v) = db.var[v]
<1>1. /\ pl.product \in Products /\ pl.cat \in Categories /\ pl.brand \in Brands
      /\ pl.price \in {0, 1, None} /\ pl.status \in MutableStatus \cup {None}
    BY PayloadTyped
<1>2. PICK old : old = db.prod[pl.product]
    OBVIOUS
<1>3. old \in ProductRow
    BY <1>1, <1>2, RowsTyped
<1>4. /\ AppliedProduct(pl) \in ProductRow /\ AppliedProduct(pl).status # "NONE"
      /\ old.review => AppliedProduct(pl).review
      /\ AppliedProduct(pl).cat = pl.cat /\ AppliedProduct(pl).brand = pl.brand
      /\ AppliedProduct(pl).status = "PUBLISHED" => old.status = "PUBLISHED"
    <2>1. CASE old.status = "NONE"
        <3>1. AppliedProduct(pl) = [status |-> "DRAFT", cat |-> pl.cat, brand |-> pl.brand, review |-> TRUE]
            BY <1>2, <2>1 DEF AppliedProduct
        <3> QED
            BY <1>1, <3>1 DEF ProductRow, PublicationStatus
    <2>2. CASE old.status # "NONE"
        <3>1. AppliedProduct(pl) = [old EXCEPT !.cat = pl.cat, !.brand = pl.brand]
            BY <1>2, <2>2 DEF AppliedProduct
        <3> QED
            BY <1>1, <1>3, <2>2, <3>1 DEF ProductRow
    <2> QED
        BY <2>1, <2>2
<1>5. ASSUME NEW v \in Variants PROVE AppliedVariant(pl, v) \in VariantRow
    <2>1. PICK row : row = db.var[v]
        OBVIOUS
    <2>2. row \in VariantRow
        BY <2>1, RowsTyped
    <2>3. CASE v \notin pl.rows
        BY <2>1, <2>2, <2>3 DEF AppliedVariant
    <2>4. CASE v \in pl.rows /\ row.status = "NONE"
        BY <1>1, <2>1, <2>4 DEF AppliedVariant, VariantRow, PublicationStatus, MutableStatus
    <2>5. CASE v \in pl.rows /\ row.status # "NONE"
        <3>1. AppliedVariant(pl, v) =
                [row EXCEPT !.price = IF pl.price = None THEN row.price ELSE pl.price,
                            !.status = IF pl.status = None \/ row.status = "ARCHIVED" THEN row.status
                                       ELSE pl.status]
            BY <2>1, <2>2, <2>5 DEF AppliedVariant, VariantRow
        <3> QED
            BY <1>1, <2>2, <3>1 DEF VariantRow, PublicationStatus, MutableStatus
    <2> QED
        BY <2>3, <2>4, <2>5
<1>6. \A v \in Variants \ pl.rows : AppliedVariant(pl, v) = db.var[v]
    BY DEF AppliedVariant
<1> QED
    BY <1>2, <1>4, <1>5, <1>6

LEMMA ApplyCommitStep ==
    ASSUME StorefrontInv, NEW s \in Sessions, ApplyCommit(s)
    PROVE  StorefrontInv' /\ StepKept
<1>1. PICK r, n, b, pl : r = db /\ n = db' /\ b = tx[s].on /\ pl = tx[s].arg
    OBVIOUS
<1>2. r \in Rows /\ BatchesSound(r)
    BY <1>1 DEF StorefrontInv, Sound
<1>3. b \in Batches /\ r.batch[b].status = "PREVIEW_VALID" /\ pl = r.batch[b].payload /\ pl \in Payloads
    <2>1. b \in Batches /\ r.batch[b].status = "PREVIEW_VALID" /\ pl = r.batch[b].payload
        BY <1>1 DEF ApplyCommit, Working, StorefrontInv, RequestOK
    <2> QED
        BY <1>2, <2>1 DEF BatchesSound
<1>4. PICK p, O, X : /\ p = pl.product /\ O = OwnersOf(pl)
                     /\ X = pl.rows \cup ProductWrite(p, pl.cat, pl.brand)
    OBVIOUS
<1>5. p \in Products /\ pl.rows \subseteq Variants /\ O \in SUBSET Owners /\ \A v \in pl.rows : ProductOf[v] = p
    BY <1>3, <1>4, PayloadTyped
<1>6. TxStep(s, X, O) /\ tx'[s] = None /\ PendingImage(s)' = None
    <2>1. Free(s, X) /\ Increment(s, O)
        BY <1>1, <1>4 DEF ApplyCommit
    <2> QED
        BY <2>1, CommitTx
<1>7. PICK e : e = Edited(r, O)
    OBVIOUS
<1>8. /\ e \in Rows /\ Keeps(r, e, {"batch", "edited"}) /\ BatchesStay(r, e, O)
      /\ e.prod = r.prod /\ e.var = r.var /\ e.brand = r.brand /\ e.cat = r.cat /\ e.img = r.img
      /\ e.queued = r.queued /\ e.imported = r.imported
    <2>1. e \in Rows /\ Keeps(r, e, {"batch", "edited"})
        BY <1>2, <1>5, <1>7, EditedRows
    <2>2. BatchesStay(r, e, O)
        BY <1>2, <1>5, <1>7, EditedStay
    <2> QED
        BY <2>1, <2>2 DEF Keeps, Tables
<1>9. PICK item, row :
        /\ item = AppliedProduct(pl)
        /\ row = [status |-> "APPLIED", payload |-> r.batch[b].payload,
                  created |-> {v \in pl.rows : r.var[v].status = "NONE"}, same |-> O]
    OBVIOUS
<1>10. row \in BatchRow /\ row.status = "APPLIED" /\ row.payload = pl /\ row.same = O
    BY <1>3, <1>5, <1>9 DEF BatchRow
<1>11. /\ item \in ProductRow /\ item.status # "NONE" /\ (r.prod[p].review => item.review)
       /\ item.cat = pl.cat /\ item.brand = pl.brand
       /\ item.status = "PUBLISHED" => r.prod[p].status = "PUBLISHED"
       /\ \A v \in Variants : AppliedVariant(pl, v) \in VariantRow
       /\ \A v \in Variants \ pl.rows : AppliedVariant(pl, v) = r.var[v]
    BY <1>1, <1>2, <1>3, <1>4, <1>9, AppliedRows
<1> DEFINE P == [e.prod EXCEPT ![p] = item]
           V == [v \in Variants |-> AppliedVariant(pl, v)]
           B == [e.batch EXCEPT ![b] = row]
           E == [e.edited EXCEPT ![b] = {}]
           I == IF r.prod[p].status = "NONE" THEN r.imported ELSE r.imported \cup {p}
<1>12. n = Regrouped(e, P, V, B, E, I)
    <2>1. n = [e EXCEPT !.prod[p] = item, !.var = V, !.batch[b] = row, !.edited[b] = {},
                        !.imported = IF r.prod[p].status = "NONE" THEN @ ELSE @ \cup {p}]
        BY <1>1, <1>4, <1>7, <1>9 DEF ApplyCommit
    <2> HIDE DEF V
    <2> QED
        BY <1>8, <2>1 DEF Rows, Regrouped
<1>13. P \in [Products -> ProductRow] /\ P[p] = item /\ \A q \in Products \ {p} : P[q] = r.prod[q]
    BY <1>5, <1>8, <1>11, RowsTyped
<1>14. V \in [Variants -> VariantRow] /\ \A v \in Variants \ pl.rows : V[v] = r.var[v]
    BY <1>11
<1>15. B \in [Batches -> BatchRow] /\ B[b] = row /\ \A x \in Batches \ {b} : B[x] = e.batch[x]
    BY <1>3, <1>8, <1>10, RowsTyped
<1>16. E \in [Batches -> SUBSET Owners] /\ E[b] = {} /\ \A x \in Batches \ {b} : E[x] = e.edited[x]
    BY <1>3, <1>8, RowsTyped
<1>17. I \in SUBSET Products /\ r.imported \subseteq I /\ (r.prod[p].status # "NONE" => p \in I)
    BY <1>2, <1>5, RowsTyped
<1> HIDE DEF P, V, B, E, I
<1>18. /\ n \in Rows /\ Keeps(e, n, {"prod", "var", "batch", "edited", "imported"})
       /\ n.prod = P /\ n.var = V /\ n.batch = B /\ n.edited = E /\ n.imported = I
    BY <1>8, <1>12, <1>13, <1>14, <1>15, <1>16, <1>17, WithGroup
<1>19. n.brand = r.brand /\ n.cat = r.cat /\ n.img = r.img /\ n.queued = r.queued
    BY <1>8, <1>18 DEF Keeps, Tables
<1>20. GroupMove(r, n, p, pl.rows, X)
    <2>1. {p, ProductsIn(item.cat), ProductsIn(item.brand)} \subseteq X
        BY <1>4, <1>11 DEF ProductWrite
    <2> QED
        BY <1>4, <1>5, <1>11, <1>13, <1>14, <1>17, <1>18, <1>19, <2>1 DEF GroupMove
<1>21. \A q \in Products : r.prod[q].status # "NONE" => n.prod[q].status # "NONE"
    BY <1>20 DEF GroupMove
<1>22. BatchesSound(e)
    BY <1>2, <1>8, BatchesStaySound
<1>23. BatchesSound(n)
    <2> SUFFICES ASSUME NEW x \in Batches
                 PROVE  /\ n.batch[x].same \cap n.edited[x] = {}
                        /\ n.batch[x].status # "NONE" => n.batch[x].payload \in Payloads
                        /\ n.batch[x].status \in {"APPLIED", "ROLLED_BACK"} =>
                             n.prod[n.batch[x].payload.product].status # "NONE"
        BY DEF BatchesSound
    <2>1. CASE x = b
        BY <1>3, <1>4, <1>10, <1>11, <1>13, <1>15, <1>16, <1>18, <2>1
    <2>2. CASE x # b
        <3>1. n.batch[x] = e.batch[x] /\ n.edited[x] = e.edited[x]
            BY <1>15, <1>16, <1>18, <2>2
        <3>2. n.batch[x].status # "NONE" => n.batch[x].payload.product \in Products
            BY <1>22, <3>1, PayloadTyped DEF BatchesSound
        <3> QED
            BY <1>8, <1>21, <1>22, <3>1, <3>2 DEF BatchesSound
    <2> QED
        BY <2>1, <2>2
<1>24. BatchMove(r, n, O)
    BY <1>3, <1>8, <1>10, <1>15, <1>16, <1>18 DEF BatchMove, BatchesStay
<1>25. UNCHANGED stored
    BY DEF ApplyCommit
<1> QED
    BY <1>1, <1>5, <1>6, <1>18, <1>20, <1>23, <1>24, <1>25, GroupWritten

LEMMA RollbackStep ==
    ASSUME StorefrontInv, NEW b \in Batches, Rollback(b)
    PROVE  StorefrontInv' /\ StepKept
<1>1. PICK r, n, pl : r = db /\ n = db' /\ pl = db.batch[b].payload
    OBVIOUS
<1>2. r \in Rows /\ BatchesSound(r)
    BY <1>1 DEF StorefrontInv, Sound
<1>3. r.batch[b].status = "APPLIED" /\ pl \in Payloads /\ r.prod[pl.product].status # "NONE"
    BY <1>1, <1>2 DEF Rollback, BatchesSound
<1>4. PICK p, O, X : /\ p = pl.product /\ O = OwnersOf(pl)
                     /\ X = pl.rows \cup ProductWrite(p, r.prod[p].cat, None)
    OBVIOUS
<1>5. p \in Products /\ pl.rows \subseteq Variants /\ O \in SUBSET Owners /\ \A v \in pl.rows : ProductOf[v] = p
    BY <1>3, <1>4, PayloadTyped
<1>6. TxStep(None, X, O)
    <2>1. Free(None, X) /\ Increment(None, O)
        BY <1>1, <1>4 DEF Rollback
    <2> QED
        BY <2>1, CommitTx
<1>7. PICK e : e = Edited(r, O)
    OBVIOUS
<1>8. /\ e \in Rows /\ Keeps(r, e, {"batch", "edited"}) /\ BatchesStay(r, e, O)
      /\ e.prod = r.prod /\ e.var = r.var /\ e.brand = r.brand /\ e.cat = r.cat /\ e.img = r.img
      /\ e.queued = r.queued /\ e.imported = r.imported
    <2>1. e \in Rows /\ Keeps(r, e, {"batch", "edited"})
        BY <1>2, <1>5, <1>7, EditedRows
    <2>2. BatchesStay(r, e, O)
        BY <1>2, <1>5, <1>7, EditedStay
    <2> QED
        BY <2>1, <2>2 DEF Keeps, Tables
<1>9. PICK item, row : /\ item = [e.prod[p] EXCEPT !.status = "ARCHIVED"]
                       /\ row = [e.batch[b] EXCEPT !.status = "ROLLED_BACK"]
    OBVIOUS
<1>10. row \in BatchRow /\ row.status = "ROLLED_BACK" /\ row.payload = pl /\ row.same = e.batch[b].same
    <2>1. e.batch[b] \in BatchRow /\ e.batch[b].payload = pl
        BY <1>1, <1>8, RowsTyped DEF BatchesStay
    <2> QED
        BY <1>9, <2>1 DEF BatchRow
<1>11. item \in ProductRow /\ item.status = "ARCHIVED" /\ item.review = r.prod[p].review
    <2>1. e.prod[p] \in ProductRow
        BY <1>5, <1>8, RowsTyped
    <2> QED
        BY <1>8, <1>9, <2>1 DEF ProductRow, PublicationStatus
<1> DEFINE P == [e.prod EXCEPT ![p] = item]
           V == [v \in Variants |-> IF v \in pl.rows THEN [r.var[v] EXCEPT !.status = "ARCHIVED"] ELSE r.var[v]]
           B == [e.batch EXCEPT ![b] = row]
<1>12. n = Regrouped(e, P, V, B, e.edited, e.imported)
    <2>1. n = [e EXCEPT !.batch[b].status = "ROLLED_BACK", !.prod[p].status = "ARCHIVED", !.var = V]
        BY <1>1, <1>4, <1>7 DEF Rollback
    <2> HIDE DEF V
    <2> QED
        BY <1>8, <1>9, <2>1 DEF Rows, Regrouped
<1>13. P \in [Products -> ProductRow] /\ P[p] = item /\ \A q \in Products \ {p} : P[q] = r.prod[q]
    BY <1>5, <1>8, <1>11, RowsTyped
<1>14. V \in [Variants -> VariantRow] /\ \A v \in Variants \ pl.rows : V[v] = r.var[v]
    <2>1. \A v \in Variants : r.var[v] \in VariantRow
        BY <1>2, RowsTyped
    <2> QED
        BY <2>1 DEF VariantRow, PublicationStatus
<1>15. B \in [Batches -> BatchRow] /\ B[b] = row /\ \A x \in Batches \ {b} : B[x] = e.batch[x]
    BY <1>8, <1>10, RowsTyped
<1>16. e.edited \in [Batches -> SUBSET Owners] /\ e.imported \in SUBSET Products
    BY <1>8, RowsTyped
<1> HIDE DEF P, V, B
<1>17. /\ n \in Rows /\ Keeps(e, n, {"prod", "var", "batch", "edited", "imported"})
       /\ n.prod = P /\ n.var = V /\ n.batch = B /\ n.edited = e.edited /\ n.imported = e.imported
    BY <1>8, <1>12, <1>13, <1>14, <1>15, <1>16, WithGroup
<1>18. n.brand = r.brand /\ n.cat = r.cat /\ n.img = r.img /\ n.queued = r.queued
    BY <1>8, <1>17 DEF Keeps, Tables
<1>19. GroupMove(r, n, p, pl.rows, X)
    BY <1>4, <1>5, <1>8, <1>11, <1>13, <1>14, <1>17, <1>18 DEF GroupMove
<1>20. \A q \in Products : r.prod[q].status # "NONE" => n.prod[q].status # "NONE"
    BY <1>19 DEF GroupMove
<1>21. BatchesSound(e)
    BY <1>2, <1>8, BatchesStaySound
<1>22. BatchesSound(n)
    <2> SUFFICES ASSUME NEW x \in Batches
                 PROVE  /\ n.batch[x].same \cap n.edited[x] = {}
                        /\ n.batch[x].status # "NONE" => n.batch[x].payload \in Payloads
                        /\ n.batch[x].status \in {"APPLIED", "ROLLED_BACK"} =>
                             n.prod[n.batch[x].payload.product].status # "NONE"
        BY DEF BatchesSound
    <2>1. CASE x = b
        BY <1>3, <1>4, <1>10, <1>11, <1>13, <1>15, <1>17, <1>21, <2>1 DEF BatchesSound
    <2>2. CASE x # b
        <3>1. n.batch[x] = e.batch[x] /\ n.edited[x] = e.edited[x]
            BY <1>15, <1>17, <2>2
        <3>2. n.batch[x].status # "NONE" => n.batch[x].payload.product \in Products
            BY <1>21, <3>1, PayloadTyped DEF BatchesSound
        <3> QED
            BY <1>8, <1>20, <1>21, <3>1, <3>2 DEF BatchesSound
    <2> QED
        BY <2>1, <2>2
<1>23. BatchMove(r, n, O)
    <2>1. r.edited[b] \cap OwnersOf(r.batch[b].payload) = {}
        BY <1>1, <1>2 DEF Rollback, BatchesSound
    <2>2. \A v \in Variants : n.var[v] # r.var[v] => v \in r.batch[b].created
        BY <1>1, <1>14, <1>17 DEF Rollback, assertCreateOnlyRollback
    <2>3. \A q \in Products : n.prod[q] # r.prod[q] => q = r.batch[b].payload.product
        BY <1>1, <1>4, <1>13, <1>17
    <2> QED
        BY <1>1, <1>8, <1>10, <1>15, <1>17, <2>1, <2>2, <2>3 DEF BatchMove, BatchesStay
<1>24. UNCHANGED stored /\ None \notin Sessions
    BY CatalogAssumption DEF Rollback
<1> QED
    BY <1>1, <1>5, <1>6, <1>17, <1>19, <1>22, <1>23, <1>24, GroupWritten

\* The rows that uploadImported writes
Recorded(r, m, b, p, official, O) ==
    [m EXCEPT !.prod[p].review = @ \/ ~ official,
              !.batch = [x \in Batches |-> Outdated(r.batch[x], IF x = b THEN {} ELSE O)]]

LEMMA OutdatedRow ==
    ASSUME NEW row \in BatchRow, NEW O
    PROVE  /\ Outdated(row, O) \in BatchRow /\ Outdated(row, O).status = row.status
           /\ Outdated(row, O).payload = row.payload /\ Outdated(row, O).same = row.same \ O
BY DEF Outdated, BatchRow

LEMMA RecordedRows ==
    ASSUME NEW r \in Rows, NEW m \in Rows, NEW b \in Batches, NEW p \in Products,
           NEW official \in BOOLEAN, NEW O, NEW d, Keeps(r, m, {"img"}),
           d = Recorded(r, m, b, p, official, O)
    PROVE  /\ d \in Rows /\ ShelvesStay(r, d) /\ BatchesStay(r, d, O)
           /\ d.img = m.img /\ d.queued = r.queued
           /\ \A q \in Products : r.prod[q].review => d.prod[q].review
           /\ official \/ d.prod[p].review
           /\ d.edited = r.edited
<1> DEFINE item == [m.prod[p] EXCEPT !.review = m.prod[p].review \/ ~ official]
           P == [m.prod EXCEPT ![p] = item]
           B == [x \in Batches |-> Outdated(r.batch[x], IF x = b THEN {} ELSE O)]
<1>1. /\ m.prod = r.prod /\ m.var = r.var /\ m.brand = r.brand /\ m.cat = r.cat
      /\ m.batch = r.batch /\ m.queued = r.queued /\ m.imported = r.imported /\ m.edited = r.edited
    BY DEF Keeps, Tables
<1>2. m.prod[p] \in ProductRow
    BY RowsTyped
<1>3. /\ item \in ProductRow /\ item.status = m.prod[p].status /\ item.cat = m.prod[p].cat
      /\ item.brand = m.prod[p].brand
    BY <1>2 DEF ProductRow
<1>4. (m.prod[p].review => item.review) /\ (official \/ item.review)
    BY <1>2 DEF ProductRow
<1>5. d = [m EXCEPT !.prod = P, !.batch = B]
    BY DEF Recorded, Rows
<1> HIDE DEF item
<1>6. P \in [Products -> ProductRow] /\ P[p] = item /\ \A q \in Products \ {p} : P[q] = r.prod[q]
    BY <1>1, <1>3, RowsTyped
<1>7. B \in [Batches -> BatchRow] /\ \A x \in Batches :
        B[x].status = r.batch[x].status /\ B[x].payload = r.batch[x].payload /\ B[x].same \subseteq r.batch[x].same
    <2>1. \A x \in Batches : r.batch[x] \in BatchRow
        BY RowsTyped
    <2> QED
        BY <2>1, OutdatedRow
<1> HIDE DEF P, B
<1>8. /\ [m EXCEPT !.prod = P, !.batch = B] \in Rows
      /\ Keeps(m, [m EXCEPT !.prod = P, !.batch = B], {"prod", "batch"})
      /\ [m EXCEPT !.prod = P, !.batch = B].prod = P /\ [m EXCEPT !.prod = P, !.batch = B].batch = B
    BY <1>6, <1>7 DEF Rows, Keeps, Tables
<1>9. d \in Rows /\ Keeps(m, d, {"prod", "batch"}) /\ d.prod = P /\ d.batch = B
    BY <1>5, <1>8
<1>10. /\ d.var = r.var /\ d.brand = r.brand /\ d.cat = r.cat /\ d.img = m.img
       /\ d.queued = r.queued /\ d.imported = r.imported /\ d.edited = r.edited
    BY <1>1, <1>9 DEF Keeps, Tables
<1>11. ShelvesStay(r, d)
    BY <1>1, <1>3, <1>6, <1>9, <1>10 DEF ShelvesStay
<1>12. BatchesStay(r, d, O)
    BY <1>7, <1>9, <1>10 DEF BatchesStay
<1>13. (\A q \in Products : r.prod[q].review => d.prod[q].review) /\ (official \/ d.prod[p].review)
    BY <1>1, <1>4, <1>6, <1>9
<1> QED
    BY <1>9, <1>10, <1>11, <1>12, <1>13

LEMMA ImportedRecordsStep ==
    ASSUME StorefrontInv, NEW s \in Sessions, NEW told \in BOOLEAN, ImportedRecords(s, told),
           UNCHANGED stored \/ (CleanUp(tx[s].arg.image[2]) /\ tx[s].arg.image[2] \in unsure')
    PROVE  StorefrontInv' /\ StepKept
<1>1. PICK r, d, t, b, o, i : /\ r = db /\ d = db' /\ t = tx[s] /\ b = t.on
                              /\ o = t.arg.image[1] /\ i = t.arg.image[2]
    OBVIOUS
<1>2. /\ t = [op |-> "mediaImport", on |-> b, arg |-> t.arg, fresh |-> t.fresh, rd |-> t.rd, wr |-> t.wr]
      /\ b \in Batches /\ r.batch[b].status \in {"APPLIED", "ROLLED_BACK"}
      /\ t.arg = [left |-> t.arg.left, image |-> t.arg.image, ok |-> t.arg.ok]
      /\ t.arg.left \subseteq OwnersOf(r.batch[b].payload)
      /\ t.fresh \cap r.edited[b] = {}
      /\ o \in OwnersOf(r.batch[b].payload) /\ i \in Images /\ i = PendingImage(s)
      /\ o \in t.fresh => \A j \in Images : ~ (r.img[j].owner = o /\ CountedIn(r, j))
    BY <1>1, ImportRequest DEF ImportedRecords
<1>3. r \in Rows /\ ImagesSound(r) /\ BatchesSound(r) /\ r.queued \subseteq Images
    BY <1>1, RowsTyped DEF StorefrontInv, Sound
<1>4. PICK pl \in Payloads : pl = r.batch[b].payload /\ r.prod[pl.product].status # "NONE"
    BY <1>2, <1>3 DEF BatchesSound
<1>5. PICK p : p = ProductOfOwner(o)
    OBVIOUS
<1>6. o \in Owners /\ p \in Products /\ p = pl.product
    <2>1. o \in Owners /\ (o = pl.product \/ o \in pl.rows)
        BY <1>2, <1>4, PayloadTyped DEF OwnersOf
    <2>2. /\ pl.product \in Products /\ \A v \in pl.rows : v \in Variants /\ ProductOf[v] = pl.product
        BY PayloadTyped
    <2>3. p = pl.product
        BY <1>5, <2>1, <2>2, CatalogAssumption DEF ProductOfOwner
    <2> QED
        BY <2>1, <2>2, <2>3
<1>7. PICK official \in BOOLEAN : official = pl.official
    BY PayloadAssumption DEF PayloadRow
<1>8. PICK O : O = {o} \cup (IF official THEN {} ELSE {p})
    OBVIOUS
<1>9. PICK X : X = {o, p}
    OBVIOUS
<1>10. PICK status \in {"APPROVED", "PENDING"} : status = IF official THEN "APPROVED" ELSE "PENDING"
    OBVIOUS
<1>11. PICK imported \in BOOLEAN : imported = TRUE
    OBVIOUS
<1>12. PICK m : m = CreateImage(r, i, o, status, official, imported)
    OBVIOUS
<1>13. d = Recorded(r, m, b, p, official, O)
    BY <1>1, <1>4, <1>5, <1>7, <1>8, <1>10, <1>11, <1>12 DEF ImportedRecords, Recorded
<1>14. m \in Rows /\ Keeps(r, m, {"img"}) /\ NewImage(r, m, i, o, status, official, imported)
    BY <1>2, <1>3, <1>6, <1>12, CreatedRows
<1>15. /\ d \in Rows /\ ShelvesStay(r, d) /\ BatchesStay(r, d, O)
       /\ d.img = m.img /\ d.queued = r.queued
       /\ \A q \in Products : r.prod[q].review => d.prod[q].review
       /\ official \/ d.prod[p].review
       /\ d.edited = r.edited
    BY <1>2, <1>3, <1>6, <1>13, <1>14, RecordedRows
<1>16. NewImage(r, d, i, o, status, official, imported)
    BY <1>14, <1>15 DEF NewImage
<1>17. /\ o \in t.fresh /\ Free(s, X)
       /\ stored' = stored \/ (stored' \in {stored, stored \ {i}} /\ i \in unsure')
    BY <1>1, <1>5, <1>9 DEF ImportedRecords, CleanUp
<1>18. i # None /\ r.img[i].status = "NONE" /\ i \in stored
    BY <1>1, <1>2, CatalogAssumption DEF StorefrontInv, ObjectsOK
<1>19. OwnerImages(r, d, o, i, X)
    <2>1. status = "PENDING" => ~ official /\ d.prod[ProductOfOwner(o)].review /\ ProductOfOwner(o) \in X
        BY <1>5, <1>9, <1>10, <1>15
    <2>2. \A j \in Images : ~ (r.img[j].owner = o /\ CountedIn(r, j))
        BY <1>2, <1>17
    <2> QED
        BY <1>2, <1>3, <1>6, <1>15, <1>16, <1>18, <2>1, <2>2, NewImageSound
<1>20. ImagesSound(d) /\ ImageMove(r, d, X, O, i)
    <2>1. r.prod[ProductOfOwner(o)].status # "NONE" /\ \A q \in Products : d.prod[q].status = r.prod[q].status
        BY <1>4, <1>5, <1>6, <1>15 DEF ShelvesStay
    <2>2. o \in O
        BY <1>8
    <2> QED
        BY <1>3, <1>6, <1>19, <2>1, <2>2, OwnerImagesSound
<1>21. BatchesSound(d) /\ BatchMove(r, d, O)
    BY <1>3, <1>15, BatchesStaySound DEF ShelvesStay
<1>22. PICK a, F : /\ a = [left |-> t.arg.left, image |-> None, ok |-> t.arg.ok /\ told]
                   /\ F = t.fresh \ (IF told THEN {} ELSE O)
    OBVIOUS
<1>23. PICK u : u = [op |-> "mediaImport", on |-> b, arg |-> a, fresh |-> F, rd |-> t.rd, wr |-> t.wr]
    OBVIOUS
<1>24. tx'[s] = u
    <2>1. tx[s] # None
        BY DEF ImportedRecords, Working
    <2>2. tx'[s] = [t EXCEPT !.arg = [left |-> t.arg.left, image |-> None, ok |-> t.arg.ok /\ told],
                             !.fresh = t.fresh \ (IF told THEN {} ELSE O)]
        BY <1>1, <1>4, <1>5, <1>7, <1>8, <2>1 DEF ImportedRecords
    <2>3. [t EXCEPT !.arg = a, !.fresh = F] = u
        <3>1. PICK z : z = [t EXCEPT !.arg = a]
            OBVIOUS
        <3>2. z = [op |-> "mediaImport", on |-> b, arg |-> a, fresh |-> t.fresh, rd |-> t.rd, wr |-> t.wr]
            BY <1>2, <3>1
        <3>3. [z EXCEPT !.fresh = F] = u
            BY <1>23, <3>2
        <3>4. [t EXCEPT !.arg = a, !.fresh = F] = [[t EXCEPT !.arg = a] EXCEPT !.fresh = F]
            OBVIOUS
        <3> QED
            BY <3>1, <3>3, <3>4
    <2> QED
        BY <1>22, <2>2, <2>3
<1>25. TxStep(s, X, O)
    <2>1. ASSUME NEW q \in Sessions \ {s}
          PROVE  IF tx[q] = None THEN tx'[q] = None ELSE Kept(tx[q], tx'[q], O)
        <3>1. CASE tx[q] = None
            BY <3>1 DEF ImportedRecords
        <3>2. CASE tx[q] # None
            <4>1. PICK z : z = tx[q]
                OBVIOUS
            <4>2. z = [op |-> z.op, on |-> z.on, arg |-> z.arg, fresh |-> z.fresh, rd |-> z.rd, wr |-> z.wr]
                BY <3>2, <4>1 DEF StorefrontInv, RequestOK
            <4>3. tx'[q] = [z EXCEPT !.fresh = z.fresh \ O]
                BY <1>1, <1>4, <1>5, <1>7, <1>8, <3>2, <4>1 DEF ImportedRecords
            <4>4. tx'[q] = [op |-> z.op, on |-> z.on, arg |-> z.arg, fresh |-> z.fresh \ O,
                            rd |-> z.rd, wr |-> z.wr]
                BY <4>2, <4>3
            <4>5. Kept(z, tx'[q], O)
                BY <4>4 DEF Kept
            <4> QED
                BY <3>2, <4>1, <4>5
        <3> QED
            BY <3>1, <3>2
    <2>2. tx' = [q \in Sessions |-> tx'[q]]
        BY DEF ImportedRecords
    <2> QED
        BY <1>17, <2>1, <2>2 DEF TxStep
<1>26. u.op = "mediaImport" /\ u.arg.image = None /\ u # None => RequestOK(u)'
    <2>1. d.batch[b].status = r.batch[b].status /\ d.batch[b].payload = r.batch[b].payload
        BY <1>2, <1>15 DEF BatchesStay
    <2>2. /\ u.on = b /\ u.arg = a /\ u.fresh = F /\ F \subseteq t.fresh
          /\ u = [op |-> u.op, on |-> u.on, arg |-> u.arg, fresh |-> u.fresh, rd |-> u.rd, wr |-> u.wr]
        BY <1>22, <1>23
    <2>3. a = [left |-> a.left, image |-> a.image, ok |-> a.ok] /\ a.left = t.arg.left
        BY <1>22
    <2> QED
        BY <1>1, <1>2, <1>15, <2>1, <2>2, <2>3 DEF RequestOK
<1>27. u.op = "mediaImport" /\ u.arg.image = None
    BY <1>22, <1>23
<1>28. PendingImage(s)' = None
    BY <1>24, <1>27 DEF PendingImage, Working
<1>29. ObjectStep(s, i)
    BY <1>2, <1>17, <1>18, <1>28 DEF ObjectStep
<1>30. tx'[s] # None => RequestOK(tx[s])'
    BY <1>24, <1>26, <1>27
<1> QED
    BY <1>1, <1>15, <1>20, <1>21, <1>25, <1>29, <1>30, TablesWritten

\* The rows that synchronizeRollbackVersions writes
Synchronized(r, b, p, open, O, bumped) ==
    [r EXCEPT !.prod[p].review = open,
              !.batch = [x \in Batches |-> IF x = b THEN [r.batch[b] EXCEPT !.same = O]
                                           ELSE Outdated(r.batch[x], bumped)]]

SyncedIn(r, d, b, p, open, O) ==
    /\ ShelvesStay(r, d) /\ d.img = r.img /\ d.queued = r.queued /\ d.edited = r.edited
    /\ \A q \in Products \ {p} : d.prod[q] = r.prod[q]
    /\ open => d.prod[p].review
    /\ \A x \in Batches : /\ d.batch[x].status = r.batch[x].status
                          /\ d.batch[x].payload = r.batch[x].payload
                          /\ x = b => d.batch[x].same = O
                          /\ x # b => d.batch[x].same \subseteq r.batch[x].same

LEMMA SynchronizedRows ==
    ASSUME NEW r \in Rows, NEW b \in Batches, NEW p \in Products, NEW open \in BOOLEAN,
           NEW O \in SUBSET Owners, NEW bumped, NEW d, d = Synchronized(r, b, p, open, O, bumped)
    PROVE  d \in Rows /\ SyncedIn(r, d, b, p, open, O)
<1> DEFINE item == [r.prod[p] EXCEPT !.review = open]
           P == [r.prod EXCEPT ![p] = item]
           B == [x \in Batches |-> IF x = b THEN [r.batch[b] EXCEPT !.same = O]
                                   ELSE Outdated(r.batch[x], bumped)]
<1>1. r.prod[p] \in ProductRow
    BY RowsTyped
<1>2. /\ item \in ProductRow /\ item.status = r.prod[p].status /\ item.cat = r.prod[p].cat
      /\ item.brand = r.prod[p].brand /\ (open => item.review)
    BY <1>1 DEF ProductRow
<1>3. d = [r EXCEPT !.prod = P, !.batch = B]
    BY DEF Synchronized, Rows
<1> HIDE DEF item
<1>4. P \in [Products -> ProductRow] /\ P[p] = item /\ \A q \in Products \ {p} : P[q] = r.prod[q]
    BY <1>2, RowsTyped
<1>5. \A x \in Batches : r.batch[x] \in BatchRow
    BY RowsTyped
<1>6. ASSUME NEW x \in Batches
      PROVE  /\ B[x] \in BatchRow /\ B[x].status = r.batch[x].status /\ B[x].payload = r.batch[x].payload
             /\ x = b => B[x].same = O
             /\ x # b => B[x].same \subseteq r.batch[x].same
    <2>1. CASE x = b
        <3>1. B[x] = [r.batch[b] EXCEPT !.same = O]
            BY <2>1
        <3> QED
            BY <1>5, <2>1, <3>1 DEF BatchRow
    <2>2. CASE x # b
        <3>1. B[x] = Outdated(r.batch[x], bumped)
            BY <2>2
        <3> HIDE DEF B
        <3> QED
            BY <1>5, <2>2, <3>1, OutdatedRow
    <2> QED
        BY <2>1, <2>2
<1>7. B \in [Batches -> BatchRow]
    BY <1>6
<1> HIDE DEF P, B
<1>8. /\ [r EXCEPT !.prod = P, !.batch = B] \in Rows
      /\ Keeps(r, [r EXCEPT !.prod = P, !.batch = B], {"prod", "batch"})
      /\ [r EXCEPT !.prod = P, !.batch = B].prod = P /\ [r EXCEPT !.prod = P, !.batch = B].batch = B
    BY <1>4, <1>7 DEF Rows, Keeps, Tables
<1>9. d \in Rows /\ Keeps(r, d, {"prod", "batch"}) /\ d.prod = P /\ d.batch = B
    BY <1>3, <1>8
<1>10. /\ d.var = r.var /\ d.brand = r.brand /\ d.cat = r.cat /\ d.img = r.img
       /\ d.queued = r.queued /\ d.imported = r.imported /\ d.edited = r.edited
    BY <1>9 DEF Keeps, Tables
<1>11. ShelvesStay(r, d)
    BY <1>2, <1>4, <1>9, <1>10 DEF ShelvesStay
<1> QED
    BY <1>2, <1>4, <1>6, <1>9, <1>10, <1>11 DEF SyncedIn

LEMMA MediaImportEndStep ==
    ASSUME StorefrontInv, NEW s \in Sessions, MediaImportEnd(s)
    PROVE  StorefrontInv' /\ StepKept
<1>1. PICK r, d, t, b : r = db /\ d = db' /\ t = tx[s] /\ b = t.on
    OBVIOUS
<1>2. b \in Batches /\ r.batch[b].status \in {"APPLIED", "ROLLED_BACK"} /\ t.fresh \cap r.edited[b] = {}
    BY <1>1, ImportRequest DEF MediaImportEnd
<1>3. r \in Rows /\ ImagesSound(r) /\ BatchesSound(r)
    BY <1>1 DEF StorefrontInv, Sound
<1>4. PICK pl \in Payloads : pl = r.batch[b].payload
    BY <1>2, <1>3 DEF BatchesSound
<1>5. PICK p, O : p = pl.product /\ O = OwnersOf(pl)
    OBVIOUS
<1>6. p \in Products /\ O \in SUBSET Owners
    BY <1>5, PayloadTyped
<1> DEFINE clear == pl.official /\ t.arg.ok /\ ~ Unresolved(p) /\ Approved(ImportedImages(p))
           same == O \subseteq t.fresh
<1>7. PICK bumped : bumped = IF same /\ clear /\ r.prod[p].review THEN {p} ELSE {}
    OBVIOUS
<1>8. Free(s, bumped) /\ Increment(s, bumped) /\ UNCHANGED stored
    BY <1>1, <1>4, <1>5, <1>7 DEF MediaImportEnd
<1>9. TxStep(s, bumped, bumped) /\ tx'[s] = None /\ PendingImage(s)' = None
    BY <1>8, CommitTx
<1>10. ObjectStep(s, None)
    BY <1>8, <1>9 DEF ObjectStep
<1>11. PICK open \in BOOLEAN : open = (r.prod[p].review /\ ~ clear)
    OBVIOUS
<1>12. d = r \/ (same /\ d = Synchronized(r, b, p, open, O, bumped))
    <2>1. CASE same
        BY <1>1, <1>4, <1>5, <1>7, <1>11, <2>1 DEF MediaImportEnd, Synchronized
    <2>2. CASE ~ same
        BY <1>1, <1>4, <1>5, <2>2 DEF MediaImportEnd
    <2> QED
        BY <2>1, <2>2
<1>13. r.prod[p].review => open \/ ~ Unresolved(p)
    BY <1>11
<1> HIDE DEF clear
<1>14. /\ d \in Rows /\ ShelvesStay(r, d) /\ ImagesSound(d) /\ ImageMove(r, d, bumped, bumped, None)
       /\ BatchesSound(d) /\ BatchMove(r, d, bumped)
    <2>1. CASE d = r
        <3>1. ShelvesStay(r, d) /\ ImagesStay(r, d) /\ BatchesStay(r, d, bumped)
            BY <2>1 DEF ShelvesStay, ImagesStay, BatchesStay
        <3>2. ImagesSound(d) /\ ImageMove(r, d, bumped, bumped, None)
            BY <1>3, <3>1, ImagesStaySound
        <3>3. BatchesSound(d) /\ BatchMove(r, d, bumped)
            BY <1>3, <2>1, <3>1, BatchesStaySound
        <3> QED
            BY <1>3, <2>1, <3>1, <3>2, <3>3
    <2>2. CASE same /\ d = Synchronized(r, b, p, open, O, bumped)
        <3>1. /\ d \in Rows /\ ShelvesStay(r, d)
              /\ d.img = r.img /\ d.queued = r.queued /\ d.edited = r.edited
              /\ \A q \in Products \ {p} : d.prod[q] = r.prod[q]
              /\ open => d.prod[p].review
              /\ \A x \in Batches : /\ d.batch[x].status = r.batch[x].status
                                    /\ d.batch[x].payload = r.batch[x].payload
                                    /\ x = b => d.batch[x].same = O
                                    /\ x # b => d.batch[x].same \subseteq r.batch[x].same
            <4>1. d \in Rows /\ SyncedIn(r, d, b, p, open, O)
                BY <1>2, <1>3, <1>6, <2>2, SynchronizedRows
            <4> QED
                BY <4>1 DEF SyncedIn
        <3>2. ImagesStay(r, d)
            <4>1. ASSUME NEW i \in Images, r.img[i].status = "PENDING",
                         ProductOfOwner(r.img[i].owner) = p
                  PROVE  Unresolved(p)
                <5>1. r.img[i].owner \in Owners
                    BY <1>3, <4>1 DEF ImagesSound
                <5>2. r.img[i].owner \in {p} \cup VariantsOf(p)
                    BY <4>1, <5>1 DEF ProductOfOwner, VariantsOf, Owners
                <5> QED
                    BY <1>1, <4>1, <5>2 DEF Unresolved, ImagesUnder, ImagesOf, Live
            <4>2. ASSUME NEW q \in Products, r.prod[q].review
                  PROVE  d.prod[q].review \/ \A i \in Images : r.img[i].status = "PENDING" => ProductOfOwner(r.img[i].owner) # q
                BY <1>13, <3>1, <4>1, <4>2
            <4> QED
                BY <3>1, <4>2 DEF ImagesStay, ShelvesStay
        <3>3. ImagesSound(d) /\ ImageMove(r, d, bumped, bumped, None)
            BY <1>3, <3>2, ImagesStaySound
        <3>4. BatchesSound(d)
            <4> SUFFICES ASSUME NEW x \in Batches
                         PROVE  /\ d.batch[x].same \cap d.edited[x] = {}
                                /\ d.batch[x].status # "NONE" => d.batch[x].payload \in Payloads
                                /\ d.batch[x].status \in {"APPLIED", "ROLLED_BACK"} =>
                                     d.prod[d.batch[x].payload.product].status # "NONE"
                BY DEF BatchesSound
            <4>1. d.batch[x].same \cap d.edited[x] = {}
                <5>1. CASE x = b
                    BY <1>2, <2>2, <3>1, <5>1
                <5>2. CASE x # b
                    BY <1>3, <3>1, <5>2 DEF BatchesSound
                <5> QED
                    BY <5>1, <5>2
            <4>2. d.batch[x].status # "NONE" => d.batch[x].payload \in Payloads
                BY <1>3, <3>1 DEF BatchesSound
            <4>3. d.batch[x].status # "NONE" => d.batch[x].payload.product \in Products
                BY <4>2, PayloadTyped
            <4>4. d.batch[x].status \in {"APPLIED", "ROLLED_BACK"} =>
                    r.prod[d.batch[x].payload.product].status # "NONE"
                BY <1>3, <3>1 DEF BatchesSound
            <4>5. \A q \in Products : d.prod[q].status = r.prod[q].status
                BY <3>1 DEF ShelvesStay
            <4> QED
                BY <4>1, <4>2, <4>3, <4>4, <4>5
        <3>5. BatchMove(r, d, bumped)
            BY <3>1 DEF BatchMove
        <3> QED
            BY <3>1, <3>3, <3>4, <3>5
    <2> QED
        BY <1>12, <2>1, <2>2
<1> QED
    BY <1>1, <1>9, <1>10, <1>14, TablesWritten

-----------------------------------------------------------------------------
(* The invariant is inductive. *)

LEMMA StorefrontInvInit ==
    ASSUME StorefrontInit
    PROVE  StorefrontInv
<1>1. PICK sc \in Scenarios :
        /\ db = sc.start
        /\ stored = {i \in Images : sc.start.img[i].status # "NONE"}
        /\ tx = [s \in Sessions |-> None]
    BY DEF StorefrontInit
<1>2. Sound(db)
    BY <1>1, StorefrontAssumption
<1>3. \A s \in Sessions : tx[s] = None /\ PendingImage(s) = None
    BY <1>1 DEF PendingImage, Working
<1>4. ObjectsOK
    BY <1>1, <1>3 DEF ObjectsOK, Live
<1> QED
    BY <1>1, <1>2, <1>3, <1>4 DEF StorefrontInv

LEMMA StutterStep ==
    ASSUME StorefrontInv, UNCHANGED vars
    PROVE  StorefrontInv' /\ StepKept
<1>1. UNCHANGED <<db, stored, tx>>
    BY DEF vars
<1>2. TxStep(None, {}, {}) /\ ObjectStep(None, None) /\ None \notin Sessions
    BY <1>1, SameSessions, CatalogAssumption DEF Free, ObjectStep
<1>3. RowsMove(db, db', {}, {}, None)
    BY <1>1, NothingMoves
<1>4. Sound(db)'
    BY <1>1 DEF StorefrontInv, Sound, ImagesSound, ShelvesSound, BatchesSound
<1> QED
    BY <1>2, <1>3, <1>4, StepKeeps

LEMMA CatalogStepKeeps ==
    ASSUME StorefrontInv, NEW s \in Sessions, CatalogStep(s)
    PROVE  StorefrontInv' /\ StepKept
<1>1. ASSUME NEW p \in Products, NEW c \in Categories, NEW b \in Brands \cup {None},
             \/ CreateProductBegin(s, p, c, b)
             \/ \E t \in MutableStatus : UpdateProductBegin(s, p, c, b, t)
             \/ \E y \in BOOLEAN : PublishBegin(s, p, c, b, y)
      PROVE  StorefrontInv' /\ StepKept
    BY <1>1, CreateProductBeginStep, UpdateProductBeginStep, PublishBeginStep
<1>2. CASE CreateProductCommit(s) \/ UpdateProductCommit(s) \/ PublishCommit(s)
    BY <1>2, CreateProductCommitStep, UpdateProductCommitStep, PublishCommitStep
<1>3. ASSUME NEW v \in Variants, NEW t \in {"DRAFT", "SUSPENDED", "ARCHIVED"}, RemoveVariantBegin(s, v, t)
      PROVE  StorefrontInv' /\ StepKept
    BY <1>3, RemoveVariantBeginStep
<1>4. CASE RemoveVariantCommit(s)
    BY <1>4, RemoveVariantCommitStep
<1>5. ASSUME NEW c \in Categories, NEW q \in Categories \cup {None}, NEW t \in MutableStatus \cup {"ARCHIVED"},
             CategoryBegin(s, c, q, t)
      PROVE  StorefrontInv' /\ StepKept
    BY <1>5, CategoryBeginStep
<1>6. CASE CategoryCommit(s)
    BY <1>6, CategoryCommitStep
<1> QED
    BY <1>1, <1>2, <1>3, <1>4, <1>5, <1>6 DEF CatalogStep

LEMMA MediaStepKeeps ==
    ASSUME StorefrontInv, NEW s \in Sessions, MediaStep(s)
    PROVE  StorefrontInv' /\ StepKept
<1>1. ASSUME NEW o \in Owners, NEW i \in Images, NEW y \in BOOLEAN, UploadBegin(s, o, i, y)
      PROVE  StorefrontInv' /\ StepKept
    BY <1>1, UploadBeginStep
<1>2. ASSUME NEW i \in Images, NEW j \in Images, ReplaceBegin(s, i, j)
      PROVE  StorefrontInv' /\ StepKept
    BY <1>2, ReplaceBeginStep
<1>3. CASE UploadCommit(s) \/ ReplaceCommit(s) \/ WriteFails(s)
    BY <1>3, UploadRecordsStep, ReplaceRecordsStep, WriteFailsStep DEF UploadCommit, ReplaceCommit
<1> QED
    BY <1>1, <1>2, <1>3 DEF MediaStep

LEMMA ImportStepKeeps ==
    ASSUME StorefrontInv, NEW s \in Sessions, ImportStep(s)
    PROVE  StorefrontInv' /\ StepKept
<1>1. ASSUME NEW b \in Batches, ApplyBegin(s, b) \/ MediaImportBegin(s, b)
      PROVE  StorefrontInv' /\ StepKept
    BY <1>1, ApplyBeginStep, MediaImportBeginStep
<1>2. ASSUME NEW o \in Owners, SkipImage(s, o) \/ \E i \in Images : DownloadImage(s, o, i)
      PROVE  StorefrontInv' /\ StepKept
    BY <1>2, SkipImageStep, DownloadImageStep
<1>3. CASE ApplyCommit(s) \/ UploadImported(s) \/ UploadRefused(s) \/ MediaImportEnd(s) \/ ImportCrashes(s)
    BY <1>3, ApplyCommitStep, ImportedRecordsStep, UploadRefusedStep, MediaImportEndStep, AbortStep
    DEF UploadImported
<1> QED
    BY <1>1, <1>2, <1>3 DEF ImportStep

LEMMA UnansweredKeeps ==
    ASSUME StorefrontInv, NEW s \in Sessions, CommitUnanswered(s) \/ ImportUnanswered(s)
    PROVE  StorefrontInv' /\ StepKept
<1>1. CASE CommitUnanswered(s)
    <2>1. CleanUp(tx[s].arg.image) /\ tx[s].arg.image \in unsure'
        BY <1>1 DEF CommitUnanswered
    <2> QED
        BY <1>1, <2>1, UploadRecordsStep, ReplaceRecordsStep DEF CommitUnanswered
<1>2. CASE ImportUnanswered(s)
    BY <1>2, ImportedRecordsStep DEF ImportUnanswered
<1> QED
    BY <1>1, <1>2

LEMMA OneStepKeeps ==
    ASSUME StorefrontInv, OneStep
    PROVE  StorefrontInv' /\ StepKept
<1>1. ASSUME NEW p \in Products, ConfirmMediaReview(p) \/ ChangeProductArchive(p)
      PROVE  StorefrontInv' /\ StepKept
    BY <1>1, ConfirmMediaReviewStep, ChangeProductArchiveStep
<1>2. ASSUME NEW v \in Variants, VariantStep(v)
      PROVE  StorefrontInv' /\ StepKept
    <2>1. CASE ChangeVariantArchive(v) \/ StockMoves(v)
        BY <2>1, ChangeVariantArchiveStep, StockMovesStep
    <2>2. ASSUME NEW price \in {0, 1},
                 \/ CreateVariant(v, price) \/ PublishVariant(v, price)
                 \/ \E t \in MutableStatus : UpdateVariant(v, price, t)
          PROVE  StorefrontInv' /\ StepKept
        BY <2>2, CreateVariantStep, PublishVariantStep, UpdateVariantStep
    <2> QED
        BY <1>2, <2>1, <2>2 DEF VariantStep
<1>3. CASE TaxonomyStep
    BY <1>3, UpdateBrandStep, CreateCategoryStep DEF TaxonomyStep
<1>4. ASSUME NEW i \in Images,
             \/ SetPrimary(i) \/ ArrangeImages(i) \/ Remove(i) \/ WorkerDeletes(i)
             \/ \E d \in {"APPROVED", "REJECTED"} : Review(i, d)
      PROVE  StorefrontInv' /\ StepKept
    BY <1>4, SetPrimaryStep, ArrangeImagesStep, RemoveStep, WorkerStep, ReviewStep
<1>5. ASSUME NEW b \in Batches, Rollback(b) \/ \E pl \in Payloads : Preview(b, pl)
      PROVE  StorefrontInv' /\ StepKept
    BY <1>5, RollbackStep, PreviewStep
<1>6. CASE DeliveryChanges \/ LeaseExpires
    BY <1>6, DeliveryChangesStep, WorkerStep
<1> QED
    BY <1>1, <1>2, <1>3, <1>4, <1>5, <1>6 DEF OneStep

LEMMA StorefrontInvNext ==
    ASSUME StorefrontInv, [StorefrontNext]_vars
    PROVE  StorefrontInv' /\ StepKept
<1>1. ASSUME NEW s \in Sessions, CatalogStep(s) \/ MediaStep(s) \/ ImportStep(s) \/ Abort(s)
      PROVE  StorefrontInv' /\ StepKept
    BY <1>1, CatalogStepKeeps, MediaStepKeeps, ImportStepKeeps, AbortStep
<1>2. CASE OneStep
    BY <1>2, OneStepKeeps
<1>3. ASSUME NEW s \in Sessions, CommitUnanswered(s) \/ ImportUnanswered(s)
      PROVE  StorefrontInv' /\ StepKept
    BY <1>3, UnansweredKeeps
<1>4. CASE UNCHANGED vars
    BY <1>4, StutterStep
<1> QED
    BY <1>1, <1>2, <1>3, <1>4 DEF StorefrontNext

\* Nothing is forgotten of the commits that were not answered.
LEMMA UnsureGrows ==
    ASSUME StorefrontInv, [StorefrontNext]_vars
    PROVE  /\ unsure \subseteq unsure'
           /\ unsure \subseteq Images => unsure' \subseteq Images
<1>1. CASE UNCHANGED unsure
    BY <1>1
<1>2. ASSUME NEW s \in Sessions, CommitUnanswered(s)
      PROVE  unsure' = unsure \cup {tx[s].arg.image} /\ tx[s].arg.image \in Images
    <2>1. tx[s].arg.image \in Images
        BY <1>2 DEF CommitUnanswered, UploadRecords, ReplaceRecords, Working, StorefrontInv, RequestOK
    <2> QED
        BY <1>2, <2>1 DEF CommitUnanswered
<1>3. ASSUME NEW s \in Sessions, ImportUnanswered(s)
      PROVE  unsure' = unsure \cup {tx[s].arg.image[2]} /\ tx[s].arg.image[2] \in Images
    <2>1. tx[s].arg.image[2] \in Images
        BY <1>3, ImportRequest DEF ImportUnanswered, ImportedRecords
    <2> QED
        BY <1>3, <2>1 DEF ImportUnanswered
<1> QED
    BY <1>1, <1>2, <1>3 DEF StorefrontNext, vars

\* The rows stay sound, and every request that is under way may rely on what
\* it checked until it commits: the locks and the conditional updates of all
\* the handlers together suffice.
THEOREM RequestsStayValid == StorefrontSpec => []StorefrontInv
<1>1. StorefrontInit => StorefrontInv
    BY StorefrontInvInit
<1>2. StorefrontInv /\ [StorefrontNext]_vars => StorefrontInv'
    BY StorefrontInvNext
<1> QED
    BY <1>1, <1>2, PTL DEF StorefrontSpec

-----------------------------------------------------------------------------
(* The properties *)

LEMMA AtMostOne ==
    ASSUME NEW S, \A i, j \in S : i = j
    PROVE  Cardinality(S) <= 1
<1>1. CASE S = {}
    BY <1>1, FS_EmptySet
<1>2. CASE S # {}
    <2>1. PICK i \in S : S = {i}
        BY <1>2
    <2>2. Cardinality({i}) = 1
        BY FS_Singleton
    <2>3. Cardinality(S) = 1
        BY <2>1, <2>2
    <2> QED
        BY <2>3
<1> QED
    BY <1>1, <1>2

LEMMA InvMediaConsistent ==
    ASSUME StorefrontInv
    PROVE  MediaConsistent
<1>1. ImagesSound(db)
    BY DEF StorefrontInv, Sound
<1>2. ASSUME NEW p \in Products, Unresolved(p)
      PROVE  db.prod[p].review
    <2>1. PICK i \in Images : /\ db.img[i].owner \in {p} \cup VariantsOf(p)
                              /\ db.img[i].status = "PENDING"
        BY <1>2 DEF Unresolved, ImagesUnder, ImagesOf
    <2>2. ProductOfOwner(db.img[i].owner) = p
        BY <2>1, CatalogAssumption DEF ProductOfOwner, VariantsOf
    <2>3. db.prod[ProductOfOwner(db.img[i].owner)].review
        BY <1>1, <2>1 DEF ImagesSound
    <2> QED
        BY <2>2, <2>3
<1>3. ASSUME NEW o \in Owners
      PROVE  LET marked == {i \in ImagesOf(o) : db.img[i].primary} IN
             Cardinality(marked) <= 1 /\ \A i \in marked : db.img[i].status = "APPROVED"
    <2> DEFINE marked == {i \in ImagesOf(o) : db.img[i].primary}
    <2>1. \A i \in marked : i \in Images /\ LiveIn(db, i) /\ db.img[i].primary /\ db.img[i].owner = o
        BY DEF ImagesOf, Live, LiveIn
    <2>2. \A i, j \in marked : i = j
        BY <1>1, <2>1 DEF ImagesSound
    <2>3. \A i \in marked : db.img[i].status = "APPROVED"
        BY <1>1, <2>1 DEF ImagesSound
    <2>4. Cardinality(marked) <= 1
        BY <2>2, AtMostOne
    <2> QED
        BY <2>3, <2>4
<1> QED
    BY <1>2, <1>3 DEF MediaConsistent

LEMMA InvImportedOnce ==
    ASSUME StorefrontInv
    PROVE  ImportedOnce
<1>1. ASSUME NEW o \in Owners
      PROVE  Cardinality(ImportedImages(o)) <= 1
    <2>1. \A i \in ImportedImages(o) : i \in Images /\ CountedIn(db, i) /\ db.img[i].owner = o
        BY DEF ImportedImages, ImagesOf, CountedIn
    <2>2. ImagesSound(db)
        BY DEF StorefrontInv, Sound
    <2>3. \A i, j \in ImportedImages(o) : i = j
        BY <2>1, <2>2 DEF ImagesSound
    <2> QED
        BY <2>3, AtMostOne
<1> QED
    BY <1>1 DEF ImportedOnce

LEMMA InvPublished ==
    ASSUME StorefrontInv
    PROVE  PublishedIsSellable /\ PublishedUnderPublished
<1>1. ShelvesSound(db)
    BY DEF StorefrontInv, Sound
<1>2. ASSUME NEW p \in Products \ db.imported, db.prod[p].status = "PUBLISHED"
      PROVE  /\ \E v \in VariantsOf(p) : publicSellableVariant(v)
             /\ db.cat[db.prod[p].cat].status = "PUBLISHED"
             /\ db.prod[p].brand # None => db.brand[db.prod[p].brand] = "PUBLISHED"
    BY <1>1, <1>2 DEF ShelvesSound, OnShelf, Sellable, publicSellableVariant
<1>3. PublishedIsSellable
    BY <1>2 DEF PublishedIsSellable, PublicProduct
<1>4. PublishedUnderPublished
    BY <1>1, <1>2 DEF PublishedUnderPublished, ShelvesSound
<1> QED
    BY <1>3, <1>4

LEMMA InvNoCategoryCycle ==
    ASSUME StorefrontInv
    PROVE  NoCategoryCycle
BY DEF StorefrontInv, Sound, ShelvesSound, NoCategoryCycle, Ancestors

\* A published product that no import has touched keeps a variant that can be
\* sold, and is shown while it has an approved image.
THEOREM ShelvesNeverEmpty == StorefrontSpec => []PublishedIsSellable
<1>1. StorefrontInv => PublishedIsSellable
    BY InvPublished
<1> QED
    BY <1>1, RequestsStayValid, PTL

\* What is published stays under a published category, of a published brand.
THEOREM NothingPublishedAstray == StorefrontSpec => []PublishedUnderPublished
<1>1. StorefrontInv => PublishedUnderPublished
    BY InvPublished
<1> QED
    BY <1>1, RequestsStayValid, PTL

\* No two requests that move categories under each other both succeed.
THEOREM CategoriesStayForest == StorefrontSpec => []NoCategoryCycle
<1>1. StorefrontInv => NoCategoryCycle
    BY InvNoCategoryCycle
<1> QED
    BY <1>1, RequestsStayValid, PTL

\* A product with an image nobody has reviewed stays flagged, and an owner has
\* at most one primary image, an approved one.
THEOREM MediaStaysConsistent == StorefrontSpec => []MediaConsistent
<1>1. StorefrontInv => MediaConsistent
    BY InvMediaConsistent
<1> QED
    BY <1>1, RequestsStayValid, PTL

\* Neither the cleanup after an error nor a queued deletion removes the objects
\* of a live image, but for one whose own writer was not told that it had
\* committed; a commit that was not answered never costs another image its
\* objects.
THEOREM LiveStaysStored == StorefrontSpec => []LiveIsStored
<1>1. StorefrontInit => LiveIsStored
    BY DEF StorefrontInit, LiveIsStored, Live
<1>2. StorefrontInv /\ LiveIsStored /\ [StorefrontNext]_vars => LiveIsStored'
    <2> SUFFICES ASSUME StorefrontInv, LiveIsStored, [StorefrontNext]_vars, NEW j \in Images,
                        j \notin unsure', Live(j)'
                 PROVE  j \in stored'
        BY DEF LiveIsStored
    <2>1. j \notin stored' => Live(j) /\ j \notin stored
        BY StorefrontInvNext DEF StepKept, LiveKept
    <2>2. j \notin unsure
        BY UnsureGrows
    <2> QED
        BY <2>1, <2>2 DEF LiveIsStored
<1> QED
    BY <1>1, <1>2, RequestsStayValid, PTL DEF StorefrontSpec

\* Two media imports of a batch, the lock of the first one expired, import an
\* owner's image once.
THEOREM ImagesImportedOnce == StorefrontSpec => []ImportedOnce
<1>1. StorefrontInv => ImportedOnce
    BY InvImportedOnce
<1> QED
    BY <1>1, RequestsStayValid, PTL

\* A rollback stays within its batch, and nothing of the batch was changed
\* after it was applied.  What was done to the product before, by hand or by
\* another batch, is not protected.
THEOREM RollbacksStayWithin == StorefrontSpec => RollbackWithinBatch
<1>1. StorefrontInv /\ [StorefrontNext]_vars => RollbackKept
    BY StorefrontInvNext DEF StepKept
<1>2. StorefrontInv /\ [StorefrontNext]_vars =>
        [\A b \in Batches :
           db.batch[b].status = "APPLIED" /\ db'.batch[b].status = "ROLLED_BACK" =>
             /\ db.edited[b] \cap OwnersOf(db.batch[b].payload) = {}
             /\ \A v \in Variants : db'.var[v] # db.var[v] => v \in db.batch[b].created
             /\ \A p \in Products : db'.prod[p] # db.prod[p] => p = db.batch[b].payload.product]_vars
    BY <1>1 DEF RollbackKept
<1> QED
    BY <1>2, RequestsStayValid, PTL DEF StorefrontSpec, RollbackWithinBatch

\* The object store holds images only, and the lock of a media import has a
\* session as its holder or none.
HoldersOK == stored \subseteq Images /\ lease \in Sessions \cup {None}

LEMMA UnansweredHolders ==
    ASSUME HoldersOK, NEW s \in Sessions, CommitUnanswered(s) \/ ImportUnanswered(s)
    PROVE  HoldersOK'
<1>1. UNCHANGED lease
    BY DEF CommitUnanswered, UploadRecords, ReplaceRecords, ImportUnanswered, ImportedRecords
<1>2. stored' \subseteq stored
    BY DEF CommitUnanswered, ImportUnanswered, CleanUp
<1> QED
    BY <1>1, <1>2 DEF HoldersOK

LEMMA CatalogHolders ==
    ASSUME HoldersOK, NEW s \in Sessions, CatalogStep(s)
    PROVE  HoldersOK'
<1>1. UNCHANGED <<stored, lease>>
    BY DEF CatalogStep, CreateProductBegin, UpdateProductBegin, PublishBegin, CreateProductCommit,
       UpdateProductCommit, PublishCommit, RemoveVariantBegin, RemoveVariantCommit, CategoryBegin,
       CategoryCommit
<1> QED
    BY <1>1 DEF HoldersOK

LEMMA MediaHolders ==
    ASSUME HoldersOK, NEW s \in Sessions, MediaStep(s)
    PROVE  HoldersOK'
<1>1. UNCHANGED lease
    BY DEF MediaStep, UploadBegin, UploadCommit, UploadRecords, ReplaceBegin, ReplaceCommit,
       ReplaceRecords, WriteFails
<1>2. stored' \subseteq Images
    BY DEF HoldersOK, MediaStep, UploadBegin, UploadCommit, ReplaceBegin, ReplaceCommit, WriteFails,
       CleanUp
<1> QED
    BY <1>1, <1>2 DEF HoldersOK

LEMMA ImportHolders ==
    ASSUME HoldersOK, NEW s \in Sessions, ImportStep(s)
    PROVE  HoldersOK'
<1>1. lease' \in Sessions \cup {None}
    BY DEF HoldersOK, ImportStep, ApplyBegin, MediaImportBegin, ApplyCommit, SkipImage, DownloadImage,
       UploadImported, ImportedRecords, UploadRefused, MediaImportEnd, ImportCrashes
<1>2. CASE \E o \in Owners, i \in Images : DownloadImage(s, o, i)
    <2>1. PICK i \in Images : stored' = stored \cup {i}
        BY <1>2 DEF DownloadImage
    <2> QED
        BY <1>1, <2>1 DEF HoldersOK
<1>3. CASE \/ \E b \in Batches : ApplyBegin(s, b) \/ MediaImportBegin(s, b)
           \/ \E o \in Owners : SkipImage(s, o)
           \/ ApplyCommit(s) \/ UploadImported(s) \/ UploadRefused(s) \/ MediaImportEnd(s) \/ ImportCrashes(s)
    <2>1. stored' \subseteq stored
        BY <1>3 DEF ApplyBegin, MediaImportBegin, ApplyCommit, SkipImage, UploadImported, UploadRefused,
           CleanUp, MediaImportEnd, ImportCrashes
    <2> QED
        BY <1>1, <2>1 DEF HoldersOK
<1> QED
    BY <1>2, <1>3 DEF ImportStep

LEMMA OneStepHolders ==
    ASSUME HoldersOK, OneStep
    PROVE  HoldersOK'
<1>1. CASE \E v \in Variants : VariantStep(v)
    <2>1. UNCHANGED <<stored, lease>>
        BY <1>1 DEF VariantStep, ChangeVariantArchive, StockMoves, CreateVariant, PublishVariant,
           UpdateVariant
    <2> QED
        BY <2>1 DEF HoldersOK
<1>2. CASE \/ TaxonomyStep \/ DeliveryChanges
           \/ \E p \in Products : ConfirmMediaReview(p) \/ ChangeProductArchive(p)
           \/ \E b \in Batches : Rollback(b) \/ \E pl \in Payloads : Preview(b, pl)
    <2>1. UNCHANGED <<stored, lease>>
        BY <1>2 DEF TaxonomyStep, UpdateBrand, CreateCategory, DeliveryChanges, ConfirmMediaReview,
           ChangeProductArchive, Rollback, Preview
    <2> QED
        BY <2>1 DEF HoldersOK
<1>3. CASE LeaseExpires
    BY <1>3 DEF LeaseExpires, HoldersOK
<1>4. ASSUME NEW i \in Images,
             \/ SetPrimary(i) \/ ArrangeImages(i) \/ Remove(i) \/ WorkerDeletes(i)
             \/ \E d \in {"APPROVED", "REJECTED"} : Review(i, d)
      PROVE  HoldersOK'
    <2>1. CASE \/ SetPrimary(i) \/ ArrangeImages(i)
               \/ \E d \in {"APPROVED", "REJECTED"} : Review(i, d)
        <3>1. stored' = stored
            BY <2>1 DEF SetPrimary, ArrangeImages, Review
        <3>2. lease' = lease
            BY <2>1 DEF SetPrimary, ArrangeImages, OneOwner, Review
        <3> QED
            BY <3>1, <3>2 DEF HoldersOK
    <2>2. CASE Remove(i) \/ WorkerDeletes(i)
        <3>1. stored' \in {stored, stored \ {i}}
            BY <2>2 DEF Remove, WorkerDeletes
        <3>2. lease' = lease
            BY <2>2 DEF Remove, OneOwner, WorkerDeletes
        <3> QED
            BY <3>1, <3>2 DEF HoldersOK
    <2> QED
        BY <1>4, <2>1, <2>2
<1> QED
    BY <1>1, <1>2, <1>3, <1>4 DEF OneStep

\* Every row, the object store and the lock keep their types.
THEOREM StorefrontTypeCorrect == StorefrontSpec => []StorefrontTypeOK
<1>1. StorefrontInit => HoldersOK /\ unsure \subseteq Images
    BY DEF StorefrontInit, HoldersOK
<1>2. HoldersOK /\ [StorefrontNext]_vars => HoldersOK'
    <2> SUFFICES ASSUME HoldersOK, [StorefrontNext]_vars
                 PROVE  HoldersOK'
        OBVIOUS
    <2>1. CASE \E s \in Sessions : CatalogStep(s) \/ MediaStep(s) \/ ImportStep(s)
        BY <2>1, CatalogHolders, MediaHolders, ImportHolders
    <2>2. CASE \E s \in Sessions : Abort(s)
        BY <2>2 DEF HoldersOK, Abort
    <2>3. CASE OneStep
        BY <2>3, OneStepHolders
    <2>4. CASE \E s \in Sessions : CommitUnanswered(s) \/ ImportUnanswered(s)
        BY <2>4, UnansweredHolders
    <2>5. CASE UNCHANGED vars
        BY <2>5 DEF vars, HoldersOK
    <2> QED
        BY <2>1, <2>2, <2>3, <2>4, <2>5 DEF StorefrontNext
<1>3. StorefrontInv /\ unsure \subseteq Images /\ [StorefrontNext]_vars => (unsure \subseteq Images)'
    BY UnsureGrows
<1>4. StorefrontInv /\ HoldersOK /\ unsure \subseteq Images => StorefrontTypeOK
    BY DEF StorefrontInv, Sound, HoldersOK, StorefrontTypeOK
<1> QED
    BY <1>1, <1>2, <1>3, <1>4, RequestsStayValid, PTL DEF StorefrontSpec
=============================================================================
