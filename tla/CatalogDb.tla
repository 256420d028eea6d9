----------------------------- MODULE CatalogDb -----------------------------
(***************************************************************************)
(* The rows of the catalogue (products, variants, brands, categories,      *)
(* images, import batches), the object storage of its images, and the      *)
(* transactions on them.                                                   *)
(*                                                                         *)
(* Publication, taxonomy and media review run under SERIALIZABLE, where    *)
(* every read locks what it read; the other handlers check outside their   *)
(* transaction and make one update that is conditional on the version they *)
(* checked.  A handler whose checks another session could overtake has two *)
(* steps: XBegin makes the checks and takes their locks, XCommit writes.   *)
(***************************************************************************)
EXTENDS Integers, FiniteSets

CONSTANTS
    None,           \* a NULL reference, an idle session
    Sessions,       \* requests of administrators under way
    Products, Variants, Brands, Categories, Images, Batches,
    ProductOf,      \* the product each variant belongs to
    Payloads,       \* what a catalogue file may say, see PayloadRow
    Scenarios       \* [ops, start]: the handlers an instance exercises and the
                    \* rows it starts with

ASSUME CatalogAssumption ==
    /\ ProductOf \in [Variants -> Products]
    /\ Products \cap Variants = {}
    /\ None \notin Sessions \cup Products \cup Variants \cup Brands \cup Categories \cup Images \cup Batches

VARIABLES
    db,         \* the committed rows
    stored,     \* images whose objects are in object storage
    lease,      \* session that holds the Redis locks of a media import
    tx,         \* what each session checked, or None
    unsure,     \* history: images recorded although their writer saw an error
    ops         \* the handlers this instance exercises, never changed

vars == <<db, stored, lease, tx, unsure, ops>>

\* "NONE" is no row.  archivedAt is set exactly in the status ARCHIVED.
PublicationStatus == {"NONE", "DRAFT", "PUBLISHED", "SUSPENDED", "ARCHIVED"}

\* The status an administrator may ask for
MutableStatus == {"DRAFT", "PUBLISHED", "SUSPENDED"}

Owners == Products \cup Variants

ProductOfOwner(o) == IF o \in Variants THEN ProductOf[o] ELSE o

VariantsOf(p) == {v \in Variants : ProductOf[v] = p}

\* review is needsMediaReview.  requiresPricing and requiresStock only repeat
\* what publication demands of every variant anyway, and basePriceMillimes
\* never replaces a variant's price, so they are left out.
ProductRow ==
    [status: PublicationStatus, cat: Categories \cup {None}, brand: Brands \cup {None},
     review: BOOLEAN]

\* An archived variant is a DRAFT with archivedAt set.  price is 0 or positive.
VariantRow == [status: PublicationStatus, price: {0, 1}, stock: BOOLEAN]

CategoryRow == [status: PublicationStatus, parent: Categories \cup {None}]

\* imported: a CatalogSourceRecord names the image
ImageRow ==
    [status: {"NONE", "PENDING", "APPROVED", "REJECTED", "DELETED"},
     owner: Owners \cup {None}, primary: BOOLEAN, imported: BOOLEAN]

\* One product group: its category and brand, its variants, and the price and
\* status the file overrides (None: it does not).  official is the source
\* WOTOFO_OFFICIAL, otherwise ADMIN_UPLOAD.
PayloadRow ==
    [product: Products, cat: Categories, brand: Brands, rows: SUBSET Variants,
     price: {0, 1, None}, status: MutableStatus \cup {None}, official: BOOLEAN]

\* applyProductGroup refuses a SKU that belongs to another product.
ASSUME PayloadAssumption ==
    \A pl \in Payloads : pl \in PayloadRow /\ pl.rows \subseteq VariantsOf(pl.product)

\* The preview and the applied CatalogImportBatch of one importKey.  created
\* are the rows with status CREATED, and same the products and variants whose
\* version still is the post version of their row.
BatchRow ==
    [status: {"NONE", "PREVIEW_VALID", "APPLIED", "ROLLED_BACK"},
     payload: Payloads \cup {None}, created: SUBSET Variants, same: SUBSET Owners]

\* deliverable: the checkout policy sees a delivery method.  The two history
\* fields are not columns: imported are the products an import changed after
\* they existed, edited the owners administrators changed since each import.
Rows ==
    [prod: [Products -> ProductRow], var: [Variants -> VariantRow],
     brand: [Brands -> PublicationStatus], cat: [Categories -> CategoryRow],
     img: [Images -> ImageRow], batch: [Batches -> BatchRow],
     queued: SUBSET Images, deliverable: BOOLEAN,
     imported: SUBSET Products, edited: [Batches -> SUBSET Owners]]

-----------------------------------------------------------------------------
(* Transactions *)

Idle(s) == tx[s] = None

Working(s, op) == tx[s] # None /\ tx[s].op = op

Others(s) == {q \in Sessions \ {s} : tx[q] # None}

\* Locks: a row is locked by its name, the rows a category or brand x has by
\* the pair of what they are and x.
ProductsIn(x) == <<"products", x>>
ChildrenOf(c) == <<"children", c>>
DeliveryConfig == <<"delivery", None>>

\* The rows in X may be locked exclusively, or written, by session s ...
Free(s, X) == \A q \in Others(s) : (tx[q].rd \cup tx[q].wr) \cap X = {}

\* ... and the rows in S may be read under SERIALIZABLE.
Readable(s, S) == \A q \in Others(s) : tx[q].wr \cap S = {}

Begin(s, op, on, arg, fresh, rd, wr) ==
    /\ op \in ops
    /\ Idle(s)
    /\ Readable(s, rd)
    /\ Free(s, wr)
    /\ tx' = [tx EXCEPT ![s] =
                [op |-> op, on |-> on, arg |-> arg, fresh |-> fresh, rd |-> rd, wr |-> wr]]

\* version: { increment: 1 } on the owners in O; session s, if any, ends.
Increment(s, O) ==
    tx' = [q \in Sessions |->
             IF q = s \/ tx[q] = None THEN None ELSE [tx[q] EXCEPT !.fresh = @ \ O]]

\* where version = the version checked
SameVersion(s, o) == o \in tx[s].fresh

\* The owners in O no longer have the versions that a batch recorded.
Outdated(batch, O) == [batch EXCEPT !.same = @ \ O]

\* An administrator's change of the owners in O, as the import batches see it
Edited(rows, O) ==
    [rows EXCEPT !.batch = [b \in Batches |-> Outdated(rows.batch[b], O)],
                 !.edited = [b \in Batches |->
                               rows.edited[b] \cup (IF rows.batch[b].status = "APPLIED" THEN O ELSE {})]]

\* An exception, a deadlock, a lost lock or a crash rolls a transaction back.
Abort(s) ==
    /\ ~ Idle(s)
    /\ tx' = [tx EXCEPT ![s] = None]
    /\ lease' = IF Working(s, "mediaImport") /\ lease = s THEN None ELSE lease
    /\ UNCHANGED <<db, stored>>
=============================================================================
