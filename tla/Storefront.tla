---------------------------- MODULE Storefront ----------------------------
(***************************************************************************)
(* The catalogue as administrators, imports and the worker change it.      *)
(***************************************************************************)
EXTENDS CatalogImport

NoBatch == [status |-> "NONE", payload |-> None, created |-> {}, same |-> {}]

StorefrontInit ==
    \E sc \in Scenarios :
        /\ ops = sc.ops
        /\ db = sc.start
        /\ stored = {i \in Images : sc.start.img[i].status # "NONE"}
        /\ lease = None
        /\ tx = [s \in Sessions |-> None]
    /\ unsure = {}

\* Zones, rates and pickup locations come and go.
DeliveryChanges ==
    /\ "delivery" \in ops
    /\ Free(None, {DeliveryConfig})
    /\ db' = [db EXCEPT !.deliverable = ~ @]
    /\ UNCHANGED <<stored, lease, tx>>

CatalogStep(s) ==
    \/ \E p \in Products, c \in Categories, b \in Brands \cup {None} :
         \/ CreateProductBegin(s, p, c, b)
         \/ \E t \in MutableStatus : UpdateProductBegin(s, p, c, b, t)
         \/ \E y \in BOOLEAN : PublishBegin(s, p, c, b, y)
    \/ CreateProductCommit(s) \/ UpdateProductCommit(s) \/ PublishCommit(s)
    \/ \E v \in Variants, t \in {"DRAFT", "SUSPENDED", "ARCHIVED"} : RemoveVariantBegin(s, v, t)
    \/ RemoveVariantCommit(s)
    \/ \E c \in Categories, parent \in Categories \cup {None}, t \in MutableStatus \cup {"ARCHIVED"} :
         CategoryBegin(s, c, parent, t)
    \/ CategoryCommit(s)

MediaStep(s) ==
    \/ \E o \in Owners, i \in Images, y \in BOOLEAN : UploadBegin(s, o, i, y)
    \/ UploadCommit(s)
    \/ \E i, j \in Images : ReplaceBegin(s, i, j)
    \/ ReplaceCommit(s)
    \/ WriteFails(s)

ImportStep(s) ==
    \/ \E b \in Batches : ApplyBegin(s, b) \/ MediaImportBegin(s, b)
    \/ ApplyCommit(s)
    \/ \E o \in Owners : SkipImage(s, o) \/ \E i \in Images : DownloadImage(s, o, i)
    \/ UploadImported(s) \/ UploadRefused(s) \/ MediaImportEnd(s) \/ ImportCrashes(s)

VariantStep(v) ==
    \/ ChangeVariantArchive(v) \/ StockMoves(v)
    \/ \E price \in {0, 1} :
         \/ CreateVariant(v, price) \/ PublishVariant(v, price)
         \/ \E t \in MutableStatus : UpdateVariant(v, price, t)

TaxonomyStep ==
    \/ \E b \in Brands, t \in MutableStatus \cup {"ARCHIVED"} : UpdateBrand(b, t)
    \/ \E c \in Categories, parent \in Categories \cup {None} : CreateCategory(c, parent)

OneStep ==
    \/ \E p \in Products : ConfirmMediaReview(p) \/ ChangeProductArchive(p)
    \/ \E v \in Variants : VariantStep(v)
    \/ TaxonomyStep
    \/ \E i \in Images :
         \/ SetPrimary(i) \/ ArrangeImages(i) \/ Remove(i) \/ WorkerDeletes(i)
         \/ \E d \in {"APPROVED", "REJECTED"} : Review(i, d)
    \/ \E b \in Batches : Rollback(b) \/ \E pl \in Payloads : Preview(b, pl)
    \/ DeliveryChanges
    \/ LeaseExpires

StorefrontNext ==
    /\ \/ /\ \/ \E s \in Sessions : CatalogStep(s) \/ MediaStep(s) \/ ImportStep(s) \/ Abort(s)
             \/ OneStep
          /\ UNCHANGED unsure
       \/ \E s \in Sessions : CommitUnanswered(s) \/ ImportUnanswered(s)
    /\ UNCHANGED ops

StorefrontSpec == StorefrontInit /\ [][StorefrontNext]_vars

-----------------------------------------------------------------------------
(* Properties *)

\* Every row has its declared type.
StorefrontTypeOK ==
    db \in Rows /\ stored \subseteq Images /\ lease \in Sessions \cup {None} /\ unsure \subseteq Images

\* A published product keeps a variant that can be sold, and is shown while
\* it has an approved image, although its variants are withdrawn by different
\* requests at once; only an import, which overrides status and price without
\* that check, may take the last one
\* (ensurePublishedProductRetainsSellableVariant, lockPublicationOwner,
\* buildPublicProductWhere).
PublishedIsSellable ==
    \A p \in Products \ db.imported : db.prod[p].status = "PUBLISHED" =>
        /\ \E v \in VariantsOf(p) : publicSellableVariant(v)
        /\ Approved(ImagesOf(p)) => PublicProduct(p)

\* A published product is in a published category and of a published brand,
\* unless an import moved it, although the category or brand may be withdrawn
\* while the product is being published (ensureReferences,
\* assertNoPublishedDependents).
PublishedUnderPublished ==
    /\ \A p \in Products \ db.imported : db.prod[p].status = "PUBLISHED" =>
         /\ db.cat[db.prod[p].cat].status = "PUBLISHED"
         /\ db.prod[p].brand # None => db.brand[db.prod[p].brand] = "PUBLISHED"
    /\ \A c \in Categories : db.cat[c].status = "PUBLISHED" /\ db.cat[c].parent # None =>
         db.cat[db.cat[c].parent].status = "PUBLISHED"

\* The categories are a forest: no two requests that move categories under
\* each other both succeed (assertNoParentCycle).
NoCategoryCycle ==
    \A c \in Categories : db.cat[c].parent # None => c \notin Ancestors(db.cat[c].parent)

\* A product with an image nobody has reviewed is flagged for review, so that
\* no publication or confirmation passes over it (uploadImported, review,
\* confirmMediaReview, synchronizeRollbackVersions), and an owner has at most one
\* primary image, an approved one (clearPrimary, bumpOwner).
MediaConsistent ==
    /\ \A p \in Products : Unresolved(p) => db.prod[p].review
    /\ \A o \in Owners :
        LET marked == {i \in ImagesOf(o) : db.img[i].primary} IN
        Cardinality(marked) <= 1 /\ \A i \in marked : db.img[i].status = "APPROVED"

\* The objects of a live image are in storage: no queued deletion removes
\* them, whoever else uses the slot or the owner, and the cleanup after an
\* error removes them only of an image whose own writer saw the error although
\* its transaction had committed.  Those may be lost: the catch blocks ask
\* nobody whether the row exists (cleanupFailedWrite, enqueueObjectDeletion).
LiveIsStored == \A i \in Images \ unsure : Live(i) => i \in stored

\* An image is imported for an owner once, even when the lock of the import
\* expires and a second import starts before the first one stops
\* (acquireLock, importOneImage, uploadImported).
ImportedOnce == \A o \in Owners : Cardinality(ImportedImages(o)) <= 1

\* A rollback stays within its batch: it touches no variant but those the
\* batch created and no product but theirs, and none of these if anybody
\* changed one after the batch was applied, whatever the images of the batch
\* did to their versions (rollback, uploadImported's checkpoints,
\* synchronizeRollbackVersions).  Their product may be older than the batch:
\* applyProductGroup adds to a product it finds, and assertCreateOnlyRollback
\* judges variants only.  Such a product is archived with all that was done to
\* it by hand before, which docs/CATALOG_IMPORT_AND_MEDIA.md:118 excludes.
RollbackWithinBatch ==
    [][\A b \in Batches :
         db.batch[b].status = "APPLIED" /\ db'.batch[b].status = "ROLLED_BACK" =>
           /\ db.edited[b] \cap OwnersOf(db.batch[b].payload) = {}
           /\ \A v \in Variants : db'.var[v] # db.var[v] => v \in db.batch[b].created
           /\ \A p \in Products : db'.prod[p] # db.prod[p] => p = db.batch[b].payload.product]_vars

-----------------------------------------------------------------------------
(* The inductive invariant of the proofs.  Sound describes rows, RequestOK  *)
(* what a request that is under way may rely on until it commits.          *)

\* Images have an owner that exists, one mark as primary per owner, which is
\* approved, and one imported image per owner; a pending one flags its
\* product, and only the objects of deleted ones are queued.
LiveIn(r, i) == r.img[i].status \notin {"NONE", "DELETED"}

CountedIn(r, i) == r.img[i].imported /\ r.img[i].status \in {"APPROVED", "PENDING"}

ImagesSound(r) ==
    /\ \A i \in Images : r.img[i].status = "NONE" => r.img[i] = NoImage
    /\ \A i \in Images : r.img[i].status # "NONE" =>
         /\ r.img[i].owner \in Owners
         /\ r.prod[ProductOfOwner(r.img[i].owner)].status # "NONE"
    /\ \A i \in Images : r.img[i].status = "PENDING" => r.prod[ProductOfOwner(r.img[i].owner)].review
    /\ \A i \in Images : LiveIn(r, i) /\ r.img[i].primary => r.img[i].status = "APPROVED"
    /\ \A i, j \in Images : r.img[i].owner = r.img[j].owner =>
         /\ LiveIn(r, i) /\ r.img[i].primary /\ LiveIn(r, j) /\ r.img[j].primary => i = j
         /\ CountedIn(r, i) /\ CountedIn(r, j) => i = j
    /\ \A i \in r.queued : r.img[i].status = "DELETED"

\* A variant on sale of product p, other than those in W
Sellable(r, p, W) ==
    \E v \in VariantsOf(p) \ W : r.var[v].status = "PUBLISHED" /\ r.var[v].price > 0

OnShelf(r, c, b) ==
    /\ c \in Categories /\ r.cat[c].status = "PUBLISHED"
    /\ b # None => r.brand[b] = "PUBLISHED"

ShelvesSound(r) ==
    /\ \A v \in Variants : r.var[v].status # "NONE" => r.prod[ProductOf[v]].status # "NONE"
    /\ \A p \in Products \ r.imported : r.prod[p].status = "PUBLISHED" =>
         OnShelf(r, r.prod[p].cat, r.prod[p].brand) /\ Sellable(r, p, {})
    /\ \A c \in Categories : r.cat[c].parent # None =>
         /\ r.cat[c].status = "PUBLISHED" => r.cat[r.cat[c].parent].status = "PUBLISHED"
         /\ r.cat[r.cat[c].parent].status # "NONE"
         /\ c \notin AncestorsIn(r.cat, r.cat[c].parent)

\* What still has the version a batch recorded was not edited since.
BatchesSound(r) ==
    \A b \in Batches :
        /\ r.batch[b].same \cap r.edited[b] = {}
        /\ r.batch[b].status # "NONE" => r.batch[b].payload \in Payloads
        /\ r.batch[b].status \in {"APPLIED", "ROLLED_BACK"} =>
             r.prod[r.batch[b].payload.product].status # "NONE"

Sound(r) == r \in Rows /\ ImagesSound(r) /\ ShelvesSound(r) /\ BatchesSound(r)

\* An instance starts from rows that the handlers may have left.
ASSUME StorefrontAssumption == \A sc \in Scenarios : Sound(sc.start)

\* The image whose objects a request has stored and not yet recorded
PendingImage(s) ==
    IF Working(s, "upload") \/ Working(s, "replace") THEN tx[s].arg.image
    ELSE IF Working(s, "mediaImport") /\ tx[s].arg.image # None THEN tx[s].arg.image[2]
    ELSE None

Exists(o) == db.prod[ProductOfOwner(o)].status # "NONE"

References(a) == a.cat \in Categories /\ a.brand \in Brands \cup {None}

RequestOK(t) ==
    /\ t = [op |-> t.op, on |-> t.on, arg |-> t.arg, fresh |-> t.fresh, rd |-> t.rd, wr |-> t.wr]
    /\ t.op = "createProduct" => t.on \in Products /\ References(t.arg)
    /\ t.op = "updateProduct" =>
         /\ t.on \in Products /\ References(t.arg)
         /\ t.arg.status \in MutableStatus \ {"PUBLISHED"}
         /\ Exists(t.on)
    /\ t.op = "publish" =>
         /\ t.on \in Products /\ References(t.arg)
         /\ Exists(t.on)
         /\ {t.arg.cat, t.arg.brand} \cup VariantsOf(t.on) \subseteq t.rd /\ t.on \in t.wr
         /\ OnShelf(db, t.arg.cat, t.arg.brand)
         /\ ~ Unresolved(t.on)
         /\ t.on \notin db.imported => Sellable(db, t.on, {})
    /\ t.op = "removeVariant" =>
         /\ t.on \in Variants /\ t.arg.to \in {"DRAFT", "SUSPENDED", "ARCHIVED"}
         /\ Exists(t.on)
         /\ VariantsOf(ProductOf[t.on]) \subseteq t.rd /\ ProductOf[t.on] \in t.wr
         /\ db.prod[ProductOf[t.on]].status = "PUBLISHED" => Sellable(db, ProductOf[t.on], {t.on})
    /\ t.op = "category" =>
         /\ t.on \in Categories /\ t.arg.parent \in Categories \cup {None}
         /\ t.arg.to \in MutableStatus \cup {"ARCHIVED"}
         /\ {t.on, ProductsIn(t.on), ChildrenOf(t.on)} \subseteq t.rd
         /\ t.arg.to # "PUBLISHED" /\ db.cat[t.on].status = "PUBLISHED" =>
              ~ PublishedProductIn(t.on) /\ ~ PublishedChild(t.on)
         /\ t.arg.parent # None =>
              /\ Ancestors(t.arg.parent) \subseteq t.rd
              /\ t.on \notin Ancestors(t.arg.parent)
              /\ db.cat[t.arg.parent].status # "NONE"
              /\ t.arg.to = "PUBLISHED" => db.cat[t.arg.parent].status = "PUBLISHED"
    /\ t.op = "upload" =>
         /\ t.on \in Owners /\ Exists(t.on)
         /\ t.arg.image \in Images /\ t.arg.primary \in BOOLEAN
    /\ t.op = "replace" =>
         /\ t.on \in Images /\ t.arg.image \in Images /\ t.arg.primary \in BOOLEAN
         /\ db.img[t.on].status # "NONE" /\ db.img[t.on].owner = t.arg.owner
         /\ t.arg.owner \in t.fresh =>
              db.img[t.on].status = "APPROVED" /\ db.img[t.on].primary = t.arg.primary
    /\ t.op = "apply" =>
         t.on \in Batches /\ db.batch[t.on].status # "NONE" /\ t.arg = db.batch[t.on].payload
    /\ t.op = "mediaImport" =>
         /\ t.on \in Batches /\ db.batch[t.on].status \in {"APPLIED", "ROLLED_BACK"}
         /\ t.arg = [left |-> t.arg.left, image |-> t.arg.image, ok |-> t.arg.ok]
         /\ t.arg.left \subseteq OwnersOf(db.batch[t.on].payload)
         /\ t.fresh \cap db.edited[t.on] = {}
         /\ t.arg.image # None =>
              /\ t.arg.image \in OwnersOf(db.batch[t.on].payload) \X Images
              /\ t.arg.image[1] \in t.fresh =>
                   \A i \in Images : ~ (db.img[i].owner = t.arg.image[1] /\ CountedIn(db, i))

\* An image that is not recorded yet has its objects and is one request's.
ObjectsOK ==
    \A s \in Sessions : PendingImage(s) # None =>
        /\ db.img[PendingImage(s)].status = "NONE" /\ PendingImage(s) \in stored
        /\ \A q \in Sessions \ {s} : PendingImage(q) # PendingImage(s)

StorefrontInv ==
    /\ Sound(db)
    /\ tx = [s \in Sessions |-> tx[s]]
    /\ \A s \in Sessions : tx[s] # None => RequestOK(tx[s])
    /\ ObjectsOK
=============================================================================
