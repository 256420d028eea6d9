--------------------------- MODULE CatalogImport ---------------------------
(***************************************************************************)
(* Catalogue files: preview, apply and rollback (CatalogImportService) and *)
(* the import of their images (CatalogMediaImportService).                 *)
(***************************************************************************)
EXTENDS ProductMedia

OwnersOf(pl) == {pl.product} \cup pl.rows

\* preview stores the payload once under its importKey.
Preview(b, pl) ==
    /\ "import" \in ops
    /\ db.batch[b].status = "NONE"
    /\ db' = [db EXCEPT !.batch[b] = [status |-> "PREVIEW_VALID", payload |-> pl,
                                      created |-> {}, same |-> {}]]
    /\ UNCHANGED <<stored, lease, tx>>

\* apply looks for an applied batch of the key before its transaction ...
ApplyBegin(s, b) ==
    /\ db.batch[b].status = "PREVIEW_VALID"
    /\ Begin(s, "apply", b, db.batch[b].payload, {}, {}, {})
    /\ UNCHANGED <<db, stored, lease>>

\* applyProductGroup: a known product keeps its status and flags
AppliedProduct(pl) ==
    IF db.prod[pl.product].status = "NONE"
    THEN [status |-> "DRAFT", cat |-> pl.cat, brand |-> pl.brand, review |-> TRUE]
    ELSE [db.prod[pl.product] EXCEPT !.cat = pl.cat, !.brand = pl.brand]

AppliedVariant(pl, v) ==
    LET row == db.var[v] IN
    IF v \notin pl.rows THEN row
    ELSE IF row.status = "NONE"
    THEN [status |-> IF pl.status = None THEN "DRAFT" ELSE pl.status,
          price |-> IF pl.price = None THEN 0 ELSE pl.price, stock |-> FALSE]
    ELSE [row EXCEPT !.price = IF pl.price = None THEN @ ELSE pl.price,
                     !.status = IF pl.status = None \/ @ = "ARCHIVED" THEN @ ELSE pl.status]

\* ... and importKey with dryRun is unique: of two, one is answered with the
\* other's batch.  An import never publishes.
ApplyCommit(s) ==
    LET b  == tx[s].on
        pl == tx[s].arg
        O  == OwnersOf(pl)
        created == {v \in pl.rows : db.var[v].status = "NONE"}
        rows == Edited(db, O)
    IN
    /\ Working(s, "apply")
    /\ db.batch[b].status = "PREVIEW_VALID"
    /\ pl.status # "PUBLISHED"
    /\ Free(s, pl.rows \cup ProductWrite(pl.product, pl.cat, pl.brand))
    /\ db' = [rows EXCEPT
                !.prod[pl.product] = AppliedProduct(pl),
                !.var = [v \in Variants |-> AppliedVariant(pl, v)],
                !.batch[b] = [status |-> "APPLIED", payload |-> db.batch[b].payload,
                              created |-> created, same |-> O],
                !.edited[b] = {},
                !.imported = IF db.prod[pl.product].status = "NONE" THEN @ ELSE @ \cup {pl.product}]
    /\ Increment(s, O)
    /\ UNCHANGED <<stored, lease>>

assertCreateOnlyRollback(b) ==
    db.batch[b].created = db.batch[b].payload.rows

\* Mutant: rows are archived although their versions moved on.
RollbackUnversioned(b) ==
    LET pl == db.batch[b].payload IN
    /\ "import" \in ops
    /\ db.batch[b].status = "APPLIED"
    /\ assertCreateOnlyRollback(b)
    /\ db' = [Edited(db, OwnersOf(pl)) EXCEPT
                !.batch[b].status = "ROLLED_BACK",
                !.prod[pl.product].status = "ARCHIVED",
                !.var = [v \in Variants |-> IF v \in pl.rows
                           THEN [db.var[v] EXCEPT !.status = "ARCHIVED"] ELSE db.var[v]]]
    /\ Increment(None, OwnersOf(pl))
    /\ UNCHANGED <<stored, lease>>

\* rollback: every row is updated on the condition of its post version, and
\* not archived already.
Rollback(b) ==
    LET pl == db.batch[b].payload IN
    /\ "import" \in ops
    /\ db.batch[b].status = "APPLIED"
    /\ assertCreateOnlyRollback(b)
    /\ OwnersOf(pl) \subseteq db.batch[b].same
    /\ db.prod[pl.product].status # "ARCHIVED"
    /\ \A v \in pl.rows : db.var[v].status # "ARCHIVED"
    /\ Free(None, pl.rows \cup ProductWrite(pl.product, db.prod[pl.product].cat, None))
    /\ db' = [Edited(db, OwnersOf(pl)) EXCEPT
                !.batch[b].status = "ROLLED_BACK",
                !.prod[pl.product].status = "ARCHIVED",
                !.var = [v \in Variants |-> IF v \in pl.rows
                           THEN [db.var[v] EXCEPT !.status = "ARCHIVED"] ELSE db.var[v]]]
    /\ Increment(None, OwnersOf(pl))
    /\ UNCHANGED <<stored, lease>>

-----------------------------------------------------------------------------
(* Media import.  arg.left are the owners whose image is still to come,     *)
(* fresh the owners whose version still is the one expected, and arg.image  *)
(* an image downloaded and stored but not yet recorded.                     *)

\* acquireLock and rollbackBaseline.  The batch lock and the global one are
\* taken, renewed and lost together, so they are one lease.
MediaImportBegin(s, b) ==
    LET O == OwnersOf(db.batch[b].payload) IN
    /\ lease = None
    /\ db.batch[b].status = "APPLIED"
    /\ O \subseteq db.batch[b].same
    /\ \A o \in O : (IF o \in Products THEN db.prod[o].status ELSE db.var[o].status) # "ARCHIVED"
    /\ Begin(s, "mediaImport", b, [left |-> O, image |-> None, ok |-> TRUE], O, {}, {})
    /\ lease' = s
    /\ UNCHANGED <<db, stored>>

\* The import pauses for longer than the locks live.
LeaseExpires ==
    /\ lease # None
    /\ lease' = None
    /\ UNCHANGED <<db, stored, tx>>

\* lockGuard throws and the import stops; its lock is left to its new holder.
lockGuard(s) == lease = s

\* activeImportedImage
ImportedImages(o) ==
    {i \in ImagesOf(o) : db.img[i].imported /\ db.img[i].status \in {"APPROVED", "PENDING"}}

\* importOneImage up to the upload.  Without overrideImages an owner keeps the
\* images it has; only an imported one that was rejected does not count.
DownloadImage(s, o, i) ==
    /\ Working(s, "mediaImport")
    /\ lockGuard(s)
    /\ tx[s].arg.image = None /\ o \in tx[s].arg.left
    /\ Cardinality(ImagesOf(o)) <= 1
    /\ \A j \in ImagesOf(o) : db.img[j].imported /\ db.img[j].status = "REJECTED"
    /\ Unused(i)
    /\ stored' = stored \cup {i}
    /\ tx' = [tx EXCEPT ![s].arg = [left |-> tx[s].arg.left \ {o}, image |-> <<o, i>>,
                                    ok |-> tx[s].arg.ok]]
    /\ UNCHANGED <<db, lease>>

\* No image is named, it was imported before, a manual one is preserved or
\* the download failed; the last two, and a product without one, are reported.
SkipImage(s, o) ==
    /\ Working(s, "mediaImport")
    /\ lockGuard(s)
    /\ tx[s].arg.image = None /\ o \in tx[s].arg.left
    /\ \E clean \in BOOLEAN :
         /\ clean => o \in Variants \/ ImportedImages(o) # {}
         /\ tx' = [tx EXCEPT ![s].arg = [left |-> tx[s].arg.left \ {o}, image |-> None,
                                         ok |-> tx[s].arg.ok /\ clean]]
    /\ UNCHANGED <<db, stored, lease>>

\* Mutant: an image is recorded although its owner changed meanwhile.
UploadImportedUnversioned(s) ==
    LET o == tx[s].arg.image[1]
        i == tx[s].arg.image[2]
    IN
    /\ Working(s, "mediaImport")
    /\ tx[s].arg.image # None
    /\ db' = CreateImage(db, i, o, "APPROVED", TRUE, TRUE)
    /\ tx' = [tx EXCEPT ![s].arg.image = None]
    /\ UNCHANGED <<stored, lease>>

\* uploadImported: product and owner locked at the versions expected, an
\* operator's image is pending and flags the product, and the rows of the
\* batch take the new versions as their post versions.  An import that is not
\* told goes on with the versions it had.
ImportedRecords(s, told) ==
    LET b == tx[s].on
        o == tx[s].arg.image[1]
        i == tx[s].arg.image[2]
        p == ProductOfOwner(o)
        official == db.batch[b].payload.official
        bumped == {o} \cup (IF official THEN {} ELSE {p})
        rows == CreateImage(db, i, o, IF official THEN "APPROVED" ELSE "PENDING", official, TRUE)
    IN
    /\ Working(s, "mediaImport")
    /\ tx[s].arg.image # None
    /\ {o, p} \subseteq tx[s].fresh
    /\ Free(s, {o, p})
    /\ db' = [rows EXCEPT
                !.prod[p].review = @ \/ ~ official,
                !.batch = [x \in Batches |-> Outdated(db.batch[x], IF x = b THEN {} ELSE bumped)]]
    /\ tx' = [q \in Sessions |->
                IF tx[q] = None THEN None
                ELSE IF q = s
                THEN [tx[q] EXCEPT !.arg = [left |-> @.left, image |-> None, ok |-> @.ok /\ told],
                                   !.fresh = @ \ (IF told THEN {} ELSE bumped)]
                ELSE [tx[q] EXCEPT !.fresh = @ \ bumped]]
    /\ UNCHANGED lease

UploadImported(s) == ImportedRecords(s, TRUE) /\ UNCHANGED stored

\* The answer to COMMIT is lost, and the objects are removed again.
ImportUnanswered(s) ==
    /\ ImportedRecords(s, FALSE)
    /\ CleanUp(tx[s].arg.image[2])
    /\ unsure' = unsure \cup {tx[s].arg.image[2]}

\* ... or the upload is refused or fails, and its objects are removed again.
UploadRefused(s) ==
    /\ Working(s, "mediaImport")
    /\ tx[s].arg.image # None
    /\ CleanUp(tx[s].arg.image[2])
    /\ tx' = [tx EXCEPT ![s].arg = [left |-> tx[s].arg.left, image |-> None, ok |-> FALSE]]
    /\ UNCHANGED <<db, lease>>

\* synchronizeRollbackVersions: under SERIALIZABLE, and only if no owner
\* changed but by this import.  The official images may close the review.
MediaImportEnd(s) ==
    LET b  == tx[s].on
        pl == db.batch[b].payload
        clear == pl.official /\ tx[s].arg.ok /\ ~ Unresolved(pl.product)
                   /\ Approved(ImportedImages(pl.product))
        same == OwnersOf(pl) \subseteq tx[s].fresh
        bumped == IF same /\ clear /\ db.prod[pl.product].review THEN {pl.product} ELSE {}
    IN
    /\ Working(s, "mediaImport")
    /\ lockGuard(s)
    /\ tx[s].arg.left = {} /\ tx[s].arg.image = None
    /\ Free(s, bumped)
    /\ db' = IF ~ same THEN db
             ELSE [db EXCEPT
                    !.prod[pl.product].review = @ /\ ~ clear,
                    !.batch = [x \in Batches |->
                                 IF x = b THEN [db.batch[b] EXCEPT !.same = OwnersOf(pl)]
                                 ELSE Outdated(db.batch[x], bumped)]]
    /\ Increment(s, bumped)
    /\ lease' = None
    /\ UNCHANGED stored

\* The process dies: nothing is released.
ImportCrashes(s) ==
    /\ Working(s, "mediaImport")
    /\ tx' = [tx EXCEPT ![s] = None]
    /\ UNCHANGED <<db, stored, lease>>
=============================================================================
