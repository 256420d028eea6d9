--------------------------- MODULE ProductMedia ---------------------------
(***************************************************************************)
(* The images of products and variants (ProductMediaService).  An upload   *)
(* writes the objects first and the row afterwards; a removal retires the  *)
(* row and queues the deletion of the objects in one transaction, and then *)
(* tries to delete them at once.  Every change bumps the version of the    *)
(* owner, conditional on the version the caller named.                     *)
(***************************************************************************)
EXTENDS Catalog

\* withMediaProcessingSlot: one upload or replacement at a time in a process
SlotFree == \A s \in Sessions : tx[s] # None => tx[s].op \notin {"upload", "replace"}

Unused(i) == db.img[i].status = "NONE" /\ i \notin stored

NoImage == [status |-> "NONE", owner |-> None, primary |-> FALSE, imported |-> FALSE]

clearPrimary(rows, o) ==
    [rows EXCEPT !.img = [i \in Images |->
        IF rows.img[i].owner = o /\ rows.img[i].status # "DELETED"
        THEN [rows.img[i] EXCEPT !.primary = FALSE] ELSE rows.img[i]]]

CreateImage(rows, i, o, status, primary, imported) ==
    [(IF primary THEN clearPrimary(rows, o) ELSE rows) EXCEPT
        !.img[i] = [status |-> status, owner |-> o, primary |-> primary, imported |-> imported]]

Retire(rows, i) == [rows EXCEPT !.img[i].status = "DELETED", !.img[i].primary = FALSE,
                                !.queued = @ \cup {i}]

\* lockOwner and bumpOwner: the owner is unlocked and has the version checked
BumpOwner(s, o) == Free(s, {o}) /\ SameVersion(s, o) /\ Increment(s, {o})

UploadBegin(s, o, i, primary) ==
    /\ SlotFree
    /\ Unused(i)
    /\ IF o \in Products THEN db.prod[o].status # "NONE" ELSE db.var[o].status # "NONE"
    /\ Begin(s, "upload", o, [image |-> i, primary |-> primary], {o}, {}, {})
    /\ stored' = stored \cup {i}
    /\ UNCHANGED <<db, lease>>

\* The first live image of an owner becomes primary.
UploadRecords(s) ==
    LET o == tx[s].on
        a == tx[s].arg
    IN
    /\ Working(s, "upload")
    /\ BumpOwner(s, o)
    /\ db' = Edited(CreateImage(db, a.image, o, "APPROVED",
                                a.primary \/ ImagesOf(o) = {}, FALSE), {o})
    /\ UNCHANGED lease

UploadCommit(s) == UploadRecords(s) /\ UNCHANGED stored

\* deleteStoredObjects and cleanupFailedWrite: the objects go, unless storage
\* fails.
CleanUp(i) == stored' \in {stored, stored \ {i}}

\* The catch blocks, and store's, after a transaction that did not commit.  A
\* crash leaves the objects.
WriteFails(s) ==
    /\ Working(s, "upload") \/ Working(s, "replace")
    /\ Increment(s, {})
    /\ CleanUp(tx[s].arg.image)
    /\ UNCHANGED <<db, lease>>

ReplaceBegin(s, i, j) ==
    /\ SlotFree
    /\ Unused(j)
    /\ db.img[i].status = "APPROVED"
    /\ Begin(s, "replace", i, [image |-> j, owner |-> db.img[i].owner,
                               primary |-> db.img[i].primary], {db.img[i].owner}, {}, {})
    /\ stored' = stored \cup {j}
    /\ UNCHANGED <<db, lease>>

\* Mutant: the objects of the new image are queued for deletion.
ReplacedSwapped(i, a) ==
    [db EXCEPT !.img[i].status = "DELETED", !.img[i].primary = FALSE,
               !.img[a.image] = [status |-> "APPROVED", owner |-> a.owner,
                                 primary |-> a.primary, imported |-> FALSE],
               !.queued = @ \cup {a.image}]

\* The new row takes the place of the old one and its mark as primary.
Replaced(i, a) ==
    LET rows == Retire(db, i) IN
    [rows EXCEPT !.img[a.image] = [status |-> "APPROVED", owner |-> a.owner,
                                   primary |-> a.primary, imported |-> FALSE]]

ReplaceRecords(s) ==
    LET i == tx[s].on
        a == tx[s].arg
    IN
    /\ Working(s, "replace")
    /\ BumpOwner(s, a.owner)
    /\ db' = Edited(Replaced(i, a), {a.owner})
    /\ UNCHANGED lease

\* The queued objects of the old image are also deleted at once, if storage
\* answers.
ReplaceCommit(s) == ReplaceRecords(s) /\ CleanUp(tx[s].on)

\* The same catch blocks run when the transaction committed and only the
\* answer to COMMIT was lost: the objects of the recorded image go.
CommitUnanswered(s) ==
    /\ UploadRecords(s) \/ ReplaceRecords(s)
    /\ CleanUp(tx[s].arg.image)
    /\ unsure' = unsure \cup {tx[s].arg.image}

\* An image row changes only together with its owner's version, so a handler
\* that needs nothing but rows of one owner is one step.
OneOwner(i) ==
    /\ "media" \in ops
    /\ Live(i)
    /\ Free(None, {db.img[i].owner})
    /\ Increment(None, {db.img[i].owner})
    /\ UNCHANGED lease

SetPrimary(i) ==
    /\ OneOwner(i)
    /\ db.img[i].status = "APPROVED"
    /\ db' = Edited([clearPrimary(db, db.img[i].owner) EXCEPT !.img[i].primary = TRUE],
                    {db.img[i].owner})
    /\ UNCHANGED stored

\* reorder and updateMetadata: order and texts are not modelled, the new
\* version is.
ArrangeImages(i) ==
    /\ OneOwner(i)
    /\ db' = Edited(db, {db.img[i].owner})
    /\ UNCHANGED stored

\* A removed primary image hands the mark to an approved one, if any.
Remove(i) ==
    LET o    == db.img[i].owner
        next == {j \in ImagesOf(o) \ {i} : db.img[j].status = "APPROVED"}
    IN
    /\ OneOwner(i)
    /\ IF db.img[i].primary /\ next # {}
       THEN \E j \in next : db' = Edited([Retire(db, i) EXCEPT !.img[j].primary = TRUE], {o})
       ELSE db' = Edited(Retire(db, i), {o})
    /\ stored' \in {stored, stored \ {i}}

\* review: SERIALIZABLE, the product locked before the owner.  The product
\* is flagged for a confirmation of its own.
Review(i, decision) ==
    LET o == db.img[i].owner
        p == ProductOfOwner(o)
        hasPrimary == \E j \in ImagesOf(o) \ {i} :
                         db.img[j].primary /\ db.img[j].status = "APPROVED"
    IN
    /\ "media" \in ops
    /\ db.img[i].status = "PENDING"
    /\ Free(None, {o, p})
    /\ db' = Edited([(IF decision = "APPROVED" /\ ~ hasPrimary THEN clearPrimary(db, o) ELSE db)
                       EXCEPT !.img[i].status = decision,
                              !.img[i].primary = decision = "APPROVED" /\ ~ hasPrimary,
                              !.prod[p].review = TRUE], {o, p})
    /\ Increment(None, {o, p})
    /\ UNCHANGED <<stored, lease>>

\* The worker deletes the objects of a queued event; see OutboxProcessor.
WorkerDeletes(i) ==
    /\ i \in db.queued \cap stored
    /\ stored' = stored \ {i}
    /\ UNCHANGED <<db, lease, tx>>
=============================================================================
