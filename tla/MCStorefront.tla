--------------------------- MODULE MCStorefront ---------------------------
(* Instances of Storefront for TLC. *)
EXTENDS Storefront, TLC

CONSTANTS p1, v1, v2, b1, c1, c2, i1, i2, i3, k1, k2, s1, s2

OneProduct == [v \in Variants |-> p1]

Row(status) == [status |-> status, cat |-> c1, brand |-> b1, review |-> FALSE]

Sold == [status |-> "PUBLISHED", price |-> 1, stock |-> TRUE]

NewVariant == [status |-> "NONE", price |-> 0, stock |-> FALSE]

Picture(status, owner) ==
    [status |-> status, owner |-> owner, primary |-> status = "APPROVED", imported |-> FALSE]

\* A file that adds both variants, and an operator's file that overrides one
OfficialFile ==
    [product |-> p1, cat |-> c1, brand |-> b1, rows |-> {v1, v2},
     price |-> None, status |-> None, official |-> TRUE]

OperatorFile ==
    [product |-> p1, cat |-> c2, brand |-> b1, rows |-> {v2},
     price |-> 1, status |-> "SUSPENDED", official |-> FALSE]

OfficialAddition == [OfficialFile EXCEPT !.rows = {v2}]

Files == {OfficialFile, OfficialAddition, OperatorFile, [OperatorFile EXCEPT !.status = "PUBLISHED"]}

Applied(pl) == [status |-> "APPLIED", payload |-> pl, created |-> pl.rows, same |-> OwnersOf(pl)]

\* Published with an approved image and one variant on sale, c2 under c1
Start ==
    [prod |-> [p \in Products |-> Row("PUBLISHED")],
     var |-> [v \in Variants |-> IF v = v1 THEN Sold ELSE NewVariant],
     brand |-> [b \in Brands |-> "PUBLISHED"],
     cat |-> [c \in Categories |-> [status |-> "PUBLISHED",
                                    parent |-> IF c = c2 THEN c1 ELSE None]],
     img |-> [i \in Images |-> IF i = i1 THEN Picture("APPROVED", p1) ELSE NoImage],
     batch |-> [b \in Batches |-> NoBatch],
     queued |-> {}, deliverable |-> TRUE, imported |-> {}, edited |-> [b \in Batches |-> {}]]

Scenario(start, handlers) == [start |-> start, ops |-> handlers]

\* Two variants on sale, withdrawn and put back while the product is
\* published, suspended and archived.
Publication ==
    Scenario([Start EXCEPT !.var[v2] = Sold],
        {"publish", "archive", "variants", "removeVariant", "stock", "delivery"})

\* A product published while its category, its brand or a parent is withdrawn
Shelves ==
    Scenario([Start EXCEPT !.prod[p1].status = "DRAFT"],
        {"publish", "brands", "category"})

\* A product edited by two administrators
Drafting == Scenario(Start, {"publish", "updateProduct", "archive"})

\* A product created while its category is archived
NewProduct ==
    Scenario([Start EXCEPT !.prod[p1].status = "NONE", !.var[v1] = NewVariant, !.img[i1] = NoImage,
                           !.cat[c2] = [status |-> "NONE", parent |-> None]],
        {"createProduct", "category"})

\* Images of a product uploaded, replaced, removed and reviewed
Gallery ==
    Scenario([Start EXCEPT !.img[i2] = Picture("PENDING", p1), !.prod[p1].review = TRUE],
        {"upload", "replace", "media", "review", "publish"})

\* Files that create a product, add to it or overtake an administrator
Imports ==
    Scenario([Start EXCEPT !.prod[p1].status = "NONE", !.var[v1] = NewVariant, !.img[i1] = NoImage],
        {"import", "apply", "variants"})

\* An import into a product that is published already
Additions == Scenario(Start, {"import", "apply", "publish", "removeVariant", "archive"})

\* The images of an applied batch, imported by two sessions
ImportedMedia(pl) ==
    Scenario([Start EXCEPT !.prod[p1] = [Row("DRAFT") EXCEPT !.review = TRUE],
                           !.var = [v \in Variants |-> [Sold EXCEPT !.status = "DRAFT"]],
                           !.img[i1] = [Picture("DELETED", p1) EXCEPT !.imported = TRUE],
                           !.batch[k1] = Applied(pl)],
        {"mediaImport", "media", "review"})

AllScenarios ==
    {Publication, Shelves, Drafting, NewProduct, Gallery, Imports, Additions,
     ImportedMedia(OfficialAddition), ImportedMedia(OperatorFile)}

StorefrontSymmetry == Permutations(Sessions)
=============================================================================
