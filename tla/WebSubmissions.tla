--------------------------- MODULE WebSubmissions --------------------------
(* The pages that ask the server for something new: an order, a receipt, a   *)
(* transfer, a collection, a record. An answer may be lost, so that the user *)
(* asks again; an idempotency key or a unique code tells the server so.      *)
EXTENDS WebClient

CONSTANTS
    MaxKeys,      \* bound on keys drawn
    MaxIntents    \* bound on things the user comes to want

VARIABLES
    draft,     \* what the page's form says, or None
    intent,    \* which wish of the user the draft stands for
    holder,    \* the key the page keeps and what it was drawn for, or None
    nextKey,   \* the next key drawn at random
    effects    \* what the server did, and for which request

submissionVars == <<draft, intent, holder, nextKey, effects>>

\* How a page names its request. names: by a key drawn for the whole payload
\* ("payload"), for the record it is about ("subject"), by a code the user
\* typed ("code"), by the one record that it decides ("record"), or not at all
\* ("none"). drafts: what its form may hold. expects: it says which version of
\* the shown record it means. spends: what it asks for can be had once from
\* that record, a cart or a collection. resets: a success empties the form.
Naming(names, drafts) ==
    [names |-> names, drafts |-> drafts,
     expects |-> FALSE, spends |-> FALSE, resets |-> FALSE]

Resetting(names, drafts) == [Naming(names, drafts) EXCEPT !.resets = TRUE]

-----------------------------------------------------------------------------
(* Requests with an idempotency key *)

\* An order names the items of the cart shown; the page is left afterwards.
CheckoutDraft == Entries
CheckoutPage ==
    [Resetting("payload", CheckoutDraft) EXCEPT !.expects = TRUE, !.spends = TRUE]

ReceiptDraft == Entries
ReceiptForm == Naming("payload", ReceiptDraft)

\* A transfer's payload holds the version of its source.
TransferDraft == Entries
TransferForm == [Naming("payload", TransferDraft) EXCEPT !.expects = TRUE]

CollectionDraft == Entries
CollectionForm ==
    [Naming("subject", CollectionDraft) EXCEPT !.expects = TRUE, !.spends = TRUE]

-----------------------------------------------------------------------------
(* Records with a code of their own *)

ZoneDraft == Entries
ZoneCreation == Resetting("code", ZoneDraft)

PickupDraft == Entries
PickupCreation == Resetting("code", PickupDraft)

CourierDraft == Entries
CourierCreation == Resetting("code", CourierDraft)

AdministratorDraft == Entries
AdministratorCreation == Resetting("code", AdministratorDraft)

ProductCreation == Resetting("code", Entries)

\* The page publishes what it created with a second request, by the version
\* the first one answered. When that fails the page has an error although the
\* record exists, as when the answer to the first is lost.
TaxonomyDraft == Entries
TaxonomyCreation == Naming("code", TaxonomyDraft)

VariantDraft == Entries
VariantCreation == Naming("code", VariantDraft)

LocationDraft == Entries
LocationCreation == Naming("code", LocationDraft)

\* The bucket of a variant is named by the location picked for it.
BucketDraft == Values
BucketCreation == Naming("code", BucketDraft)

RemittanceDraft == Entries
RemittanceCreation == Naming("code", RemittanceDraft)

\* An account is named by its e-mail address.
RegisterPage == Resetting("code", Entries)

\* A file that is empty, too large or of another format is not sent.
ImportDraft == Entries
ImportPreview == Naming("code", ImportDraft)

-----------------------------------------------------------------------------
(* Records decided once: the server refuses to decide them again *)

DecisionDraft == Values
AdjustmentDecision == Naming("record", DecisionDraft)

ResolutionDraft == Values
DiscrepancyResolution == Naming("record", ResolutionDraft)

RemittanceReconciliation == Naming("record", Entries)

ConfirmationDraft == Values
ImportConfirmation == Naming("record", ConfirmationDraft)

\* A manifest takes the selected deliveries, each of which goes into one.
ManifestDraft == Entries
ManifestCreation == Resetting("record", ManifestDraft)

\* A reset token, the proof of a Google identity and the challenge of a sign-in
\* are used up by the first form that succeeds with them.
PasswordResetCompletion == Resetting("record", Entries)
GoogleCreateOnboardingForm == Resetting("record", Entries)
GoogleLinkOnboardingForm == Resetting("record", Entries)
TotpForm == Resetting("record", Entries)

-----------------------------------------------------------------------------
(* Requests without a name *)

RateDraft == Entries
RateCreation == Resetting("none", RateDraft)

OrderNoteDraft == Entries
OrderNote == Naming("none", OrderNoteDraft)

\* An attempt to reach the customer is a note too: it leaves the version of the
\* order it names as it was.
OrderContact == Naming("none", Values)

CustomerNote == Resetting("none", Entries)

\* Every sign-in and every reset asked for is one more.
CustomerLoginPage == Resetting("none", Entries)
PasswordForm == Resetting("none", Entries)
PasswordResetRequest == Resetting("none", Entries)
CustomerPasswordReset == Naming("none", Values)

\* The quantity is stepped between one and what is available.
AddToCartDraft == Values
AddToCart == Naming("none", AddToCartDraft)

Submissions == [
    checkout |-> CheckoutPage, receipt |-> ReceiptForm, transfer |-> TransferForm,
    collection |-> CollectionForm, newZone |-> ZoneCreation,
    newPickup |-> PickupCreation, newCourier |-> CourierCreation,
    newAdministrator |-> AdministratorCreation, newProduct |-> ProductCreation,
    newTaxonomy |-> TaxonomyCreation, newVariant |-> VariantCreation,
    newLocation |-> LocationCreation, newBucket |-> BucketCreation,
    newRemittance |-> RemittanceCreation, importPreview |-> ImportPreview,
    decision |-> AdjustmentDecision, resolution |-> DiscrepancyResolution,
    reconciliation |-> RemittanceReconciliation,
    importDecision |-> ImportConfirmation,
    newManifest |-> ManifestCreation, registration |-> RegisterPage,
    reset |-> PasswordResetCompletion, googleAccount |-> GoogleCreateOnboardingForm,
    googleLink |-> GoogleLinkOnboardingForm, totp |-> TotpForm,
    login |-> CustomerLoginPage, password |-> PasswordForm,
    resetRequest |-> PasswordResetRequest, resetOrder |-> CustomerPasswordReset,
    newRate |-> RateCreation, orderNote |-> OrderNote, contact |-> OrderContact,
    customerNote |-> CustomerNote, addToCart |-> AddToCart]

SubmissionPages ==
    {[name |-> n, kind |-> "submission", ways |-> Submissions[n]] :
        n \in DOMAIN Submissions}
Submission == page.ways
Submitting == page.kind = "submission"

\* The keys a page keeps: for its record, or for what is sent about it
SubjectKeys == [signature: DOMAIN Submissions, key: Nat]
PayloadKeys == [signature: Entries \X (Nat \cup {None}), key: Nat]
Holders == IF Submission.names = "subject" THEN SubjectKeys ELSE PayloadKeys

ASSUME HolderAssumption == None \notin SubjectKeys \cup PayloadKeys

SubmissionInit ==
    /\ draft = None /\ intent = 1 /\ holder = None /\ nextKey = 1
    /\ effects = {}

-----------------------------------------------------------------------------
(* The user *)

\* Other words are another wish.
Write ==
    /\ Submitting /\ Idle
    /\ \E entry \in Submission.drafts \ {draft} : draft' = entry
    /\ intent' = IF draft = None THEN intent ELSE intent + 1
    /\ intent < MaxIntents
    /\ UNCHANGED <<clientVars, holder, nextKey, effects>>

\* Leaving or reloading the page forgets the form and the key.
Leave ==
    /\ Submitting /\ Idle
    /\ intent < MaxIntents /\ draft # None
    /\ draft' = None /\ holder' = None
    /\ intent' = intent + 1
    /\ UNCHANGED <<clientVars, nextKey, effects>>

\* The shown record of a page that expects one arrives anew.
ShownArrives ==
    /\ Submitting /\ Submission.expects
    /\ FetchArrives
    /\ UNCHANGED submissionVars

\* Someone else works with the same stock or delivery.
OthersWork ==
    /\ Submitting /\ Submission.expects /\ page.name # "checkout"
    /\ row.version < MaxVersion
    /\ row' = [row EXCEPT !.version = @ + 1]
    /\ UNCHANGED <<page, cache, fetch, call, late, losses, submissionVars>>

\* The customer fills the cart, in this window or another: a new wish.
FillCart ==
    /\ page.name = "checkout"
    /\ row.version < MaxVersion /\ intent < MaxIntents
    /\ row' = [row EXCEPT !.version = @ + 1, !.field["choice"] = 0]
    /\ intent' = intent + 1
    /\ UNCHANGED <<page, cache, fetch, call, late, losses, draft, holder, nextKey,
                   effects>>

-----------------------------------------------------------------------------
(* Asking *)

\* A cart or a collection that has given what it had.
Spent(record) == Submission.spends /\ record.field["choice"] = 1

Expected == IF Submission.expects THEN cache.version ELSE None

\* What the page draws its key for.
Signature ==
    IF Submission.names = "subject" THEN page.name ELSE <<draft, Expected>>

\* Mutant: a key of its own for every request.
DrawnKey == [key |-> nextKey, drawn |-> TRUE]

KeptKey ==
    IF holder # None /\ holder.signature = Signature
    THEN [key |-> holder.key, drawn |-> FALSE]
    ELSE [key |-> nextKey, drawn |-> TRUE]

Ask ==
    /\ Submitting
    /\ draft # None /\ draft # Unreadable
    /\ Submission.expects => cache # None /\ ~Spent(cache)
    /\ LET named == Submission.names
           k == CASE named \in {"payload", "subject"} -> KeptKey
                  [] named = "code"   -> [key |-> draft, drawn |-> FALSE]
                  [] named = "record" -> [key |-> 1, drawn |-> FALSE]
                  [] named = "none"   -> [key |-> nextKey, drawn |-> TRUE]
       IN  /\ k.drawn => nextKey <= MaxKeys
           /\ nextKey' = IF k.drawn THEN nextKey + 1 ELSE nextKey
           /\ holder' = IF named \in {"payload", "subject"}
                        THEN [signature |-> Signature, key |-> k.key] ELSE holder
           /\ httpRequest([key |-> k.key, payload |-> draft, expected |-> Expected,
                           intent |-> intent])
    /\ UNCHANGED <<draft, intent, effects>>

\* The server repeats the answer to a key it knows with the same payload,
\* refuses another payload or a code in use, and otherwise does as asked.
HandleRequest ==
    /\ Submitting
    /\ \E answered \in {"call", "late"} :
          /\ Waiting(answered)
          /\ LET request == Received(answered)
                 known   == {e \in effects : e.key = request.key}
             IN  \/ /\ known # {}
                    /\ Answered(answered,
                           IF /\ Submission.names \in {"payload", "subject"}
                              /\ \E e \in known : e.payload = request.payload
                                               /\ e.expected = request.expected
                           THEN "ok" ELSE "refused", None)
                    /\ UNCHANGED <<row, effects>>
                 \/ /\ known = {}
                    /\ request.expected \notin {None, row.version} \/ Spent(row)
                    /\ Answered(answered, "refused", None)
                    /\ UNCHANGED <<row, effects>>
                 \/ /\ known = {}
                    /\ request.expected \in {None, row.version} /\ ~Spent(row)
                    /\ effects' = effects \cup {request}
                    /\ row' = IF Submission.expects
                              THEN [version |-> row.version + 1,
                                    field |-> [row.field EXCEPT !["choice"] = 1]]
                              ELSE row
                    /\ Answered(answered, "ok", None)
    /\ UNCHANGED <<page, cache, fetch, losses, draft, intent, holder, nextKey>>

-----------------------------------------------------------------------------
(* What became of it *)

\* The wish is fulfilled: its key is forgotten, the next request is a new one.
Fulfilled ==
    /\ Submitting
    /\ Settled({"ok"})
    /\ Refreshed(None, TRUE)
    /\ holder' = None
    /\ draft' = IF Submission.resets THEN None ELSE draft
    /\ intent' = intent + 1
    /\ UNCHANGED <<nextKey, effects>>

\* The form and its key stay, for the user to ask again.
Unfulfilled ==
    /\ Submitting
    /\ SettledError
    /\ UNCHANGED <<cache, fetch, submissionVars>>

=============================================================================
