----------------------------- MODULE WebProofs -----------------------------
(* Proofs about Web: what the pages are made of, the inductive invariant     *)
(* WebInv step by step (editors, submissions, batches, the connection), and  *)
(* the three properties that follow from it.                                  *)
EXTENDS Web, WellFoundedInduction, TLAPS

-----------------------------------------------------------------------------
(* The pages *)

\* How every editor is made, as far as the proofs use it
WellMade(name, E) ==
    /\ E.fields \subseteq Fields
    /\ E.follows \in {"keyed", "bound", "dialog", "command"}
    /\ E.empty \in BOOLEAN /\ E.clears \in BOOLEAN /\ E.adopts \in BOOLEAN /\ E.versioned \in BOOLEAN
    /\ \A shown \in Values : E.offers[shown] \subseteq Values
    /\ E.follows = "dialog" => E.clears /\ ~ E.empty
    /\ E.follows \in {"keyed", "command"} => ~ E.clears /\ ~ E.empty
    /\ E.follows = "command" => E.fields = {"choice"}
    /\ E.follows = "bound" => name \in MountedForms
    /\ ~ E.versioned =>
         /\ E.fields = {"choice"}
         /\ \/ E.follows = "command"
            \/ E.follows = "dialog" /\ ~ \A shown \in Values : E.offers[shown] = {shown}

LEMMA FormsWellMade ==
    /\ WellMade("setting", SettingForm) /\ WellMade("product", ProductForm)
    /\ WellMade("courier", CourierForm) /\ WellMade("variant", VariantForm)
    /\ WellMade("zone", DeliveryZoneForm) /\ WellMade("rate", DeliveryRateForm)
    /\ WellMade("threshold", ThresholdForm) /\ WellMade("image", ImageForm)
    /\ WellMade("notes", InternalNotesForm)
BY DEF WellMade, Fields, Values, Page, SettingForm, SettingFields, ProductForm, ProductFields,
   CourierForm, CourierFields, VariantForm, VariantFields, DeliveryZoneForm, DeliveryZoneFields,
   DeliveryRateForm, DeliveryRateFields, ThresholdForm, ThresholdFields, ImageForm, ImageFields,
   InternalNotesForm, MountedForms

LEMMA PickersWellMade ==
    /\ WellMade("assignment", DeliveryAssignment) /\ WellMade("unassignment", DeliveryUnassignment)
    /\ WellMade("transition", DeliveryTransition) /\ WellMade("manifest", ManifestTransition)
    /\ WellMade("coverage", ZoneCoverage) /\ WellMade("adjustment", StockAdjustment)
    /\ WellMade("mediaReview", MediaReviewConfirmation)
BY DEF WellMade, Fields, Values, Page, Picked, DeliveryAssignment, DeliveryUnassignment,
   DeliveryTransition, ManifestTransition, ZoneCoverage, CoverageFields, StockAdjustment,
   AdjustmentFields, MediaReviewConfirmation, MediaReviewFields, MountedForms

\* What the buttons offer
LEMMA Offers ==
    ASSUME NEW offers \in {Toggle, Forward, AnyOutcome}
    PROVE  /\ \A shown \in Values : offers[shown] \subseteq Values
           /\ ~ \A shown \in Values : offers[shown] = {shown}
BY DEF Toggle, Forward, AnyOutcome, Values

LEMMA DialogsWellMade ==
    /\ WellMade("address", AddressDialog) /\ WellMade("addressRemoval", DeleteAddressDialog)
    /\ WellMade("administrator", AdministratorActions) /\ WellMade("customer", CustomerActions)
    /\ WellMade("session", SessionRevocation)
<1>1. WellMade("address", AddressDialog)
    BY DEF WellMade, Fields, Values, Page, AddressDialog, AddressFields
<1>2. ASSUME NEW name, NEW offers \in {Toggle, Forward, AnyOutcome}
      PROVE  WellMade(name, LifecycleDialog(offers))
    BY Offers DEF WellMade, Fields, Page, LifecycleDialog
<1>3. WellMade("addressRemoval", DeleteAddressDialog)
    BY Offers DEF WellMade, Fields, Page, DeleteAddressDialog
<1>4. WellMade("session", SessionRevocation)
    BY Offers DEF WellMade, Fields, Page, LifecycleDialog, SessionRevocation
<1> QED
    BY <1>1, <1>2, <1>3, <1>4 DEF AdministratorActions, CustomerActions

LEMMA ButtonsWellMade ==
    ASSUME NEW name, NEW offers \in {Toggle, Forward, AnyOutcome}
    PROVE  /\ WellMade(name, Button(offers))
           /\ WellMade(name, [Button(offers) EXCEPT !.adopts = TRUE])
           /\ WellMade(name, [Button(offers) EXCEPT !.adopts = TRUE, !.rereads = FALSE])
           /\ WellMade(name, [Button(offers) EXCEPT !.adopts = TRUE, !.rereads = FALSE, !.versioned = FALSE])
           /\ WellMade(name, [Button(offers) EXCEPT !.versioned = FALSE])
BY Offers DEF WellMade, Fields, Page, Button

LEMMA EditorsWellMade ==
    ASSUME NEW name \in DOMAIN Editors
    PROVE  WellMade(name, Editors[name])
<1>1. /\ WellMade("productState", ProductLifecycle) /\ WellMade("variantState", VariantLifecycle)
      /\ WellMade("zoneState", ZoneActivation) /\ WellMade("rateState", RateActivation)
      /\ WellMade("pickupState", PickupActivation) /\ WellMade("courierState", CourierCard)
      /\ WellMade("completion", CompleteDelivery) /\ WellMade("mediaState", MediaAction)
      /\ WellMade("moderation", MediaModeration) /\ WellMade("attempt", DeliveryAttempt)
      /\ WellMade("wish", WishlistButton) /\ WellMade("wishRemoval", WishlistRemoval)
      /\ WellMade("signOut", CustomerSignOut) /\ WellMade("taxonomy", TaxonomyPublication)
      /\ WellMade("cartLine", CartQuantity) /\ WellMade("order", OrderProgress)
      /\ WellMade("customerOrder", CustomerCancel)
    BY ButtonsWellMade
    DEF ProductLifecycle, VariantLifecycle, ZoneActivation, RateActivation, PickupActivation, CourierCard,
        CompleteDelivery, DeliveryAttempt, MediaAction, MediaModeration, TaxonomyPublication,
        OrderButtons, OrderProgress, CustomerCancel, CartQuantity, WishlistButton, WishlistRemoval,
        CustomerSignOut
<1> QED
    BY <1>1, FormsWellMade, PickersWellMade, DialogsWellMade DEF Editors

\* How every submission is named, as far as the proofs use it
WellNamed(name, S) ==
    /\ S.names \in {"payload", "subject", "code", "record", "none"}
    /\ S.expects \in BOOLEAN /\ S.spends \in BOOLEAN /\ S.resets \in BOOLEAN
    /\ S.names = "payload" /\ name \notin {"checkout", "transfer"} => ~ S.expects
    /\ name = "checkout" => S.expects /\ S.spends
    /\ S.drafts \subseteq Entries

LEMMA NamingWell ==
    ASSUME NEW name, name # "checkout", NEW names \in {"payload", "subject", "code", "record", "none"},
           NEW entries \in {Entries, Values}
    PROVE  /\ WellNamed(name, Naming(names, entries))
           /\ WellNamed(name, Resetting(names, entries))
BY DEF WellNamed, Naming, Resetting, Entries

LEMMA SubmissionsWellNamed ==
    ASSUME NEW name \in DOMAIN Submissions
    PROVE  WellNamed(name, Submissions[name])
<1>1. /\ WellNamed("checkout", CheckoutPage) /\ WellNamed("transfer", TransferForm)
      /\ WellNamed("collection", CollectionForm)
    BY DEF WellNamed, CheckoutPage, CheckoutDraft, TransferForm, TransferDraft, CollectionForm,
       CollectionDraft, Naming, Resetting
<1>2. /\ WellNamed("receipt", ReceiptForm) /\ WellNamed("newZone", ZoneCreation)
      /\ WellNamed("newPickup", PickupCreation) /\ WellNamed("newCourier", CourierCreation)
      /\ WellNamed("newAdministrator", AdministratorCreation) /\ WellNamed("newProduct", ProductCreation)
      /\ WellNamed("newTaxonomy", TaxonomyCreation) /\ WellNamed("newVariant", VariantCreation)
      /\ WellNamed("newLocation", LocationCreation) /\ WellNamed("newBucket", BucketCreation)
      /\ WellNamed("newRemittance", RemittanceCreation) /\ WellNamed("importPreview", ImportPreview)
    BY NamingWell
    DEF ReceiptForm, ZoneCreation, PickupCreation, CourierCreation, AdministratorCreation,
        ProductCreation, TaxonomyCreation, VariantCreation, LocationCreation, BucketCreation,
        RemittanceCreation, ImportPreview, ReceiptDraft, ZoneDraft, PickupDraft, CourierDraft,
        AdministratorDraft, TaxonomyDraft, VariantDraft, LocationDraft, BucketDraft, RemittanceDraft,
        ImportDraft
<1>3. /\ WellNamed("decision", AdjustmentDecision) /\ WellNamed("resolution", DiscrepancyResolution)
      /\ WellNamed("reconciliation", RemittanceReconciliation)
      /\ WellNamed("importDecision", ImportConfirmation) /\ WellNamed("newManifest", ManifestCreation)
      /\ WellNamed("registration", RegisterPage) /\ WellNamed("reset", PasswordResetCompletion)
      /\ WellNamed("googleAccount", GoogleCreateOnboardingForm)
      /\ WellNamed("googleLink", GoogleLinkOnboardingForm) /\ WellNamed("totp", TotpForm)
    BY NamingWell
    DEF AdjustmentDecision, DiscrepancyResolution, RemittanceReconciliation, ImportConfirmation,
        ManifestCreation, RegisterPage, PasswordResetCompletion, GoogleCreateOnboardingForm,
        GoogleLinkOnboardingForm, TotpForm, DecisionDraft, ResolutionDraft, ConfirmationDraft,
        ManifestDraft
<1>4. /\ WellNamed("login", CustomerLoginPage) /\ WellNamed("password", PasswordForm)
      /\ WellNamed("resetRequest", PasswordResetRequest) /\ WellNamed("resetOrder", CustomerPasswordReset)
      /\ WellNamed("newRate", RateCreation) /\ WellNamed("orderNote", OrderNote)
      /\ WellNamed("contact", OrderContact) /\ WellNamed("customerNote", CustomerNote)
      /\ WellNamed("addToCart", AddToCart)
    BY NamingWell
    DEF CustomerLoginPage, PasswordForm, PasswordResetRequest, CustomerPasswordReset, RateCreation,
        OrderNote, OrderContact, CustomerNote, AddToCart, RateDraft, OrderNoteDraft, AddToCartDraft
<1> QED
    BY <1>1, <1>2, <1>3, <1>4 DEF Submissions

LEMMA PageKinds ==
    ASSUME page \in AllPages
    PROVE  /\ Editing => ~ Submitting /\ page.kind # "batch" /\ WellMade(page.name, Editor)
           /\ Submitting => /\ page.kind # "batch" /\ WellNamed(page.name, Submission)
                          /\ page.name \in DOMAIN Submissions
           /\ Uploading \/ Importing \/ Messaging \/ Replacing => page.kind = "batch"
<1>1. CASE page \in EditorPages
    <2>1. PICK n \in DOMAIN Editors : page = [name |-> n, kind |-> "editor", ways |-> Editors[n]]
        BY <1>1 DEF EditorPages
    <2>2. n \notin {"upload", "import", "message", "replacement"}
        BY DEF Editors
    <2>3. page.name = n /\ page.kind = "editor" /\ page.ways = Editors[n]
        BY <2>1
    <2> QED
        BY <2>2, <2>3, EditorsWellMade DEF Editing, Submitting, Editor, Uploading, Importing, Messaging,
           Replacing
<1>2. CASE page \in SubmissionPages
    <2>1. PICK n \in DOMAIN Submissions :
            page = [name |-> n, kind |-> "submission", ways |-> Submissions[n]]
        BY <1>2 DEF SubmissionPages
    <2>2. n \notin {"upload", "import", "message", "replacement"}
        BY DEF Submissions
    <2>3. page.name = n /\ page.kind = "submission" /\ page.ways = Submissions[n]
        BY <2>1
    <2> QED
        BY <2>2, <2>3, SubmissionsWellNamed
        DEF Editing, Submitting, Submission, Uploading, Importing, Messaging, Replacing
<1>3. CASE page \in BatchPages
    BY <1>3 DEF BatchPages, Editing, Submitting
<1> QED
    BY <1>1, <1>2, <1>3 DEF AllPages

-----------------------------------------------------------------------------
(* Copies of the record *)

\* The record stays, or goes on by a version.
RowMoves == row' = row \/ (row' \in Records /\ row'.version = row.version + 1)

LEMMA CopyKept ==
    ASSUME row \in Records, RowMoves, NEW c, Copy(c, row)
    PROVE  Copy(c, row')
BY DEF RowMoves, Copy, Records

LEMMA RowCopy ==
    ASSUME row \in Records
    PROVE  Copy(row, row) /\ row # None /\ row.version \in Nat /\ row.field \in [Fields -> Values]
BY NoneAssumption DEF Copy, Records

LEMMA CopyTyped ==
    ASSUME NEW c, NEW now, Copy(c, now)
    PROVE  c \in Records /\ c # None /\ c.version \in Nat /\ c.field \in [Fields -> Values]
BY NoneAssumption DEF Copy, Records

LEMMA FormKept ==
    ASSUME row \in Records, RowMoves, NEW shown, NEW copy, FormOK(shown, copy, row)
    PROVE  FormOK(shown, copy, row')
<1>1. Copy(shown.base, row')
    BY CopyKept DEF FormOK
<1> QED
    BY <1>1 DEF FormOK

LEMMA SaveKept ==
    ASSUME row \in Records, RowMoves, NEW r, SaveOK(r, row)
    PROVE  SaveOK(r, row')
<1>1. Copy(r.shown, row')
    BY CopyKept DEF SaveOK
<1> QED
    BY <1>1 DEF SaveOK

-----------------------------------------------------------------------------
(* The call and what is left of others *)

CallShape ==
    call # None => call = [request |-> call.request, outcome |-> call.outcome, answer |-> call.answer]

LEMMA AskedCall ==
    ASSUME NEW r, httpRequest(r)
    PROVE  /\ CallShape' /\ Requests' \subseteq Requests \cup {r}
           /\ call'.request = r /\ call'.outcome = None /\ call = None
           /\ UNCHANGED <<page, row, cache, fetch, late, losses>>
BY DEF httpRequest, CallShape, Requests, Idle

LEMMA SettledCall ==
    ASSUME NEW outcomes, Settled(outcomes)
    PROVE  /\ call' = None /\ CallShape' /\ Requests' \subseteq Requests
           /\ call # None /\ call.outcome \in outcomes
           /\ UNCHANGED <<page, row, late, losses>>
BY DEF Settled, CallShape, Requests

LEMMA AnsweredCall ==
    ASSUME CallShape, NEW answered \in {"call", "late"}, Waiting(answered),
           NEW outcome, NEW answer, Answered(answered, outcome, answer)
    PROVE  /\ CallShape' /\ Requests' \subseteq Requests /\ Received(answered) \in Requests
           /\ call' # None => /\ call # None /\ call'.request = call.request
                              /\ \/ call' = call
                                 \/ /\ answered = "call" /\ call'.outcome = outcome /\ call'.answer = answer
<1>1. CASE answered = "call"
    <2>1. call # None /\ late' = late
        BY <1>1 DEF Waiting, Answered
    <2>2. call' = [request |-> call.request, outcome |-> outcome, answer |-> answer]
        BY <1>1, <2>1 DEF Answered, CallShape
    <2> QED
        BY <1>1, <2>1, <2>2 DEF CallShape, Requests, Received
<1>2. CASE answered = "late"
    BY <1>2 DEF Waiting, Answered, CallShape, Requests, Received
<1> QED
    BY <1>1, <1>2

LEMMA LostCall ==
    ASSUME CallShape, Lose
    PROVE  /\ CallShape' /\ Requests' \subseteq Requests
           /\ call # None /\ call'.request = call.request /\ call'.outcome = "lost"
           /\ UNCHANGED <<page, row, cache, fetch>>
<1>1. call # None /\ call' = [request |-> call.request, outcome |-> "lost", answer |-> None]
    BY DEF Lose, CallShape
<1>2. late' = late \/ late' = call.request
    BY DEF Lose
<1> QED
    BY <1>1, <1>2 DEF CallShape, Requests, Lose

\* What a step of an editor has to leave behind
LEMMA EditorKeeps ==
    ASSUME WebInv, Editing, UNCHANGED <<page, batchVars>>, row' \in Records, CallShape',
           \A c \in {cache', fetch'} \ {None} : Copy(c, row'),
           form' # None \/ call' # None => FormOK(form', cache', row'),
           \A r \in Requests' : SaveOK(r, row'),
           call' # None /\ call'.outcome = "ok" => Copy(call'.answer, row')
    PROVE  WebInv'
<1>1. ~ Submitting' /\ page'.kind = "editor" /\ ~ Uploading' /\ ~ Importing' /\ ~ Messaging' /\ ~ Replacing'
    BY PageKinds DEF WebInv, Editing, Submitting, Uploading, Importing, Messaging, Replacing
<1>2. BatchInv'
    BY <1>1 DEF WebInv, BatchInv, batchVars
<1>3. form' # None \/ call' # None => FormOK(form, cache, row)'
    BY DEF FormOK, Editor, Typed, Lags
<1>4. \A r \in Requests' : r.expected = IF Editor'.versioned THEN r.shown.version ELSE None
    BY DEF SaveOK, Editor
<1>5. EditorInv'
    BY <1>3, <1>4 DEF EditorInv, SaveOK, Editor, Lags
<1> QED
    BY <1>1, <1>2, <1>5 DEF WebInv, CallShape

-----------------------------------------------------------------------------
(* Editors *)

LEMMA FormOfOK ==
    ASSUME page \in AllPages, Editing, NEW record, Copy(record, row), Editor.follows # "dialog" \/ Typed
    PROVE  FormOK(FormOf(record), record, row)
<1>1. WellMade(page.name, Editor)
    BY PageKinds
<1>2. record \in Records /\ record.field \in [Fields -> Values]
    BY CopyTyped
<1>3. /\ FormOf(record).base = record /\ FormOf(record).touched = {}
      /\ FormOf(record).entry \in [Editor.fields -> Entries]
      /\ \A f \in Editor.fields : FormOf(record).entry[f] = IF Editor.empty THEN Unreadable ELSE record.field[f]
      /\ FormOf(record) = [base |-> FormOf(record).base, touched |-> FormOf(record).touched,
                           entry |-> FormOf(record).entry]
    BY <1>1, <1>2 DEF FormOf, WellMade, Entries
<1> QED
    BY <1>1, <1>2, <1>3 DEF FormOK, Lags, WellMade

LEMMA BoundToOK ==
    ASSUME page \in AllPages, Editing, Editor.follows = "bound", FormOK(form, cache, row), NEW record,
           Copy(record, row)
    PROVE  FormOK(BoundTo(record), record, row)
<1>1. WellMade(page.name, Editor)
    BY PageKinds
<1>2. record \in Records /\ record.field \in [Fields -> Values]
    BY CopyTyped
<1>3. /\ form = [base |-> form.base, touched |-> form.touched, entry |-> form.entry]
      /\ form.touched \subseteq Fields /\ form.entry \in [Editor.fields -> Entries]
    BY DEF FormOK
<1> DEFINE e == [f \in Editor.fields |-> IF Editor.controlled /\ f \notin form.touched
                                         THEN record.field[f] ELSE form.entry[f]]
<1>4. e \in [Editor.fields -> Entries]
    BY <1>1, <1>2, <1>3 DEF WellMade, Entries
<1>6. BoundTo(record) = [form EXCEPT !.base = record, !.entry = e]
    BY DEF BoundTo
<1> HIDE DEF e
<1>7. /\ BoundTo(record) \in [base: Records, touched: SUBSET Fields, entry: [Editor.fields -> Entries]]
      /\ BoundTo(record).base = record /\ BoundTo(record).touched = form.touched
      /\ BoundTo(record).entry = e
    BY <1>2, <1>4, <1>6 DEF FormOK
<1> QED
    BY <1>2, <1>7 DEF FormOK, Lags

LEMMA FollowingOK ==
    ASSUME page \in AllPages, Editing, form # None => FormOK(form, cache, row), NEW record, Copy(record, row)
    PROVE  Following(record) # None \/ FormOK(form, cache, row) => FormOK(Following(record), record, row)
<1>1. WellMade(page.name, Editor)
    BY PageKinds
<1>2. CASE Editor.follows = "dialog"
    BY <1>2 DEF Following, FormOK
<1>3. CASE Editor.follows # "dialog" /\ form = None
    BY <1>3, FormOfOK DEF Following
<1>4. CASE Editor.follows \in {"keyed", "command"} /\ form # None
    <2>1. Following(record) = IF record = form.base THEN form ELSE FormOf(record)
        BY <1>4 DEF Following
    <2>2. FormOK(form, cache, row) /\ cache = form.base
        BY <1>4 DEF FormOK
    <2> QED
        BY <1>4, <2>1, <2>2, FormOfOK
<1>5. CASE Editor.follows = "bound" /\ form # None
    BY <1>5, BoundToOK DEF Following
<1> QED
    BY <1>1, <1>2, <1>3, <1>4, <1>5 DEF WellMade

\* What stays of an editor's conditions when the record moves on
LEMMA EditorRest ==
    ASSUME WebInv, Editing, RowMoves
    PROVE  /\ row \in Records /\ row' \in Records
           /\ \A c \in {cache, fetch} \ {None} : Copy(c, row')
           /\ \A r \in Requests : SaveOK(r, row')
           /\ form # None \/ call # None => FormOK(form, cache, row')
           /\ call # None /\ call.outcome = "ok" => Copy(call.answer, row')
<1>1. row \in Records /\ row' \in Records
    BY DEF WebInv, RowMoves
<1>2. \A c \in {cache, fetch} \ {None} : Copy(c, row')
    BY <1>1, CopyKept DEF WebInv
<1>3. \A r \in Requests : SaveOK(r, row')
    BY <1>1, SaveKept DEF WebInv, EditorInv
<1>4. form # None \/ call # None => FormOK(form, cache, row')
    BY <1>1, FormKept DEF WebInv, EditorInv
<1>5. call # None /\ call.outcome = "ok" => Copy(call.answer, row')
    BY <1>1, CopyKept DEF WebInv, EditorInv
<1> QED
    BY <1>1, <1>2, <1>3, <1>4, <1>5

LEMMA ReadArrivesStep ==
    ASSUME WebInv, ReadArrives, UNCHANGED batchVars
    PROVE  WebInv'
<1>1. /\ fetch # None /\ cache' = fetch /\ fetch' = None /\ form' = Following(fetch)
      /\ UNCHANGED <<page, row, call, late>> /\ Editing /\ Requests' = Requests /\ RowMoves
    BY DEF ReadArrives, FetchArrives, Requests, RowMoves
<1>2. Copy(fetch, row)
    BY <1>1 DEF WebInv
<1>3. form' # None \/ call' # None => FormOK(form', fetch, row)
    BY <1>1, <1>2, FollowingOK DEF WebInv, EditorInv
<1> QED
    BY <1>1, <1>2, <1>3, EditorRest, EditorKeeps DEF WebInv, CallShape

LEMMA SameRow == row' = row => RowMoves
BY DEF RowMoves

LEMMA OpenDialogStep ==
    ASSUME WebInv, OpenDialog, UNCHANGED batchVars
    PROVE  WebInv'
<1>1. /\ Editing /\ Editor.follows = "dialog" /\ form = None /\ cache # None
      /\ UNCHANGED <<page, row, cache, fetch, call, late>> /\ Requests' = Requests /\ RowMoves
    BY SameRow DEF OpenDialog, clientVars, Requests
<1>2. /\ Copy(cache, row) /\ cache.field \in [Fields -> Values] /\ page \in AllPages
      /\ WellMade(page.name, Editor)
    BY <1>1, CopyTyped, PageKinds DEF WebInv
<1>3. FormOK(form', cache, row)
    <2>1. PICK target \in Editor.offers[cache.field["choice"]] :
            form' = IF Typed THEN FormOf(cache)
                    ELSE [FormOf(cache) EXCEPT !.entry["choice"] = target, !.touched = {"choice"}]
        BY DEF OpenDialog
    <2>2. CASE Typed
        BY <1>1, <1>2, <2>1, <2>2, FormOfOK
    <2>3. CASE ~ Typed
        <3>1. target \in Values
            BY <1>2 DEF WellMade, Fields
        <3>2. /\ form'.base = cache /\ form'.touched = {"choice"}
              /\ form' = [base |-> form'.base, touched |-> form'.touched, entry |-> form'.entry]
              /\ form'.entry = [[f \in Editor.fields |-> cache.field[f]] EXCEPT !["choice"] = target]
            BY <1>2, <2>1, <2>3, <1>1 DEF FormOf, WellMade
        <3>3. [f \in Editor.fields |-> cache.field[f]] \in [Editor.fields -> Values]
            BY <1>2 DEF WellMade
        <3>4. /\ form'.entry \in [Editor.fields -> Values]
              /\ \A f \in Editor.fields \ {"choice"} : form'.entry[f] = cache.field[f]
            BY <3>1, <3>2, <3>3
        <3>5. cache \in Records
            BY <1>2 DEF Copy
        <3>6. form' \in [base: Records, touched: SUBSET Fields, entry: [Editor.fields -> Entries]]
            BY <3>2, <3>4, <3>5 DEF Fields, Entries
        <3> QED
            BY <1>1, <1>2, <3>2, <3>4, <3>6 DEF FormOK, WellMade
    <2> QED
        BY <2>2, <2>3
<1> QED
    BY <1>1, <1>3, EditorRest, EditorKeeps DEF WebInv, CallShape

LEMMA CloseDialogStep ==
    ASSUME WebInv, CloseDialog, UNCHANGED batchVars
    PROVE  WebInv'
<1>1. /\ Editing /\ form' = None /\ call = None
      /\ UNCHANGED <<page, row, cache, fetch, call, late>> /\ Requests' = Requests /\ RowMoves
    BY SameRow DEF CloseDialog, clientVars, Requests, Idle
<1> QED
    BY <1>1, EditorRest, EditorKeeps DEF WebInv, CallShape

LEMMA TypeStep ==
    ASSUME WebInv, Type, UNCHANGED batchVars
    PROVE  WebInv'
<1>1. /\ Editing /\ Editor.follows # "command" /\ form # None
      /\ UNCHANGED <<page, row, cache, fetch, call, late>> /\ Requests' = Requests /\ RowMoves
    BY SameRow DEF Type, clientVars, Requests
<1>2. FormOK(form, cache, row) /\ WellMade(page.name, Editor)
    BY <1>1, PageKinds DEF WebInv, EditorInv
<1>3. PICK f \in Editor.fields, entry \in Entries :
        form' = [form EXCEPT !.entry[f] = entry, !.touched = form.touched \cup {f}]
    BY DEF Type
<1>4. form' \in [base: Records, touched: SUBSET Fields, entry: [Editor.fields -> Entries]]
    BY <1>2, <1>3 DEF FormOK, WellMade
<1>5. /\ form'.base = form.base /\ form'.touched = form.touched \cup {f}
      /\ \A g \in Editor.fields \ {f} : form'.entry[g] = form.entry[g]
    BY <1>2, <1>3 DEF FormOK
<1>6. FormOK(form', cache, row)
    BY <1>2, <1>4, <1>5 DEF FormOK
<1> QED
    BY <1>1, <1>6, EditorRest, EditorKeeps DEF WebInv, CallShape

\* What a request says of the form it was made from
LEMMA RequestFields ==
    ASSUME NEW entry, NEW touched
    PROVE  /\ Request(entry, touched).entry = entry /\ Request(entry, touched).touched = touched
           /\ Request(entry, touched).shown = form.base /\ Request(entry, touched).expected = Expects
BY DEF Request

\* A request asked for by an editor
LEMMA EditorAsks ==
    ASSUME WebInv, Editing, form # None, NEW entry, NEW touched, httpRequest(Request(entry, touched)),
           DOMAIN entry \subseteq Fields, entry \in [DOMAIN entry -> Values],
           \A f \in DOMAIN entry \ touched :
               Editor.versioned /\ (Lags \/ entry[f] = form.base.field[f]),
           UNCHANGED <<form, batchVars>>
    PROVE  WebInv'
<1> DEFINE r == Request(entry, touched)
<1>1. /\ CallShape' /\ Requests' \subseteq Requests \cup {r} /\ call'.outcome = None
      /\ UNCHANGED <<page, row, cache, fetch>> /\ RowMoves
    BY AskedCall, SameRow
<1>2. FormOK(form, cache, row)
    BY DEF WebInv, EditorInv
<1>3. r.expected = IF Editor.versioned THEN form.base.version ELSE None
    BY <1>2, RequestFields DEF Expects, ExpectedVersion, FormOK
<1>4. SaveOK(r, row)
    BY <1>2, <1>3, RequestFields DEF SaveOK, FormOK
<1>5. None # "ok"
    BY NoneAssumption DEF Outcomes
<1> HIDE DEF r
<1> QED
    BY <1>1, <1>2, <1>4, <1>5, EditorRest, EditorKeeps

LEMMA SubmitStep ==
    ASSUME WebInv, Submit, UNCHANGED batchVars
    PROVE  WebInv'
<1>1. /\ Editing /\ Editor.follows # "command" /\ form # None /\ Readable
      /\ httpRequest(Request(form.entry, form.touched)) /\ UNCHANGED form
    BY DEF Submit
<1>2. FormOK(form, cache, row) /\ WellMade(page.name, Editor)
    BY <1>1, PageKinds DEF WebInv, EditorInv
<1>3. DOMAIN form.entry = Editor.fields /\ form.entry \in [Editor.fields -> Values]
    BY <1>1, <1>2 DEF FormOK, Readable, Entries
<1>4. ASSUME NEW f \in Editor.fields \ form.touched
      PROVE  Editor.versioned /\ (Lags \/ form.entry[f] = form.base.field[f])
    <2>1. Lags \/ form.entry[f] = form.base.field[f]
        BY <1>1, <1>2 DEF FormOK, Readable
    <2>2. Editor.versioned
        BY <1>1, <1>2 DEF FormOK, WellMade, Typed
    <2> QED
        BY <2>1, <2>2
<1> QED
    BY <1>1, <1>2, <1>3, <1>4, EditorAsks DEF WellMade

LEMMA PressStep ==
    ASSUME WebInv, Press, UNCHANGED batchVars
    PROVE  WebInv'
<1>1. /\ Editing /\ Editor.follows = "command" /\ form # None /\ UNCHANGED form
    BY DEF Press
<1>2. PICK target \in Editor.offers[cache.field["choice"]] :
        httpRequest(Request([f \in {"choice"} |-> target], {"choice"}))
    BY DEF Press
<1>3. FormOK(form, cache, row) /\ WellMade(page.name, Editor)
    BY <1>1, PageKinds DEF WebInv, EditorInv
<1>4. target \in Values
    <2>1. Copy(cache, row)
        BY <1>1, <1>3 DEF FormOK
    <2>2. cache.field["choice"] \in Values
        BY <2>1, CopyTyped DEF Fields
    <2> QED
        BY <1>3, <2>2 DEF WellMade
<1> DEFINE e == [f \in {"choice"} |-> target]
<1>5. DOMAIN e = {"choice"} /\ e \in [{"choice"} -> Values]
    BY <1>4
<1>6. DOMAIN e \subseteq Fields /\ DOMAIN e \ {"choice"} = {}
    BY <1>5 DEF Fields
<1> HIDE DEF e
<1> QED
    BY <1>1, <1>2, <1>5, <1>6, EditorAsks DEF e

LEMMA SavedRow ==
    ASSUME row \in Records, NEW r, NEW now, SaveOK(r, now), Save(r)
    PROVE  /\ row' \in Records /\ row'.version = row.version + 1 /\ RowMoves
           /\ \A f \in DOMAIN r.entry : row'.field[f] = r.entry[f]
<1>1. /\ row' = [version |-> row.version + 1,
                 field |-> [f \in Fields |-> IF f \in DOMAIN r.entry THEN r.entry[f] ELSE row.field[f]]]
      /\ row.version \in Nat /\ row.field \in [Fields -> Values]
    BY RowCopy DEF Save
<1>2. [f \in Fields |-> IF f \in DOMAIN r.entry THEN r.entry[f] ELSE row.field[f]] \in [Fields -> Values]
    BY <1>1 DEF SaveOK
<1>3. row' \in Records /\ row'.version = row.version + 1
    BY <1>1, <1>2 DEF Records
<1>4. \A f \in DOMAIN r.entry : row'.field[f] = r.entry[f]
    BY <1>1 DEF SaveOK
<1> QED
    BY <1>3, <1>4 DEF RowMoves

LEMMA HandleSaveStep ==
    ASSUME WebInv, HandleSave, UNCHANGED batchVars
    PROVE  WebInv'
<1>1. PICK answered \in {"call", "late"} :
        /\ Waiting(answered)
        /\ \/ Save(Received(answered)) /\ Answered(answered, "ok", row')
           \/ UNCHANGED row /\ Answered(answered, "refused", None)
    BY DEF HandleSave
<1>2. Editing /\ UNCHANGED <<page, cache, fetch, form>> /\ CallShape
    BY DEF HandleSave, WebInv, CallShape
<1>3. CASE Save(Received(answered)) /\ Answered(answered, "ok", row')
    <2>1. /\ CallShape' /\ Requests' \subseteq Requests /\ Received(answered) \in Requests
          /\ call' # None => call # None /\ (call' = call \/ call'.answer = row')
        BY <1>1, <1>2, <1>3, AnsweredCall
    <2>2. SaveOK(Received(answered), row) /\ row \in Records
        BY <1>2, <2>1 DEF WebInv, EditorInv
    <2>3. RowMoves /\ row' \in Records
        BY <1>3, <2>2, SavedRow
    <2>4. Copy(row', row')
        BY <2>3 DEF Copy, Records
    <2> QED
        BY <1>2, <2>1, <2>3, <2>4, EditorRest, EditorKeeps
<1>4. CASE UNCHANGED row /\ Answered(answered, "refused", None)
    <2>1. /\ CallShape' /\ Requests' \subseteq Requests /\ RowMoves
          /\ call' # None => call # None /\ (call' = call \/ call'.outcome = "refused")
        BY <1>1, <1>2, <1>4, AnsweredCall, SameRow
    <2> QED
        BY <1>2, <2>1, EditorRest, EditorKeeps
<1> QED
    BY <1>1, <1>3, <1>4

LEMMA OtherSavesStep ==
    ASSUME WebInv, OtherSaves, UNCHANGED batchVars
    PROVE  WebInv'
<1>1. PICK field \in [Fields -> Values] : row' = [version |-> row.version + 1, field |-> field]
    BY DEF OtherSaves
<1>2. /\ Editing /\ UNCHANGED <<page, cache, fetch, call, late, form>> /\ Requests' = Requests
      /\ row.version \in Nat
    BY RowCopy DEF OtherSaves, Requests, WebInv
<1>3. RowMoves
    BY <1>1, <1>2 DEF RowMoves, Records
<1> QED
    BY <1>2, <1>3, EditorRest, EditorKeeps DEF WebInv, CallShape

LEMMA SucceededStep ==
    ASSUME WebInv, Succeeded, UNCHANGED batchVars
    PROVE  WebInv'
<1> DEFINE adopted == IF Editor.adopts THEN call.answer ELSE None
           after == IF Editor.adopts THEN Following(adopted) ELSE form
<1>1. /\ Editing /\ call' = None /\ CallShape' /\ Requests' \subseteq Requests /\ RowMoves
      /\ UNCHANGED <<page, row>> /\ call # None /\ call.outcome = "ok"
    BY SettledCall, SameRow DEF Succeeded
<1>2. /\ cache' = IF adopted = None THEN cache ELSE adopted
      /\ fetch' \in {fetch, None}
      /\ form' = CASE ~ Editor.clears -> after
                   [] Editor.clears /\ Editor.follows = "dialog" -> None
                   [] Editor.clears /\ Editor.follows = "bound" -> FormOf(after.base)
    BY DEF Succeeded, Refreshed
<1>3. WellMade(page.name, Editor) /\ page \in AllPages /\ Copy(call.answer, row)
    BY <1>1, PageKinds DEF WebInv, EditorInv
<1>4. Editor.adopts => adopted # None /\ Copy(adopted, row) /\ cache' = adopted
    BY <1>2, <1>3, CopyTyped
<1>5. ~ Editor.adopts => cache' = cache
    BY <1>2
<1>6. FormOK(after, cache', row)
    <2>1. FormOK(form, cache, row)
        BY <1>1 DEF WebInv, EditorInv
    <2>2. CASE Editor.adopts
        BY <1>1, <1>3, <1>4, <2>1, <2>2, FollowingOK
    <2>3. CASE ~ Editor.adopts
        BY <1>5, <2>1, <2>3
    <2> QED
        BY <2>2, <2>3
<1> HIDE DEF adopted, after
<1>7. form' # None => FormOK(form', cache', row')
    <2>1. CASE ~ Editor.clears
        BY <1>1, <1>2, <1>6, <2>1
    <2>2. CASE Editor.clears /\ Editor.follows = "dialog"
        BY <1>2, <2>2
    <2>3. CASE Editor.clears /\ Editor.follows = "bound"
        <3>1. form' = FormOf(after.base)
            BY <1>2, <2>3
        <3>2. after.base = cache' /\ Copy(after.base, row)
            BY <1>6, <2>3 DEF FormOK
        <3> QED
            BY <1>1, <1>3, <2>3, <3>1, <3>2, FormOfOK
    <2> QED
        BY <1>3, <2>1, <2>2, <2>3 DEF WellMade
<1>8. \A c \in {cache', fetch'} \ {None} : Copy(c, row')
    BY <1>1, <1>2, <1>4, <1>5, EditorRest
<1> QED
    BY <1>1, <1>7, <1>8, EditorRest, EditorKeeps

LEMMA FailedStep ==
    ASSUME WebInv, Failed, UNCHANGED batchVars
    PROVE  WebInv'
<1>1. /\ Editing /\ call' = None /\ CallShape' /\ Requests' \subseteq Requests /\ RowMoves
      /\ UNCHANGED <<page, form>>
    BY SettledCall, SameRow DEF Failed, SettledError
<1>2. cache' = cache /\ fetch' \in {fetch, None}
    BY DEF Failed, Refreshed
<1> QED
    BY <1>1, <1>2, EditorRest, EditorKeeps

LEMMA EditorConnection ==
    ASSUME WebInv, Editing, FetchServed \/ Lose, UNCHANGED <<form, batchVars>>
    PROVE  WebInv'
<1>1. CASE FetchServed
    <2>1. /\ fetch' = row /\ UNCHANGED <<page, row, cache, call, late>> /\ Requests' = Requests /\ RowMoves
        BY <1>1, SameRow DEF FetchServed, Requests
    <2>2. Copy(row, row)
        BY RowCopy DEF WebInv
    <2> QED
        BY <2>1, <2>2, EditorRest, EditorKeeps DEF WebInv, CallShape
<1>2. CASE Lose
    <2>1. /\ CallShape' /\ Requests' \subseteq Requests /\ call # None /\ call'.outcome = "lost" /\ RowMoves
          /\ UNCHANGED <<page, row, cache, fetch>>
        BY <1>2, LostCall, SameRow DEF WebInv, CallShape
    <2> QED
        BY <2>1, EditorRest, EditorKeeps
<1> QED
    BY <1>1, <1>2

LEMMA EditorInvStep ==
    ASSUME WebInv, EditorStep \/ (Editing /\ ConnectionStep)
    PROVE  WebInv'
<1>1. CASE EditorStep
    BY <1>1, ReadArrivesStep, OpenDialogStep, CloseDialogStep, TypeStep, SubmitStep, PressStep,
       HandleSaveStep, OtherSavesStep, SucceededStep, FailedStep
    DEF EditorStep
<1>2. CASE Editing /\ ConnectionStep
    BY <1>2, EditorConnection DEF ConnectionStep
<1> QED
    BY <1>1, <1>2

-----------------------------------------------------------------------------
(* Submissions *)

\* What a step of a submission has to leave behind
LEMMA SubmissionKeeps ==
    ASSUME WebInv, Submitting, UNCHANGED <<page, batchVars>>, RowMoves, CallShape',
           {cache', fetch'} \subseteq {cache, fetch, row, None}, SubmissionInv'
    PROVE  WebInv'
<1>1. ~ Editing' /\ ~ Uploading' /\ ~ Importing' /\ ~ Messaging' /\ ~ Replacing'
    BY PageKinds DEF WebInv, Editing, Submitting, Uploading, Importing, Messaging, Replacing
<1>2. BatchInv'
    BY <1>1 DEF WebInv, BatchInv, batchVars
<1>3. row \in Records /\ row' \in Records
    BY DEF WebInv, RowMoves
<1>4. \A c \in {cache', fetch'} \ {None} : Copy(c, row')
    BY <1>3, RowCopy, CopyKept DEF WebInv
<1> QED
    BY <1>1, <1>2, <1>3, <1>4 DEF WebInv, CallShape

\* Where keys are kept for the payload alone, or for the record of the page
NamedApart == Submission.names # "none" /\ page.name \notin {"checkout", "transfer"}

LEMMA SignatureKept ==
    ASSUME page \in AllPages, Submitting, NamedApart, UNCHANGED <<page, draft>>,
           Submission.names \in {"payload", "subject"}
    PROVE  Signature' = Signature
<1>1. WellNamed(page.name, Submission)
    BY PageKinds
<1>2. CASE Submission.names = "subject"
    BY <1>2 DEF Signature, Submission
<1>3. CASE Submission.names = "payload"
    <2>1. ~ Submission.expects
        BY <1>1, <1>3 DEF WellNamed, NamedApart
    <2> QED
        BY <1>3, <2>1 DEF Signature, Submission, Expected
<1> QED
    BY <1>2, <1>3

LEMMA PresentKeyKept ==
    ASSUME page \in AllPages, Submitting, NamedApart, UNCHANGED <<page, draft, holder>>,
           NEW key, PresentKey(key)
    PROVE  PresentKey(key)'
BY SignatureKept DEF PresentKey, Submission

\* What a step keeps that asks for nothing and has no effect: the user still
\* wants the same, or wants something new.
LEMMA SubmissionRest ==
    ASSUME WebInv, Submitting, UNCHANGED <<page, nextKey, effects>>, Requests' \subseteq Requests, RowMoves,
           holder' \in {holder, None}, draft' \in Entries \cup {draft, None},
           {cache', fetch'} \subseteq {cache, fetch, row, None},
           row' = row \/ page.name # "checkout" \/ intent' = intent + 1,
           \/ UNCHANGED <<draft, intent, holder>>
           \/ /\ intent' \in {intent, intent + 1}
              /\ \A r \in Asked : r.intent # intent'
    PROVE  SubmissionInv'
<1>1. SubmissionInv /\ page \in AllPages /\ row \in Records
    BY DEF WebInv
<1>2. Asked' \subseteq Asked /\ Submission' = Submission /\ Holders' = Holders
    BY DEF Asked, Submission, Holders
<1>3. intent' \in Nat /\ intent' >= intent /\ intent \in Nat
    BY <1>1 DEF SubmissionInv
<1>4. ASSUME NEW r \in Asked'
      PROVE  /\ r.intent \in Nat /\ r.intent <= intent'
             /\ r.intent = intent' => draft' # None /\ r.payload = draft'
    BY <1>1, <1>2, <1>3 DEF SubmissionInv
<1>5. ASSUME NamedApart
      PROVE  KeysAgree'
    <2>1. KeysAgree
        BY <1>1, <1>5 DEF NamedApart, SubmissionInv
    <2>2. ASSUME NEW r \in Asked', r.intent = intent'
          PROVE  PresentKey(r.key)'
        BY <1>1, <1>2, <1>5, <2>1, <2>2, PresentKeyKept DEF KeysAgree
    <2> QED
        BY <1>2, <2>1, <2>2 DEF KeysAgree
<1>6. ASSUME page.name = "checkout"
      PROVE  CartsApart'
    <2>1. CartsApart
        BY <1>1, <1>6 DEF SubmissionInv
    <2>2. row.version \in Nat /\ row'.version \in Nat /\ row'.version >= row.version
        BY <1>1, RowCopy DEF RowMoves
    <2>3. ASSUME NEW e \in effects, NEW c \in {row', cache', fetch'} \ {None}, c.version > e.expected
          PROVE  Spent(c)' \/ e.intent < intent'
        <3>1. CASE intent' = intent + 1
            BY <1>1, <1>3, <3>1 DEF SubmissionInv, Asked
        <3>2. CASE intent' = intent /\ row' = row
            <4>1. c \in {row, cache, fetch} \ {None}
                BY <3>2, <2>3
            <4>2. Spent(c) \/ e.intent < intent
                BY <2>1, <2>3, <4>1 DEF CartsApart
            <4> QED
                BY <1>2, <3>2, <4>2 DEF Spent, Submission
        <3> QED
            BY <1>3, <1>6, <3>1, <3>2
    <2>4. ASSUME NEW r \in Asked'
          PROVE  r.expected \in Nat /\ r.expected <= row'.version
        BY <1>2, <2>1, <2>2 DEF CartsApart
    <2>5. ASSUME NEW e \in effects
          PROVE  e.expected < row'.version
        <3>1. e \in Asked /\ e.expected < row.version
            BY <2>1 DEF CartsApart, Asked
        <3>2. e.expected \in Nat
            BY <3>1, <2>1 DEF CartsApart
        <3> QED
            BY <2>2, <3>1, <3>2
    <2> QED
        BY <1>2, <2>1, <2>3, <2>4, <2>5 DEF CartsApart
<1> QED
    BY <1>1, <1>2, <1>3, <1>4, <1>5, <1>6 DEF SubmissionInv, NamedApart, Submission

LEMMA WriteStep ==
    ASSUME WebInv, Write, UNCHANGED batchVars
    PROVE  WebInv'
<1>1. /\ Submitting /\ UNCHANGED <<page, row, cache, fetch, call, late, effects>> /\ Requests' = Requests
      /\ RowMoves /\ intent' = IF draft = None THEN intent ELSE intent + 1
      /\ UNCHANGED <<holder, nextKey>> /\ draft' \in Entries
    BY SameRow, PageKinds DEF Write, clientVars, Requests, WebInv, WellNamed
<1>2. \A r \in Asked : r.intent # intent'
    BY <1>1 DEF WebInv, SubmissionInv
<1> QED
    BY <1>1, <1>2, SubmissionRest, SubmissionKeeps DEF WebInv, CallShape

LEMMA LeaveStep ==
    ASSUME WebInv, Leave, UNCHANGED batchVars
    PROVE  WebInv'
<1>1. /\ Submitting /\ UNCHANGED <<page, row, cache, fetch, call, late, effects>> /\ Requests' = Requests
      /\ RowMoves /\ intent' = intent + 1 /\ nextKey' = nextKey /\ draft' = None /\ holder' = None
    BY SameRow DEF Leave, clientVars, Requests
<1>2. \A r \in Asked : r.intent # intent'
    BY <1>1 DEF WebInv, SubmissionInv
<1> QED
    BY <1>1, <1>2, SubmissionRest, SubmissionKeeps DEF WebInv, CallShape

LEMMA ShownArrivesStep ==
    ASSUME WebInv, ShownArrives, UNCHANGED batchVars
    PROVE  WebInv'
<1>1. /\ Submitting /\ UNCHANGED <<page, row, call, late, submissionVars>> /\ Requests' = Requests
      /\ RowMoves /\ cache' = fetch /\ fetch' = None
    BY SameRow DEF ShownArrives, FetchArrives, Requests
<1> QED
    BY <1>1, SubmissionRest, SubmissionKeeps DEF WebInv, CallShape, submissionVars

LEMMA OthersWorkStep ==
    ASSUME WebInv, OthersWork, UNCHANGED batchVars
    PROVE  WebInv'
<1>1. /\ Submitting /\ UNCHANGED <<page, cache, fetch, call, late, submissionVars>> /\ Requests' = Requests
      /\ page.name # "checkout" /\ row' = [row EXCEPT !.version = row.version + 1]
    BY DEF OthersWork, Requests
<1>2. RowMoves
    BY <1>1 DEF WebInv, RowMoves, Records
<1> QED
    BY <1>1, <1>2, SubmissionRest, SubmissionKeeps DEF WebInv, CallShape, submissionVars

LEMMA FillCartStep ==
    ASSUME WebInv, Submitting, FillCart, UNCHANGED batchVars
    PROVE  WebInv'
<1>1. /\ UNCHANGED <<page, cache, fetch, call, late, draft, holder, nextKey, effects>> /\ Requests' = Requests
      /\ intent' = intent + 1
      /\ row' = [row EXCEPT !.version = row.version + 1, !.field = [row.field EXCEPT !["choice"] = 0]]
    BY DEF FillCart, Requests
<1>2. RowMoves
    <2>1. row.field \in [Fields -> Values] /\ row \in Records
        BY RowCopy DEF WebInv
    <2> DEFINE moved == [row EXCEPT !.version = row.version + 1]
               field == [row.field EXCEPT !["choice"] = 0]
    <2>2. 0 \in Values
        BY DEF Values
    <2>3. field \in [Fields -> Values]
        BY <2>1, <2>2
    <2>4. moved \in Records /\ moved.version = row.version + 1
        BY <2>1 DEF Records
    <2>5. row' = [moved EXCEPT !.field = field]
        BY <1>1
    <2> HIDE DEF moved, field
    <2>6. row'.version = row.version + 1 /\ row' \in Records
        BY <2>3, <2>4, <2>5 DEF Records
    <2> QED
        BY <2>6 DEF RowMoves
<1>3. \A r \in Asked : r.intent # intent'
    BY <1>1 DEF WebInv, SubmissionInv
<1> QED
    BY <1>1, <1>2, <1>3, SubmissionRest, SubmissionKeeps DEF WebInv, CallShape

LEMMA FulfilledStep ==
    ASSUME WebInv, Fulfilled, UNCHANGED batchVars
    PROVE  WebInv'
<1>1. /\ Submitting /\ UNCHANGED <<page, row, nextKey, effects>> /\ Requests' \subseteq Requests /\ CallShape'
      /\ RowMoves /\ intent' = intent + 1 /\ cache' = cache /\ fetch' = None
      /\ draft' \in {draft, None} /\ holder' = None
    BY SettledCall, SameRow DEF Fulfilled, Refreshed
<1>2. \A r \in Asked : r.intent # intent'
    BY <1>1 DEF WebInv, SubmissionInv
<1> QED
    BY <1>1, <1>2, SubmissionRest, SubmissionKeeps

LEMMA UnfulfilledStep ==
    ASSUME WebInv, Unfulfilled, UNCHANGED batchVars
    PROVE  WebInv'
<1>1. /\ Submitting /\ UNCHANGED <<page, row, cache, fetch, submissionVars>> /\ CallShape'
      /\ Requests' \subseteq Requests /\ RowMoves
    BY SettledCall, SameRow DEF Unfulfilled, SettledError
<1> QED
    BY <1>1, SubmissionRest, SubmissionKeeps DEF submissionVars

LEMMA SubmissionConnection ==
    ASSUME WebInv, Submitting, FetchServed \/ Lose, UNCHANGED <<submissionVars, batchVars>>
    PROVE  WebInv'
<1>1. CASE FetchServed
    <2>1. /\ fetch' = row /\ UNCHANGED <<page, row, cache, call, late>> /\ Requests' = Requests /\ RowMoves
        BY <1>1, SameRow DEF FetchServed, Requests
    <2> QED
        BY <2>1, SubmissionRest, SubmissionKeeps DEF WebInv, CallShape, submissionVars
<1>2. CASE Lose
    <2>1. /\ CallShape' /\ Requests' \subseteq Requests /\ RowMoves
          /\ UNCHANGED <<page, row, cache, fetch>>
        BY <1>2, LostCall, SameRow DEF WebInv, CallShape
    <2> QED
        BY <2>1, SubmissionRest, SubmissionKeeps DEF submissionVars
<1> QED
    BY <1>1, <1>2

LEMMA AskStep ==
    ASSUME WebInv, Ask, UNCHANGED batchVars
    PROVE  WebInv'
<1> DEFINE named == Submission.names
           k == CASE named \in {"payload", "subject"} -> KeptKey
                  [] named = "code"   -> [key |-> draft, drawn |-> FALSE]
                  [] named = "record" -> [key |-> 1, drawn |-> FALSE]
                  [] named = "none"   -> [key |-> nextKey, drawn |-> TRUE]
           new == [key |-> k.key, payload |-> draft, expected |-> Expected, intent |-> intent]
<1>1. /\ Submitting /\ draft # None
      /\ Submission.expects => cache # None /\ ~ Spent(cache)
      /\ holder' = IF named \in {"payload", "subject"}
                   THEN [signature |-> Signature, key |-> k.key] ELSE holder
      /\ UNCHANGED <<draft, intent, effects>>
    BY DEF Ask
<1>2. httpRequest(new)
    BY DEF Ask
<1>3. /\ named = "code" => k.key = draft
      /\ named = "record" => k.key = 1
      /\ named \in {"payload", "subject"} =>
           k.key = IF holder # None /\ holder.signature = Signature THEN holder.key ELSE nextKey
    BY DEF KeptKey
<1> HIDE DEF k
<1>4. new.key = k.key /\ new.payload = draft /\ new.expected = Expected /\ new.intent = intent
    OBVIOUS
<1> HIDE DEF new
<1>5. /\ CallShape' /\ Requests' \subseteq Requests \cup {new} /\ RowMoves
      /\ UNCHANGED <<page, row, cache, fetch, late>>
    BY <1>2, AskedCall, SameRow
<1>6. Asked' \subseteq Asked \cup {new} /\ Submission' = Submission /\ Holders' = Holders
    BY <1>1, <1>5 DEF Asked, Submission, Holders
<1>7. SubmissionInv /\ page \in AllPages /\ row \in Records /\ WellNamed(page.name, Submission)
    BY <1>1, PageKinds DEF WebInv
<1>8. holder' \in Holders \cup {None} /\ (named \in {"payload", "subject"} => holder' \in Holders)
    <2>1. ASSUME named \in {"payload", "subject"}
          PROVE  [signature |-> Signature, key |-> k.key] \in Holders
        <3>1. draft \in Entries
            BY <1>1, <1>7 DEF SubmissionInv
        <3>2. Expected \in Nat \cup {None}
            BY <1>1, CopyTyped DEF Expected, WebInv
        <3>3. Signature \in IF named = "subject" THEN DOMAIN Submissions ELSE Entries \X (Nat \cup {None})
            BY <1>1, <1>7, <3>1, <3>2, PageKinds DEF Signature
        <3>4. k.key \in Nat
            BY <1>3, <1>7, <2>1 DEF SubmissionInv, Holders, SubjectKeys, PayloadKeys
        <3> QED
            BY <3>3, <3>4 DEF Holders, SubjectKeys, PayloadKeys
    <2> QED
        BY <1>1, <1>7, <2>1 DEF SubmissionInv
<1>9. ASSUME NamedApart
      PROVE  KeysAgree'
    <2>1. KeysAgree
        BY <1>7, <1>9 DEF NamedApart, SubmissionInv
    <2>2. ASSUME NEW q \in Asked, q.intent = intent
          PROVE  q.key = k.key
        <3>1. PresentKey(q.key)
            BY <2>1, <2>2 DEF KeysAgree
        <3> QED
            BY <1>3, <1>7, <1>9, <3>1 DEF PresentKey, WellNamed, NamedApart
    <2>3. ASSUME NEW key, key = k.key
          PROVE  PresentKey(key)'
        <3>1. CASE named \in {"payload", "subject"}
            <4>1. Signature' = Signature
                BY <1>1, <1>5, <1>7, <1>9, <3>1, SignatureKept
            <4>2. holder' = [signature |-> Signature, key |-> k.key]
                BY <1>1, <3>1
            <4>3. holder' # None
                BY <1>8, <3>1, HolderAssumption DEF Holders
            <4>4. holder'.signature = Signature' /\ holder'.key = key
                BY <2>3, <4>1, <4>2
            <4> QED
                BY <1>6, <3>1, <4>3, <4>4 DEF PresentKey
        <3>2. CASE named = "code"
            BY <1>1, <1>3, <1>6, <2>3, <3>2 DEF PresentKey
        <3>3. CASE named = "record"
            BY <1>3, <1>6, <2>3, <3>3 DEF PresentKey
        <3> QED
            BY <1>7, <1>9, <3>1, <3>2, <3>3 DEF WellNamed, NamedApart
    <2>4. ASSUME NEW r \in Asked', r.intent = intent'
          PROVE  r.key = k.key
        BY <1>1, <1>4, <1>6, <2>2, <2>4
    <2>5. \A r \in Asked' : r.intent = intent' => PresentKey(r.key)'
        BY <2>3, <2>4
    <2>6. \A q, r \in Asked' : q.intent = r.intent => q.key = r.key
        BY <1>1, <1>4, <1>6, <2>1, <2>2 DEF KeysAgree
    <2> QED
        BY <2>5, <2>6 DEF KeysAgree
<1>10. ASSUME page.name = "checkout"
       PROVE  CartsApart'
    <2>1. CartsApart /\ Submission.expects
        BY <1>7, <1>10 DEF SubmissionInv, WellNamed
    <2>2. /\ new.expected = cache.version /\ cache # None /\ ~ Spent(cache)
          /\ cache.version \in Nat /\ cache.version <= row.version
        BY <1>1, <1>4, <2>1, CopyTyped DEF Expected, WebInv, Copy
    <2>3. \A r \in Asked' : r.expected \in Nat /\ r.expected <= row.version
        BY <1>6, <2>1, <2>2 DEF CartsApart
    <2>4. ASSUME NEW e \in effects, NEW r \in Asked', e.expected < r.expected
          PROVE  e.intent < r.intent
        BY <1>4, <1>6, <2>1, <2>2, <2>4 DEF CartsApart
    <2>5. ASSUME NEW e \in effects, NEW c \in {row, cache, fetch} \ {None}, c.version > e.expected
          PROVE  Spent(c)' \/ e.intent < intent
        BY <1>6, <2>1, <2>5 DEF CartsApart, Spent
    <2> QED
        BY <1>1, <1>5, <2>1, <2>3, <2>4, <2>5 DEF CartsApart
<1>11. ASSUME NEW r \in Asked'
       PROVE  /\ r.intent \in Nat /\ r.intent <= intent
              /\ r.intent = intent => draft # None /\ r.payload = draft
    BY <1>1, <1>4, <1>6, <1>7 DEF SubmissionInv
<1>12. nextKey' \in Nat
    BY <1>7 DEF Ask, SubmissionInv
<1>13. SubmissionInv'
    BY <1>1, <1>5, <1>6, <1>7, <1>8, <1>9, <1>10, <1>11, <1>12 DEF SubmissionInv, NamedApart
<1> QED
    BY <1>1, <1>5, <1>13, SubmissionKeeps

\* A request has its effect: its key was not known, its cart not spent.
LEMMA HandledAnew ==
    ASSUME WebInv, Submitting, NEW request \in Requests, {e \in effects : e.key = request.key} = {},
           request.expected \in {None, row.version}, ~ Spent(row),
           effects' = effects \cup {request},
           row' = IF Submission.expects
                  THEN [version |-> row.version + 1, field |-> [row.field EXCEPT !["choice"] = 1]]
                  ELSE row,
           Requests' \subseteq Requests, UNCHANGED <<page, cache, fetch, draft, intent, holder, nextKey>>
    PROVE  SubmissionInv' /\ RowMoves
<1>1. /\ SubmissionInv /\ page \in AllPages /\ row \in Records /\ WellNamed(page.name, Submission)
      /\ row.version \in Nat /\ row.field \in [Fields -> Values]
    BY PageKinds, RowCopy DEF WebInv
<1>2. Asked' \subseteq Asked /\ request \in Asked /\ Submission' = Submission /\ Holders' = Holders
    BY DEF Asked, Submission, Holders
<1> DEFINE field == [row.field EXCEPT !["choice"] = 1]
<1>3. field \in [Fields -> Values] /\ field["choice"] = 1
    <2>1. 1 \in Values /\ "choice" \in Fields
        BY DEF Values, Fields
    <2> QED
        BY <1>1, <2>1
<1>4. /\ Submission.expects => row' = [version |-> row.version + 1, field |-> field]
      /\ ~ Submission.expects => row' = row
    OBVIOUS
<1> HIDE DEF field
<1>5. RowMoves
    <2>1. CASE Submission.expects
        <3>1. row' = [version |-> row.version + 1, field |-> field]
            BY <1>4, <2>1
        <3>2. [version |-> row.version + 1, field |-> field] \in Records
            BY <1>1, <1>3 DEF Records
        <3> QED
            BY <3>1, <3>2 DEF RowMoves
    <2>2. CASE ~ Submission.expects
        BY <1>4, <2>2, SameRow
    <2> QED
        BY <2>1, <2>2
<1>6. \A e, f \in effects' : e.key = f.key => e = f
    <2>1. \A e \in effects : e.key # request.key
        OBVIOUS
    <2> QED
        BY <1>1, <2>1 DEF SubmissionInv
<1>7. ASSUME NamedApart
      PROVE  KeysAgree'
    <2>1. KeysAgree
        BY <1>1, <1>7 DEF NamedApart, SubmissionInv
    <2>2. ASSUME NEW r \in Asked', r.intent = intent'
          PROVE  PresentKey(r.key)'
        BY <1>1, <1>2, <1>7, <2>1, <2>2, PresentKeyKept DEF KeysAgree
    <2> QED
        BY <1>2, <2>1, <2>2 DEF KeysAgree
<1>8. ASSUME page.name = "checkout"
      PROVE  CartsApart'
    <2>1. CartsApart /\ Submission.expects /\ Submission.spends
        BY <1>1, <1>8 DEF SubmissionInv, WellNamed
    <2>2. request.expected = row.version
        BY <1>2, <2>1, NoneAssumption DEF CartsApart
    <2>3. row'.version = row.version + 1 /\ row'.field["choice"] = 1
        BY <1>3, <1>4, <2>1
    <2>4. \A r \in Asked' : r.expected \in Nat /\ r.expected <= row'.version
        BY <1>1, <1>2, <2>1, <2>3 DEF CartsApart
    <2>5. ASSUME NEW e \in effects'
          PROVE  e.expected < row'.version /\ (e.expected < row.version \/ e = request) /\ e.expected \in Nat
        BY <1>1, <1>2, <2>1, <2>2, <2>3 DEF CartsApart, Asked
    <2>6. ASSUME NEW e \in effects', NEW c \in {row', cache, fetch} \ {None}, c.version > e.expected
          PROVE  Spent(c)' \/ e.intent < intent
        <3>1. CASE c = row'
            BY <1>2, <2>1, <2>3, <3>1 DEF Spent
        <3>2. CASE c \in {cache, fetch}
            <4>1. c.version \in Nat /\ c.version <= row.version
                BY <2>6, <3>2, CopyTyped DEF WebInv, Copy
            <4>2. e # request
                BY <1>1, <2>2, <2>6, <4>1
            <4> QED
                BY <1>2, <2>1, <2>6, <3>2, <4>2 DEF CartsApart, Spent
        <3> QED
            BY <2>6, <3>1, <3>2
    <2>7. ASSUME NEW e \in effects', NEW r \in Asked', e.expected < r.expected
          PROVE  e.intent < r.intent
        <3>1. r.expected \in Nat /\ r.expected <= row.version
            BY <1>2, <2>1 DEF CartsApart
        <3>2. e # request
            BY <1>1, <2>2, <2>7, <3>1
        <3> QED
            BY <1>2, <2>1, <2>7, <3>2 DEF CartsApart
    <2>8. \A e, f \in effects' : e.expected = f.expected => e = f
        BY <1>1, <2>1, <2>2, <2>5 DEF CartsApart
    <2> QED
        BY <2>4, <2>5, <2>6, <2>7, <2>8 DEF CartsApart
<1>9. ASSUME NEW r \in Asked'
      PROVE  /\ r.intent \in Nat /\ r.intent <= intent
             /\ r.intent = intent => draft # None /\ r.payload = draft
    BY <1>1, <1>2 DEF SubmissionInv
<1> QED
    BY <1>1, <1>2, <1>5, <1>6, <1>7, <1>8, <1>9 DEF SubmissionInv, NamedApart

LEMMA HandleRequestStep ==
    ASSUME WebInv, HandleRequest, UNCHANGED batchVars
    PROVE  WebInv'
<1>1. Submitting /\ UNCHANGED <<page, cache, fetch, draft, intent, holder, nextKey>> /\ CallShape
    BY DEF HandleRequest, WebInv, CallShape
<1>2. PICK answered, outcome :
        /\ answered \in {"call", "late"}
        /\ Waiting(answered) /\ Answered(answered, outcome, None)
        /\ \/ UNCHANGED <<row, effects>>
           \/ /\ {e \in effects : e.key = Received(answered).key} = {}
              /\ Received(answered).expected \in {None, row.version} /\ ~ Spent(row)
              /\ effects' = effects \cup {Received(answered)}
              /\ row' = IF Submission.expects
                        THEN [version |-> row.version + 1, field |-> [row.field EXCEPT !["choice"] = 1]]
                        ELSE row
    BY DEF HandleRequest
<1>3. CallShape' /\ Requests' \subseteq Requests /\ Received(answered) \in Requests
    BY <1>1, <1>2, AnsweredCall
<1>4. CASE UNCHANGED <<row, effects>>
    <2>1. RowMoves
        BY <1>4, SameRow
    <2> QED
        BY <1>1, <1>3, <1>4, <2>1, SubmissionRest, SubmissionKeeps
<1>5. CASE ~ UNCHANGED <<row, effects>>
    BY <1>1, <1>2, <1>3, <1>5, HandledAnew, SubmissionKeeps
<1> QED
    BY <1>4, <1>5

LEMMA SubmissionInvStep ==
    ASSUME WebInv, SubmissionStep \/ (Submitting /\ ConnectionStep)
    PROVE  WebInv'
<1>1. CASE SubmissionStep
    BY <1>1, WriteStep, LeaveStep, ShownArrivesStep, OthersWorkStep, FillCartStep, AskStep,
       HandleRequestStep, FulfilledStep, UnfulfilledStep
    DEF SubmissionStep
<1>2. CASE Submitting /\ ConnectionStep
    BY <1>2, SubmissionConnection DEF ConnectionStep
<1> QED
    BY <1>1, <1>2

-----------------------------------------------------------------------------
(* Batches *)

\* What a step of a batch page has to leave behind
LEMMA BatchKeeps ==
    ASSUME WebInv, page.kind = "batch", page' = page, RowMoves, CallShape',
           {cache', fetch'} \subseteq {cache, fetch, row, None}, BatchInv'
    PROVE  WebInv'
<1>1. ~ Editing' /\ ~ Submitting'
    BY DEF Editing, Submitting
<1>2. row \in Records /\ row' \in Records
    BY DEF WebInv, RowMoves
<1>3. \A c \in {cache', fetch'} \ {None} : Copy(c, row')
    BY <1>2, RowCopy, CopyKept DEF WebInv
<1> QED
    BY <1>1, <1>2, <1>3 DEF WebInv, CallShape

\* A step of one page's own
LEMMA UploadKeeps ==
    ASSUME WebInv, Uploading, UNCHANGED <<page, selection>>, RowMoves, CallShape',
           {cache', fetch'} \subseteq {cache, fetch, row, None}, UploadInv'
    PROVE  WebInv'
<1>1. Uploading' /\ ~ Importing' /\ ~ Messaging' /\ ~ Replacing' /\ page.kind = "batch"
    BY PageKinds DEF WebInv, Uploading, Importing, Messaging, Replacing
<1> QED
    BY <1>1, BatchKeeps DEF WebInv, BatchInv

LEMMA ImportKeeps ==
    ASSUME WebInv, Importing, UNCHANGED <<page, selection>>, RowMoves, CallShape',
           {cache', fetch'} \subseteq {cache, fetch, row, None}, ImportInv'
    PROVE  WebInv'
<1>1. Importing' /\ ~ Uploading' /\ ~ Messaging' /\ ~ Replacing' /\ page.kind = "batch"
    BY PageKinds DEF WebInv, Uploading, Importing, Messaging, Replacing
<1> QED
    BY <1>1, BatchKeeps DEF WebInv, BatchInv

LEMMA MessageKeeps ==
    ASSUME WebInv, Messaging, page' = page, RowMoves, CallShape',
           {cache', fetch'} \subseteq {cache, fetch, row, None}, MessageInv',
           selection' = [delivery |-> selection'.delivery, preview |-> selection'.preview],
           selection'.preview \in {None, selection'.delivery}
    PROVE  WebInv'
<1>1. Messaging' /\ ~ Uploading' /\ ~ Importing' /\ ~ Replacing' /\ page.kind = "batch"
    BY PageKinds DEF WebInv, Uploading, Importing, Messaging, Replacing
<1> QED
    BY <1>1, BatchKeeps DEF WebInv, BatchInv

LEMMA ReplacementKeeps ==
    ASSUME WebInv, Replacing, UNCHANGED <<page, selection>>, RowMoves, CallShape',
           {cache', fetch'} \subseteq {cache, fetch, row, None}, ReplacementInv'
    PROVE  WebInv'
<1>1. Replacing' /\ ~ Uploading' /\ ~ Importing' /\ ~ Messaging' /\ page.kind = "batch"
    BY PageKinds DEF WebInv, Uploading, Importing, Messaging, Replacing
<1> QED
    BY <1>1, BatchKeeps DEF WebInv, BatchInv

\* The smallest file of a selection
LEMMA LeastFile ==
    ASSUME NEW S, S \subseteq Nat, S # {}
    PROVE  Min(S) \in S /\ \A y \in S : Min(S) <= y
<1>1. PICK x \in S : \A y \in S : ~ <<y, x>> \in OpToRel(<, Nat)
    BY NatLessThanWellFounded, WFMin
<1>2. ASSUME NEW y \in S
      PROVE  x <= y
    <2>1. y < x => <<y, x>> \in OpToRel(<, Nat)
        BY Zenon DEF OpToRel
    <2>2. ~ (y < x)
        BY <1>1, <2>1, Zenon
    <2> QED
        BY <2>2
<1> QED
    BY <1>2 DEF Min

LEMMA SelectFilesStep ==
    ASSUME WebInv, selectFiles
    PROVE  WebInv'
<1>1. /\ Uploading /\ UNCHANGED <<page, row, cache, fetch, call, late, stored, selection>> /\ call = None
      /\ RowMoves
    BY SameRow DEF selectFiles, clientVars, WebInv, BatchInv, UploadInv
<1>2. PICK chosen \in SUBSET Files : drafts' = [f \in chosen |-> "ready"]
    BY DEF selectFiles
<1>3. UploadInv'
    BY <1>1, <1>2 DEF UploadInv
<1> QED
    BY <1>1, <1>3, UploadKeeps DEF CallShape

LEMMA RemoveDraftStep ==
    ASSUME WebInv, RemoveDraft
    PROVE  WebInv'
<1>1. /\ Uploading /\ UNCHANGED <<page, row, cache, fetch, call, late, stored, selection>> /\ call = None
      /\ RowMoves /\ UploadInv
    BY SameRow DEF RemoveDraft, clientVars, WebInv, BatchInv, UploadInv
<1>2. PICK file : drafts' = [other \in DOMAIN drafts \ {file} |-> drafts[other]]
    BY DEF RemoveDraft
<1>3. UploadInv'
    BY <1>1, <1>2 DEF UploadInv
<1> QED
    BY <1>1, <1>3, UploadKeeps DEF CallShape

LEMMA OwnerArrivesStep ==
    ASSUME WebInv, OwnerArrives
    PROVE  WebInv'
<1>1. /\ Uploading /\ UNCHANGED <<page, row, call, drafts, batch, stored, selection>> /\ RowMoves /\ UploadInv
      /\ cache' = fetch /\ fetch' = None
    BY SameRow DEF OwnerArrives, FetchArrives, batchVars, WebInv, BatchInv
<1>2. UploadInv'
    BY <1>1 DEF UploadInv
<1> QED
    BY <1>1, <1>2, UploadKeeps DEF CallShape, WebInv

LEMMA SubmitUploadsStep ==
    ASSUME WebInv, SubmitUploads
    PROVE  WebInv'
<1>1. /\ Uploading /\ UNCHANGED <<page, row, cache, fetch, call, drafts, stored, selection>> /\ RowMoves
      /\ UploadInv /\ call = None
    BY SameRow DEF SubmitUploads, Idle, clientVars, WebInv, BatchInv
<1>2. UploadInv'
    BY <1>1 DEF UploadInv
<1> QED
    BY <1>1, <1>2, UploadKeeps DEF CallShape

LEMMA UploadNextStep ==
    ASSUME WebInv, UploadNext
    PROVE  WebInv'
<1> DEFINE file == Min(NotUploaded)
           request == [file |-> file, expected |-> batch.version]
<1>1. /\ Uploading /\ batch.running /\ NotUploaded # {} /\ UNCHANGED <<batch, stored, selection>>
      /\ httpRequest(request) /\ drafts' = [drafts EXCEPT ![file] = "uploading"] /\ UploadInv
    BY DEF UploadNext, WebInv, BatchInv
<1>2. /\ CallShape' /\ call'.request = request /\ call'.outcome = None /\ RowMoves
      /\ UNCHANGED <<page, row, cache, fetch>>
    BY <1>1, AskedCall, SameRow
<1>3. NotUploaded \subseteq DOMAIN drafts /\ NotUploaded \subseteq Nat
    BY <1>1 DEF NotUploaded, UploadInv, Files
<1>4. file \in NotUploaded /\ \A f \in NotUploaded : file <= f
    BY <1>1, <1>3, LeastFile
<1>5. call'.request.file = file
    BY <1>2
<1> HIDE DEF file, request
<1>6. ASSUME NEW f \in DOMAIN drafts, f < file
      PROVE  f \in stored
    <2>1. f \in Nat /\ file \in Nat
        BY <1>1, <1>3, <1>4 DEF UploadInv, Files
    <2>2. f \notin NotUploaded
        BY <1>4, <1>6, <2>1
    <2> QED
        BY <1>1, <2>2 DEF NotUploaded, UploadInv
<1>7. DOMAIN drafts' = DOMAIN drafts /\ drafts'[file] = "uploading"
      /\ \A f \in DOMAIN drafts \ {file} : drafts'[f] = drafts[f]
    BY <1>1, <1>3, <1>4
<1>8. None # "ok"
    BY NoneAssumption DEF Outcomes
<1>9. UploadInv'
    BY <1>1, <1>2, <1>3, <1>4, <1>5, <1>6, <1>7, <1>8 DEF UploadInv
<1> QED
    BY <1>1, <1>2, <1>9, UploadKeeps

LEMMA HandleUploadStep ==
    ASSUME WebInv, HandleUpload
    PROVE  WebInv'
<1>1. PICK answered \in {"call", "late"} :
        /\ Waiting(answered)
        /\ \/ /\ stored' = stored \cup {Received(answered).file}
              /\ row' = [row EXCEPT !.version = row.version + 1]
              /\ Answered(answered, "ok", row'.version)
           \/ /\ UNCHANGED <<stored, row>> /\ Answered(answered, "refused", None)
    BY DEF HandleUpload
<1>2. Uploading /\ UNCHANGED <<page, cache, fetch, drafts, batch, selection>> /\ CallShape /\ UploadInv
    BY DEF HandleUpload, WebInv, BatchInv, CallShape
<1>3. RowMoves
    BY <1>1 DEF WebInv, Records, RowMoves
<1>4. PICK outcome, answer :
        /\ Answered(answered, outcome, answer) /\ stored \subseteq stored'
        /\ outcome = "ok" => Received(answered).file \in stored'
    BY <1>1
<1>5. /\ CallShape'
      /\ call' # None => call # None /\ call'.request = call.request
                         /\ (call' = call \/ (answered = "call" /\ call'.outcome = outcome))
    BY <1>1, <1>2, <1>4, AnsweredCall
<1>6. call' # None /\ call'.outcome = "ok" => call'.request.file \in stored'
    BY <1>2, <1>4, <1>5 DEF UploadInv, Received
<1>7. UploadInv'
    BY <1>2, <1>4, <1>5, <1>6 DEF UploadInv
<1> QED
    BY <1>2, <1>3, <1>5, <1>7, UploadKeeps

LEMMA UploadedStep ==
    ASSUME WebInv, Uploaded
    PROVE  WebInv'
<1>1. /\ Uploading /\ UNCHANGED <<page, row, stored, selection>> /\ call' = None /\ CallShape' /\ RowMoves
      /\ call # None /\ call.outcome = "ok" /\ UploadInv /\ cache' = cache /\ fetch' \in {fetch, None}
    BY SettledCall, SameRow DEF Uploaded, Refreshed, WebInv, BatchInv
<1>2. drafts' = [f \in {} |-> "ready"] \/ drafts' = [drafts EXCEPT ![call.request.file] = "uploaded"]
    BY DEF Uploaded
<1>3. UploadInv'
    BY <1>1, <1>2 DEF UploadInv
<1> QED
    BY <1>1, <1>3, UploadKeeps

LEMMA UploadFailedStep ==
    ASSUME WebInv, UploadFailed
    PROVE  WebInv'
<1>1. /\ Uploading /\ UNCHANGED <<page, row, stored, selection>> /\ call' = None /\ CallShape' /\ RowMoves
      /\ UploadInv /\ cache' = cache /\ fetch' = None
    BY SettledCall, SameRow DEF UploadFailed, SettledError, Refreshed, WebInv, BatchInv
<1>2. drafts' = [drafts EXCEPT ![call.request.file] = "error"]
    BY DEF UploadFailed
<1>3. UploadInv'
    BY <1>1, <1>2 DEF UploadInv
<1> QED
    BY <1>1, <1>3, UploadKeeps

\* The import page's own, as a record of its parts
LEMMA ImportFacts ==
    ASSUME WebInv, Importing
    PROVE  ImportInv /\ CallShape /\ Approval \in [key: {call.request.key}, csv: {call.request.csv}]
BY DEF WebInv, BatchInv, CallShape, Approval

\* A step that leaves the calls and the trials alone, and approves nothing new
LEMMA ImportPageStep ==
    ASSUME WebInv, Importing, UNCHANGED <<page, row, cache, fetch, call, validated, selection>>,
           import' = [key |-> import'.key, csv |-> import'.csv, approval |-> import'.approval,
                      confirmed |-> import'.confirmed, reading |-> import'.reading],
           import'.key \in Keys, import'.csv \in Files \cup {None}, import'.reading \subseteq Files,
           import'.approval \in {import.approval, None}
    PROVE  WebInv'
<1>1. ImportInv'
    BY ImportFacts DEF ImportInv
<1> QED
    BY <1>1, SameRow, ImportKeeps, ImportFacts DEF CallShape

LEMMA ImportUserStep ==
    ASSUME WebInv, ChooseFile \/ FileRead \/ FileInvalid \/ ChangeKey \/ Confirm
    PROVE  WebInv'
<1>1. /\ Importing /\ UNCHANGED <<page, row, cache, fetch, call, validated, selection>>
    BY DEF ChooseFile, FileRead, FileInvalid, ChangeKey, Confirm, clientVars, ImportStep
<1>2. ImportInv
    BY <1>1, ImportFacts
<1>3. CASE ChooseFile
    <2>1. PICK f \in Files :
            import' = [import EXCEPT !.csv = None, !.approval = None, !.reading = import.reading \cup {f}]
        BY <1>3 DEF ChooseFile
    <2>2. /\ import' = [key |-> import.key, csv |-> None, approval |-> None,
                        confirmed |-> import.confirmed, reading |-> import.reading \cup {f}]
        BY <1>2, <2>1 DEF ImportInv
    <2> QED
        BY <1>1, <1>2, <2>2, ImportPageStep DEF ImportInv
<1>4. CASE FileRead
    <2>1. PICK f \in import.reading :
            import' = [import EXCEPT !.csv = f, !.reading = import.reading \ {f}]
        BY <1>4 DEF FileRead
    <2>2. /\ import' = [key |-> import.key, csv |-> f, approval |-> import.approval,
                        confirmed |-> import.confirmed, reading |-> import.reading \ {f}]
        BY <1>2, <2>1 DEF ImportInv
    <2> QED
        BY <1>1, <1>2, <2>1, <2>2, ImportPageStep DEF ImportInv
<1>5. CASE FileInvalid
    <2>1. PICK f \in import.reading : import' = [import EXCEPT !.reading = import.reading \ {f}]
        BY <1>5 DEF FileInvalid
    <2>2. /\ import' = [key |-> import.key, csv |-> import.csv, approval |-> import.approval,
                        confirmed |-> import.confirmed, reading |-> import.reading \ {f}]
        BY <1>2, <2>1 DEF ImportInv
    <2> QED
        BY <1>1, <1>2, <2>2, ImportPageStep DEF ImportInv
<1>6. CASE ChangeKey
    <2>1. PICK k \in Keys : import' = [import EXCEPT !.key = k, !.approval = None]
        BY <1>6 DEF ChangeKey
    <2>2. /\ import' = [key |-> k, csv |-> import.csv, approval |-> None,
                        confirmed |-> import.confirmed, reading |-> import.reading]
        BY <1>2, <2>1 DEF ImportInv
    <2> QED
        BY <1>1, <1>2, <2>2, ImportPageStep DEF ImportInv
<1>7. CASE Confirm
    <2>1. import' = [import EXCEPT !.confirmed = ~ import.confirmed]
        BY <1>7 DEF Confirm
    <2>2. /\ import' = [key |-> import.key, csv |-> import.csv, approval |-> import.approval,
                        confirmed |-> ~ import.confirmed, reading |-> import.reading]
        BY <1>2, <2>1 DEF ImportInv
    <2> QED
        BY <1>1, <1>2, <2>2, ImportPageStep DEF ImportInv
<1> QED
    BY <1>3, <1>4, <1>5, <1>6, <1>7

LEMMA SubmitImportStep ==
    ASSUME WebInv, SubmitImport
    PROVE  WebInv'
<1>1. PICK dryRun \in BOOLEAN :
        /\ ~ dryRun => import.approval = [key |-> import.key, csv |-> import.csv]
        /\ httpRequest([dryRun |-> dryRun, key |-> import.key, csv |-> import.csv])
    BY DEF SubmitImport
<1>2. Importing /\ import.csv # None /\ UNCHANGED <<import, validated, selection>> /\ ImportInv
    BY ImportFacts DEF SubmitImport, ImportStep
<1>3. /\ CallShape' /\ UNCHANGED <<page, row, cache, fetch>> /\ RowMoves
      /\ call'.outcome = None
      /\ call'.request = [dryRun |-> dryRun, key |-> import.key, csv |-> import.csv]
    BY <1>1, AskedCall, SameRow
<1>4. None # "ok"
    BY NoneAssumption DEF Outcomes
<1>5. ~ dryRun => <<import.key, import.csv>> \in validated
    <2>1. [key |-> import.key, csv |-> import.csv] \in Trials
        BY <1>2 DEF ImportInv, Trials
    <2> QED
        BY <1>1, <1>2, <2>1, BatchAssumption DEF ImportInv
<1>6. call'.request.key = import.key /\ call'.request.csv = import.csv
      /\ (call'.request.dryRun <=> dryRun)
    BY <1>3
<1>7. ImportInv'
    BY <1>2, <1>3, <1>4, <1>5, <1>6 DEF ImportInv
<1> QED
    BY <1>2, <1>3, <1>7, ImportKeeps

LEMMA HandleImportStep ==
    ASSUME WebInv, HandleImport
    PROVE  WebInv'
<1>1. PICK answered \in {"call", "late"}, valid \in BOOLEAN :
        /\ Waiting(answered) /\ Answered(answered, "ok", valid)
        /\ validated' = IF Received(answered).dryRun /\ valid
                        THEN validated \cup {<<Received(answered).key, Received(answered).csv>>}
                        ELSE validated
    BY DEF HandleImport
<1>2. /\ Importing /\ UNCHANGED <<page, row, cache, fetch, import, selection>>
      /\ ImportInv /\ CallShape /\ RowMoves
    BY ImportFacts, SameRow DEF HandleImport, ImportStep
<1>3. /\ CallShape'
      /\ call' # None => /\ call # None /\ call'.request = call.request
                         /\ call' = call \/ (answered = "call" /\ call'.answer = valid)
    BY <1>1, <1>2, AnsweredCall
<1>4. validated \subseteq validated'
    BY <1>1
<1>5. ASSUME call' # None, ~ call'.request.dryRun \/ (call'.outcome = "ok" /\ call'.answer)
      PROVE  <<call'.request.key, call'.request.csv>> \in validated'
    <2>1. CASE call' = call
        BY <1>2, <1>3, <1>4, <1>5, <2>1 DEF ImportInv
    <2>2. CASE ~ call'.request.dryRun
        BY <1>2, <1>3, <1>4, <1>5, <2>2 DEF ImportInv
    <2>3. CASE call' # call /\ call'.request.dryRun
        <3>1. answered = "call" /\ valid /\ Received(answered) = call.request /\ call.request = call'.request
            BY <1>3, <1>5, <2>3 DEF Received
        <3> QED
            BY <1>1, <2>3, <3>1
    <2> QED
        BY <2>1, <2>2, <2>3
<1>6. ImportInv'
    BY <1>2, <1>3, <1>4, <1>5 DEF ImportInv
<1> QED
    BY <1>2, <1>3, <1>6, ImportKeeps

LEMMA ImportedStep ==
    ASSUME WebInv, Imported
    PROVE  WebInv'
<1>1. /\ Importing /\ UNCHANGED <<page, row, validated, selection>> /\ call' = None /\ CallShape' /\ RowMoves
      /\ call # None /\ call.outcome = "ok" /\ cache' = cache /\ fetch' = None /\ ImportInv
    BY SettledCall, SameRow, ImportFacts DEF Imported, Refreshed, ImportStep
<1>2. PICK approval, confirmed :
        /\ import' = [import EXCEPT !.approval = approval, !.confirmed = confirmed]
        /\ approval \in {import.approval, None} \/ (call.answer /\ approval = Approval)
    <2>1. import' = [import EXCEPT
               !.approval = IF call.request.dryRun /\ call.answer THEN Approval
                            ELSE IF call.request.dryRun \/ call.answer THEN None ELSE import.approval,
               !.confirmed = IF ~ call.request.dryRun /\ call.answer THEN FALSE ELSE import.confirmed]
        BY DEF Imported
    <2> QED
        BY <2>1
<1>3. import' = [key |-> import.key, csv |-> import.csv, approval |-> approval,
                 confirmed |-> confirmed, reading |-> import.reading]
    BY <1>1, <1>2 DEF ImportInv
<1>4. ASSUME approval # None
      PROVE  approval \in Trials /\ <<approval.key, approval.csv>> \in validated
    <2>1. CASE approval = import.approval
        BY <1>1, <1>4, <2>1 DEF ImportInv
    <2>2. CASE call.answer /\ approval = Approval
        <3>1. approval = [key |-> call.request.key, csv |-> call.request.csv]
            BY <2>2 DEF Approval
        <3>2. <<call.request.key, call.request.csv>> \in validated
            BY <1>1, <2>2 DEF ImportInv
        <3> QED
            BY <1>1, <3>1, <3>2 DEF ImportInv, Trials
    <2> QED
        BY <1>2, <1>4, <2>1, <2>2
<1>5. ImportInv'
    BY <1>1, <1>3, <1>4 DEF ImportInv
<1> QED
    BY <1>1, <1>5, ImportKeeps

LEMMA ImportFailedStep ==
    ASSUME WebInv, ImportFailed
    PROVE  WebInv'
<1>1. /\ Importing /\ UNCHANGED <<page, row, cache, fetch, import, validated, selection>>
      /\ call' = None /\ CallShape' /\ RowMoves /\ ImportInv
    BY SettledCall, SameRow, ImportFacts DEF ImportFailed, SettledError, ImportStep
<1>2. ImportInv'
    BY <1>1 DEF ImportInv
<1> QED
    BY <1>1, <1>2, ImportKeeps

LEMMA MessageFacts ==
    ASSUME WebInv, Messaging
    PROVE  /\ MessageInv /\ CallShape
           /\ selection = [delivery |-> selection.delivery, preview |-> selection.preview]
           /\ selection.preview \in {None, selection.delivery}
BY DEF WebInv, BatchInv, CallShape

LEMMA MessageInvStep ==
    ASSUME WebInv,
           selectDeliveryForManagement \/ AskPreview \/ HandlePreview \/ PreviewArrives \/ PreviewFailed
    PROVE  WebInv'
<1>1. CASE selectDeliveryForManagement
    <2>1. PICK d : selection' = [delivery |-> d, preview |-> None]
        BY <1>1 DEF selectDeliveryForManagement
    <2>2. Messaging /\ UNCHANGED <<page, row, cache, fetch, call>> /\ RowMoves
        BY <1>1, SameRow DEF selectDeliveryForManagement, clientVars
    <2>3. MessageInv'
        BY <2>2, MessageFacts DEF MessageInv
    <2> QED
        BY <2>1, <2>2, <2>3, MessageFacts, MessageKeeps DEF CallShape
<1>2. CASE AskPreview
    <2>1. /\ Messaging /\ selection' = [selection EXCEPT !.preview = None]
          /\ httpRequest([delivery |-> selection.delivery])
        BY <1>2 DEF AskPreview
    <2>2. CallShape' /\ call'.outcome = None /\ RowMoves /\ UNCHANGED <<page, row, cache, fetch>>
        BY <2>1, AskedCall, SameRow
    <2>3. selection' = [delivery |-> selection.delivery, preview |-> None]
        BY <2>1, MessageFacts
    <2>4. MessageInv'
        BY <2>2, NoneAssumption DEF MessageInv, Outcomes
    <2> QED
        BY <2>1, <2>2, <2>3, <2>4, MessageKeeps
<1>3. CASE HandlePreview
    <2>1. PICK answered \in {"call", "late"} :
            Waiting(answered) /\ Answered(answered, "ok", Received(answered).delivery)
        BY <1>3 DEF HandlePreview
    <2>2. Messaging /\ UNCHANGED <<page, row, cache, fetch, selection>> /\ RowMoves
        BY <1>3, SameRow DEF HandlePreview
    <2>3. /\ CallShape'
          /\ call' # None =>
               /\ call # None /\ call'.request = call.request
               /\ call' = call \/ (answered = "call" /\ call'.answer = Received(answered).delivery)
        BY <2>1, <2>2, AnsweredCall, MessageFacts
    <2>4. MessageInv'
        BY <2>2, <2>3, MessageFacts DEF MessageInv, Received
    <2> QED
        BY <2>2, <2>3, <2>4, MessageFacts, MessageKeeps
<1>4. CASE PreviewArrives
    <2>1. /\ Messaging /\ UNCHANGED <<page, row, cache, fetch>> /\ RowMoves /\ call' = None /\ CallShape'
          /\ call # None /\ call.outcome = "ok"
        BY <1>4, SettledCall, SameRow DEF PreviewArrives
    <2>2. \/ selection' = selection
          \/ /\ selection.delivery = call.request.delivery
             /\ selection' = [selection EXCEPT !.preview = call.answer]
        BY <1>4 DEF PreviewArrives
    <2>3. /\ selection' = [delivery |-> selection'.delivery, preview |-> selection'.preview]
          /\ selection'.preview \in {None, selection'.delivery}
        BY <2>1, <2>2, MessageFacts DEF MessageInv
    <2>4. MessageInv'
        BY <2>1 DEF MessageInv
    <2> QED
        BY <2>1, <2>3, <2>4, MessageKeeps
<1>5. CASE PreviewFailed
    <2>1. /\ Messaging /\ UNCHANGED <<page, row, cache, fetch, selection>> /\ RowMoves /\ call' = None
          /\ CallShape'
        BY <1>5, SettledCall, SameRow DEF PreviewFailed, SettledError
    <2>2. MessageInv'
        BY <2>1 DEF MessageInv
    <2> QED
        BY <2>1, <2>2, MessageFacts, MessageKeeps
<1> QED
    BY <1>1, <1>2, <1>3, <1>4, <1>5

LEMMA ReplacementFacts ==
    ASSUME WebInv, Replacing
    PROVE  /\ ReplacementInv /\ CallShape
           /\ edit # None => edit = [settings |-> edit.settings, status |-> edit.status,
                                     output |-> edit.output, jobs |-> edit.jobs]
BY DEF WebInv, BatchInv, CallShape, ReplacementInv

\* A step of the image editor: its settings change only while nothing is sent.
LEMMA ImageEditorStep ==
    ASSUME WebInv, Replacing, UNCHANGED <<page, row, call, selection>>,
           {cache', fetch'} \subseteq {cache, fetch, row, None},
           edit' = [settings |-> edit'.settings, status |-> edit'.status, output |-> edit'.output,
                    jobs |-> edit'.jobs],
           edit'.status \notin {"processing", "error"} => edit'.output = edit'.settings,
           call = None \/ edit'.settings = edit.settings
    PROVE  WebInv'
<1>1. ReplacementInv'
    BY ReplacementFacts DEF ReplacementInv
<1> QED
    BY <1>1, SameRow, ReplacementFacts, ReplacementKeeps DEF CallShape

LEMMA ReplacementUserStep ==
    ASSUME WebInv, ChooseReplacement \/ applySettings \/ Processed \/ RetryEdit
    PROVE  WebInv'
<1>1. Replacing /\ UNCHANGED <<page, row, cache, fetch, call, selection>>
    BY DEF ChooseReplacement, applySettings, Processed, RetryEdit, clientVars, ReplacementStep
<1>2. CASE ChooseReplacement
    <2>1. /\ edit' = [settings |-> 0, status |-> "original", output |-> 0, jobs |-> {}]
          /\ call = None
        BY <1>2 DEF ChooseReplacement, Idle
    <2> QED
        BY <1>1, <2>1, ImageEditorStep
<1>3. CASE applySettings
    <2>1. PICK s :
            \/ edit' = [edit EXCEPT !.settings = 0, !.status = "original", !.output = 0]
            \/ edit' = [edit EXCEPT !.settings = s, !.status = "processing", !.jobs = edit.jobs \cup {s}]
        BY <1>3 DEF applySettings
    <2>2. edit # None /\ call = None
        BY <1>3 DEF applySettings, Idle
    <2>3. \/ edit' = [settings |-> 0, status |-> "original", output |-> 0, jobs |-> edit.jobs]
          \/ edit' = [settings |-> s, status |-> "processing", output |-> edit.output,
                      jobs |-> edit.jobs \cup {s}]
        BY <1>1, <2>1, <2>2, ReplacementFacts
    <2> QED
        BY <1>1, <2>2, <2>3, ImageEditorStep
<1>4. CASE Processed
    <2>1. PICK s \in edit.jobs, outcome \in {"edited", "error"} :
            edit' = IF s # edit.settings THEN [edit EXCEPT !.jobs = edit.jobs \ {s}]
                    ELSE [edit EXCEPT !.jobs = edit.jobs \ {s}, !.status = outcome,
                                      !.output = IF outcome = "edited" THEN s ELSE edit.output]
        BY <1>4 DEF Processed
    <2>2. edit # None
        BY <1>4 DEF Processed
    <2>3. \/ edit' = [settings |-> edit.settings, status |-> edit.status, output |-> edit.output,
                      jobs |-> edit.jobs \ {s}]
          \/ /\ s = edit.settings
             /\ edit' = [settings |-> edit.settings, status |-> outcome,
                         output |-> IF outcome = "edited" THEN s ELSE edit.output,
                         jobs |-> edit.jobs \ {s}]
        BY <1>1, <2>1, <2>2, ReplacementFacts
    <2>4. edit.status \notin {"processing", "error"} => edit.output = edit.settings
        BY <1>1, <2>2, ReplacementFacts DEF ReplacementInv
    <2> QED
        BY <1>1, <2>3, <2>4, ImageEditorStep
<1>5. CASE RetryEdit
    <2>1. /\ edit # None
          /\ edit' = [edit EXCEPT !.status = "processing", !.jobs = edit.jobs \cup {edit.settings}]
        BY <1>5 DEF RetryEdit
    <2>2. edit' = [settings |-> edit.settings, status |-> "processing", output |-> edit.output,
                   jobs |-> edit.jobs \cup {edit.settings}]
        BY <1>1, <2>1, ReplacementFacts
    <2> QED
        BY <1>1, <2>2, ImageEditorStep
<1> QED
    BY <1>2, <1>3, <1>4, <1>5

LEMMA ReplacementRequestStep ==
    ASSUME WebInv, ImageArrives \/ SubmitReplacement \/ HandleReplacement \/ ReplacementDone
    PROVE  WebInv'
<1>1. Replacing /\ UNCHANGED <<page, selection>> /\ ReplacementInv /\ CallShape
    BY ReplacementFacts
    DEF ImageArrives, SubmitReplacement, HandleReplacement, ReplacementDone, ReplacementStep,
        FetchArrives, httpRequest, Settled, SettledError
<1>2. CASE ImageArrives
    <2>1. UNCHANGED <<row, call, edit>> /\ cache' = fetch /\ fetch' = None /\ RowMoves
        BY <1>2, SameRow DEF ImageArrives, FetchArrives
    <2>2. ReplacementInv'
        BY <1>1, <2>1 DEF ReplacementInv
    <2> QED
        BY <1>1, <2>1, <2>2, ReplacementKeeps DEF CallShape
<1>3. CASE SubmitReplacement
    <2>1. /\ edit # None /\ edit' = edit /\ edit.status \notin {"processing", "error"}
          /\ httpRequest([output |-> edit.output, expected |-> cache.version])
        BY <1>3 DEF SubmitReplacement
    <2>2. /\ CallShape' /\ RowMoves /\ UNCHANGED <<page, row, cache, fetch>>
          /\ call'.request = [output |-> edit.output, expected |-> cache.version]
        BY <2>1, AskedCall, SameRow
    <2>3. ReplacementInv'
        BY <1>1, <2>1, <2>2 DEF ReplacementInv
    <2> QED
        BY <1>1, <2>2, <2>3, ReplacementKeeps
<1>4. CASE HandleReplacement
    <2>1. PICK answered, outcome :
            /\ answered \in {"call", "late"}
            /\ Waiting(answered) /\ Answered(answered, outcome, None)
            /\ row' = [row EXCEPT !.version = row.version + 1] \/ row' = row
        BY <1>4 DEF HandleReplacement
    <2>2. UNCHANGED <<cache, fetch, edit>>
        BY <1>4 DEF HandleReplacement
    <2>3. RowMoves
        BY <2>1 DEF WebInv, Records, RowMoves
    <2>4. CallShape' /\ (call' # None => call # None /\ call'.request = call.request)
        BY <1>1, <2>1, AnsweredCall
    <2>5. ReplacementInv'
        BY <1>1, <2>2, <2>4 DEF ReplacementInv
    <2> QED
        BY <1>1, <2>2, <2>3, <2>4, <2>5, ReplacementKeeps
<1>5. CASE ReplacementDone
    <2>1. /\ call' = None /\ CallShape' /\ RowMoves /\ cache' = cache /\ fetch' \in {fetch, None}
          /\ edit' = None \/ edit' = edit
        BY <1>5, SettledCall, SameRow DEF ReplacementDone, SettledError, Refreshed
    <2>2. ReplacementInv'
        BY <1>1, <2>1 DEF ReplacementInv
    <2> QED
        BY <1>1, <2>1, <2>2, ReplacementKeeps
<1> QED
    BY <1>2, <1>3, <1>4, <1>5

LEMMA BatchConnection ==
    ASSUME WebInv, page.kind = "batch", FetchServed \/ Lose, UNCHANGED batchVars
    PROVE  WebInv'
<1>1. CASE FetchServed
    <2>1. UNCHANGED <<page, row, cache, call>> /\ fetch' = row /\ RowMoves
        BY <1>1, SameRow DEF FetchServed
    <2>2. BatchInv'
        BY <2>1 DEF WebInv, BatchInv, UploadInv, ImportInv, MessageInv, ReplacementInv, Uploading, Importing,
           Messaging, Replacing, batchVars
    <2> QED
        BY <2>1, <2>2, BatchKeeps DEF WebInv, CallShape
<1>2. CASE Lose
    <2>1. /\ CallShape' /\ UNCHANGED <<page, row, cache, fetch>> /\ RowMoves
          /\ call # None /\ call'.request = call.request /\ call'.outcome = "lost"
        BY <1>2, LostCall, SameRow DEF WebInv, CallShape
    <2>2. BatchInv'
        BY <2>1 DEF WebInv, BatchInv, UploadInv, ImportInv, MessageInv, ReplacementInv, Uploading, Importing,
           Messaging, Replacing, batchVars
    <2> QED
        BY <2>1, <2>2, BatchKeeps
<1> QED
    BY <1>1, <1>2

LEMMA BatchInvStep ==
    ASSUME WebInv, BatchStep \/ (page.kind = "batch" /\ ConnectionStep)
    PROVE  WebInv'
<1>1. CASE BatchStep
    BY <1>1, SelectFilesStep, RemoveDraftStep, OwnerArrivesStep, SubmitUploadsStep, UploadNextStep,
       HandleUploadStep, UploadedStep, UploadFailedStep, ImportUserStep, SubmitImportStep,
       HandleImportStep, ImportedStep, ImportFailedStep, MessageInvStep, ReplacementUserStep,
       ReplacementRequestStep
    DEF BatchStep
<1>2. CASE page.kind = "batch" /\ ConnectionStep
    BY <1>2, BatchConnection DEF ConnectionStep
<1> QED
    BY <1>1, <1>2

-----------------------------------------------------------------------------
(* The invariant and what follows from it *)

LEMMA WebInvInit == WebInit => WebInv
<1> SUFFICES ASSUME WebInit PROVE WebInv
    OBVIOUS
<1>1. /\ page \in Pages /\ row = FirstRow /\ cache = None /\ fetch = None /\ call = None /\ late = None
      /\ form = None /\ draft = None /\ intent = 1 /\ holder = None /\ nextKey = 1 /\ effects = {}
      /\ BatchInit
    BY DEF WebInit, ClientInit, SubmissionInit
<1>2. page \in AllPages
    BY <1>1, PagesAssumption
<1>3. row \in Records
    BY <1>1 DEF FirstRow, Records, Values
<1>4. Requests = {} /\ Asked = {}
    BY <1>1 DEF Requests, Asked
<1>5. EditorInv
    BY <1>1, <1>4 DEF EditorInv
<1>6. SubmissionInv
    BY <1>1, <1>4 DEF SubmissionInv, KeysAgree, CartsApart
<1>7. BatchInv
    BY <1>1 DEF BatchInit, BatchInv, UploadInv, ImportInv, MessageInv, ReplacementInv, Keys
<1> QED
    BY <1>1, <1>2, <1>3, <1>5, <1>6, <1>7 DEF WebInv

LEMMA WebInvNext == WebInv /\ [WebNext]_vars => WebInv'
<1> SUFFICES ASSUME WebInv, [WebNext]_vars PROVE WebInv'
    OBVIOUS
<1>1. Editing \/ Submitting \/ page.kind = "batch"
    BY DEF WebInv, AllPages, EditorPages, SubmissionPages, BatchPages, Editing, Submitting
<1>2. CASE WebNext
    BY <1>1, <1>2, EditorInvStep, SubmissionInvStep, BatchInvStep DEF WebNext
<1>3. CASE UNCHANGED vars
    BY <1>3 DEF vars, clientVars, submissionVars, batchVars, WebInv, EditorInv, FormOK, SaveOK, Copy, Lags,
       Typed, Editor, Requests, Asked, SubmissionInv, Submission, Holders, KeysAgree, PresentKey, Signature, Expected,
       CartsApart, Spent, BatchInv, UploadInv, ImportInv, MessageInv, ReplacementInv, Uploading, Importing,
       Messaging, Replacing, Editing, Submitting
<1> QED
    BY <1>2, <1>3

\* For every set of pages and every bound: forms and requests carry copies of
\* the record, keys belong to wishes, approvals to trials (Next of every page).
THEOREM RequestsStayFit == WebSpec => []WebInv
BY WebInvInit, WebInvNext, PTL DEF WebSpec

LEMMA OneEffect == WebInv => OneEffectPerIntent
<1> SUFFICES ASSUME WebInv, Submitting, Submission.names # "none", page.name # "transfer",
                    NEW e \in effects, NEW f \in effects, e.intent = f.intent
             PROVE  e = f
    BY DEF OneEffectPerIntent
<1>1. SubmissionInv /\ e \in Asked /\ f \in Asked
    BY DEF WebInv, Asked
<1>2. CASE page.name = "checkout"
    <2>1. /\ e.expected \in Nat /\ f.expected \in Nat
          /\ e.expected < f.expected => e.intent < f.intent
          /\ f.expected < e.expected => f.intent < e.intent
          /\ e.expected = f.expected => e = f
        BY <1>1, <1>2 DEF SubmissionInv, CartsApart
    <2> QED
        BY <1>1, <2>1 DEF SubmissionInv
<1>3. CASE page.name # "checkout"
    BY <1>1, <1>3 DEF SubmissionInv, KeysAgree
<1> QED
    BY <1>2, <1>3

LEMMA AnswersFit == WebInv => LateAnswersFit
BY DEF WebInv, BatchInv, UploadInv, ImportInv, ReplacementInv, LateAnswersFit

\* A request of the page is saved by the server alone, while it expects the
\* record that it is saved over.
LEMMA SavedAsExpected ==
    ASSUME WebInv, Editing, [WebNext]_vars, NEW r \in SavedRequests
    PROVE  SaveOK(r, row) /\ Save(r) /\ r.expected \in {None, row.version}
<1>1. \/ call # None /\ call.outcome = None /\ r = call.request /\ call' # None /\ call'.outcome = "ok"
      \/ late # None /\ late' = None /\ row' # row /\ r = late
    BY DEF SavedRequests
<1>2. r \in Requests
    BY <1>1 DEF Requests
<1>3. "ok" # None /\ CallShape
    BY NoneAssumption DEF Outcomes, WebInv, CallShape
<1>4. HandleSave
    <2>1. CASE EditorStep
        <3>1. CASE ReadArrives \/ OpenDialog \/ CloseDialog \/ Type \/ OtherSaves
            BY <1>1, <1>3, <3>1
            DEF ReadArrives, FetchArrives, OpenDialog, CloseDialog, Type, OtherSaves, clientVars
        <3>2. CASE Submit \/ Press
            BY <1>1, <3>2 DEF Submit, Press, httpRequest, Idle
        <3>3. CASE Succeeded \/ Failed
            BY <1>1, <3>3 DEF Succeeded, Failed, SettledError, Settled
        <3> QED
            BY <2>1, <3>1, <3>2, <3>3 DEF EditorStep
    <2>2. CASE ConnectionStep
        <3>1. CASE FetchServed
            BY <1>1, <1>3, <3>1 DEF FetchServed
        <3>2. CASE Lose
            BY <1>1, <1>3, <3>2, LostCall
        <3> QED
            BY <2>2, <3>1, <3>2 DEF ConnectionStep
    <2>3. CASE SubmissionStep \/ BatchStep
        BY <2>3, PageKinds DEF WebInv, SubmissionStep, BatchStep
    <2>4. CASE UNCHANGED vars
        BY <1>1, <1>3, <2>4 DEF vars, clientVars
    <2> QED
        BY <2>1, <2>2, <2>3, <2>4 DEF WebNext
<1>5. PICK answered \in {"call", "late"} :
        /\ Waiting(answered)
        /\ \/ /\ Received(answered).expected \in {None, row.version}
              /\ Save(Received(answered)) /\ Answered(answered, "ok", row')
           \/ UNCHANGED row /\ Answered(answered, "refused", None)
    BY <1>4 DEF HandleSave
<1>6. Received(answered) = r /\ Save(r) /\ r.expected \in {None, row.version}
    <2>1. CASE answered = "call"
        <3>1. late' = late /\ call # None /\ Received(answered) = call.request
            BY <1>5, <2>1 DEF Answered, Waiting, Received
        <3>2. r = call.request /\ call'.outcome = "ok"
            BY <1>1, <3>1
        <3>3. ~ Answered(answered, "refused", None)
            BY <1>3, <2>1, <3>1, <3>2 DEF Answered, CallShape
        <3> QED
            BY <1>5, <3>1, <3>2, <3>3
    <2>2. CASE answered = "late"
        <3>1. call' = call /\ Received(answered) = late
            BY <1>5, <2>2 DEF Answered, Received
        <3>2. row' # row /\ r = late
            BY <1>1, <1>3, <3>1
        <3> QED
            BY <1>5, <3>1, <3>2
    <2> QED
        BY <2>1, <2>2
<1> QED
    BY <1>2, <1>6 DEF WebInv, EditorInv

\* What expects a version was decided on the record as it is.
LEMMA ShownIsCurrent ==
    ASSUME NEW r, SaveOK(r, row), r.expected \in {None, row.version}, Editor.versioned
    PROVE  r.shown = row
<1>1. Copy(r.shown, row) /\ r.expected = r.shown.version
    BY DEF SaveOK
<1>2. r.shown.version # None
    BY <1>1, CopyTyped, NoneAssumption
<1> QED
    BY <1>1, <1>2 DEF Copy

\* For every set of pages and every bound: the server does one thing for one
\* wish of the user, however often it was asked for (HandleRequest, Ask).
THEOREM WishesFulfilledOnce == WebSpec => []OneEffectPerIntent
BY RequestsStayFit, OneEffect, PTL

\* For every set of pages and every bound: what a batch page does next fits the
\* answer it rests on (SubmitImport, PreviewArrives, SubmitReplacement, UploadNext).
THEOREM AnswersOnTime == WebSpec => []LateAnswersFit
BY RequestsStayFit, AnswersFit, PTL

\* For every set of pages and every bound: what is saved from a form mounted for
\* one version, a dialog or a button was decided on the record as it was and
\* changes only what was typed (HandleSave, ExpectedVersion, Following).
THEOREM SavesDecidedOnCurrent == WebSpec => DecidedOnCurrent
<1>1. ASSUME WebInv, [WebNext]_vars, Editing, page.name \notin MountedForms, Editor.versioned,
             NEW r \in SavedRequests
      PROVE  /\ r.shown = row
             /\ \A f \in DOMAIN r.entry \ r.touched : row'.field[f] = row.field[f]
    <2>1. SaveOK(r, row) /\ Save(r) /\ r.expected \in {None, row.version} /\ row \in Records
        BY <1>1, SavedAsExpected DEF WebInv
    <2>2. r.shown = row
        BY <1>1, <2>1, ShownIsCurrent
    <2>3. ~ Lags
        BY <1>1, PageKinds DEF WebInv, WellMade, Lags
    <2>4. ASSUME NEW f \in DOMAIN r.entry \ r.touched PROVE row'.field[f] = row.field[f]
        <3>1. row'.field[f] = r.entry[f]
            BY <2>1, SavedRow
        <3>2. r.entry[f] = r.shown.field[f]
            BY <2>1, <2>3 DEF SaveOK
        <3> QED
            BY <2>2, <3>1, <3>2
    <2> QED
        BY <2>2, <2>4
<1>2. WebInv /\ [WebNext]_vars =>
        [ Editing /\ page.name \notin MountedForms /\ Editor.versioned =>
            \A r \in SavedRequests :
                /\ r.shown = row
                /\ \A f \in DOMAIN r.entry \ r.touched : row'.field[f] = row.field[f] ]_vars
    BY <1>1
<1> QED
    BY <1>2, RequestsStayFit, PTL DEF WebSpec, DecidedOnCurrent
=============================================================================
