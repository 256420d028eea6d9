----------------------------- MODULE WebEditors ----------------------------
(* The pages that show a versioned record and send changes to it. A form     *)
(* follows the cached copy of its record in one of several ways, and the     *)
(* version it sends is the copy's or the one its dialog was opened on.       *)
EXTENDS WebClient

VARIABLE
    form   \* what the page's form holds, or None when there is none

\* How a page treats its form. follows: it is mounted anew for every version
\* ("keyed"), stays mounted while only its version follows ("bound"), is a
\* dialog opened on the record ("dialog"), or only has buttons that act on the
\* record shown ("command"). controlled: an input shows the record until it is
\* typed into. fields: what it sends. offers: what its buttons
\* make of the choice shown. empty: it starts empty, not with the record.
\* skips: an unchanged entry is not sent. locks: inputs are disabled while a
\* mutation is pending. adopts: the answer becomes the copy. rereads: a success
\* fetches it anew. clears: a success empties the form. versioned: a request
\* expects the version it was made for.
Page(follows, fields) ==
    [follows |-> follows, fields |-> fields,
     offers |-> [shown \in Values |-> {shown}],
     controlled |-> FALSE, empty |-> FALSE, skips |-> FALSE, locks |-> FALSE,
     adopts |-> FALSE, rereads |-> TRUE, clears |-> FALSE, versioned |-> TRUE]

\* Buttons that turn a state over, that only lead on from one, and that name
\* one of several outcomes whatever is shown.
Toggle == [shown \in Values |-> {1 - shown}]
Forward == [shown \in Values |-> IF shown = 0 THEN {1} ELSE {}]
AnyOutcome == [shown \in Values |-> Values]

-----------------------------------------------------------------------------
(* Editors: the inputs a form has, and how it follows its record *)

\* One value, typed or picked: the form is mounted anew either way.
SettingFields == {"text"}
SettingForm == [Page("keyed", SettingFields) EXCEPT !.skips = TRUE]

ProductFields == {"text", "choice"}

ProductForm == [Page("keyed", ProductFields) EXCEPT !.adopts = TRUE]

CourierFields == {"text", "choice"}
CourierForm == [Page("keyed", CourierFields) EXCEPT !.locks = TRUE]

VariantFields == {"text", "choice"}
VariantForm == Page("bound", VariantFields)

DeliveryZoneFields == {"text", "choice"}
DeliveryZoneForm ==
    [Page("bound", DeliveryZoneFields) EXCEPT !.adopts = TRUE, !.locks = TRUE]

DeliveryRateFields == {"text"}
DeliveryRateForm ==
    [Page("bound", DeliveryRateFields) EXCEPT !.controlled = TRUE, !.adopts = TRUE, !.skips = TRUE,
                                              !.locks = TRUE, !.clears = TRUE]

ThresholdFields == {"text"}
ThresholdForm == [Page("bound", ThresholdFields) EXCEPT !.skips = TRUE]

ImageFields == {"text"}
ImageForm == Page("bound", ImageFields)

InternalNotesForm == [Page("bound", {"text"}) EXCEPT !.locks = TRUE]

-----------------------------------------------------------------------------
(* Forms that start empty and name what is to be done to the record shown *)

Picked(fields) == [Page("bound", fields) EXCEPT !.empty = TRUE, !.locks = TRUE]

DeliveryAssignment == [Picked({"choice"}) EXCEPT !.clears = TRUE]

\* A reason has to be given.
DeliveryUnassignment == [Picked({"text"}) EXCEPT !.clears = TRUE]

DeliveryTransition == Picked({"choice"})

ManifestTransition == [Picked({"choice"}) EXCEPT !.clears = TRUE]

CoverageFields == {"choice"}
ZoneCoverage == [Picked(CoverageFields) EXCEPT !.clears = TRUE]

AdjustmentFields == {"text", "choice"}
StockAdjustment ==
    [Picked(AdjustmentFields) EXCEPT !.locks = FALSE, !.clears = TRUE]

MediaReviewFields == {"text"}
MediaReviewConfirmation == [Picked(MediaReviewFields) EXCEPT !.clears = TRUE]

-----------------------------------------------------------------------------
(* Dialogs, opened from a list by the button that names what they will do *)

AddressFields == {"text", "choice"}
AddressDialog ==
    [Page("dialog", AddressFields) EXCEPT !.adopts = TRUE, !.clears = TRUE]

DeleteAddressDialog ==
    [Page("dialog", {"choice"}) EXCEPT !.offers = Forward, !.clears = TRUE]

LifecycleDialog(offers) ==
    [Page("dialog", {"choice"}) EXCEPT !.offers = offers, !.clears = TRUE]

AdministratorActions == LifecycleDialog(Toggle)
CustomerActions == LifecycleDialog(Toggle)

\* A session has no version: it is ended, whatever it has become.
SessionRevocation == [LifecycleDialog(Forward) EXCEPT !.versioned = FALSE]

-----------------------------------------------------------------------------
(* Buttons *)

Button(offers) ==
    [Page("command", {"choice"}) EXCEPT !.offers = offers, !.locks = TRUE]

ProductLifecycle == Button(Toggle)
VariantLifecycle == Button(Toggle)
ZoneActivation == Button(Toggle)
RateActivation == Button(Toggle)
PickupActivation == Button(Toggle)
CourierCard == Button(Toggle)
CompleteDelivery == Button(Forward)
DeliveryAttempt == Button(AnyOutcome)
MediaAction == Button(AnyOutcome)
MediaModeration == Button(Forward)
TaxonomyPublication == [Button(Forward) EXCEPT !.adopts = TRUE]

\* What an order may become is offered for the status shown.
OrderButtons == Forward
OrderProgress == [Button(OrderButtons) EXCEPT !.adopts = TRUE]

\* Cancelling takes the answer for the order and fetches only the list anew.
CustomerCancel == [Button(Forward) EXCEPT !.adopts = TRUE, !.rereads = FALSE]

\* The quantity of a cart line is set, whatever it has become.
CartQuantity ==
    [Button(Toggle) EXCEPT !.adopts = TRUE, !.rereads = FALSE, !.versioned = FALSE]

\* A product is saved to the wishlist or taken off it, as is a customer signed
\* out of every session.
WishlistButton == [Button(Toggle) EXCEPT !.versioned = FALSE]
WishlistRemoval == [Button(Forward) EXCEPT !.versioned = FALSE]
CustomerSignOut == [Button(Forward) EXCEPT !.versioned = FALSE]

Editors == [
    setting |-> SettingForm, product |-> ProductForm, courier |-> CourierForm,
    variant |-> VariantForm, zone |-> DeliveryZoneForm, rate |-> DeliveryRateForm,
    threshold |-> ThresholdForm, image |-> ImageForm,
    notes |-> InternalNotesForm,
    assignment |-> DeliveryAssignment, transition |-> DeliveryTransition,
    manifest |-> ManifestTransition, coverage |-> ZoneCoverage,
    adjustment |-> StockAdjustment, mediaReview |-> MediaReviewConfirmation,
    address |-> AddressDialog, addressRemoval |-> DeleteAddressDialog,
    administrator |-> AdministratorActions, customer |-> CustomerActions,
    productState |-> ProductLifecycle, variantState |-> VariantLifecycle,
    zoneState |-> ZoneActivation, rateState |-> RateActivation,
    pickupState |-> PickupActivation, courierState |-> CourierCard,
    completion |-> CompleteDelivery, mediaState |-> MediaAction,
    moderation |-> MediaModeration,
    unassignment |-> DeliveryUnassignment, attempt |-> DeliveryAttempt,
    session |-> SessionRevocation,
    wish |-> WishlistButton, wishRemoval |-> WishlistRemoval,
    signOut |-> CustomerSignOut,
    taxonomy |-> TaxonomyPublication, cartLine |-> CartQuantity,
    order |-> OrderProgress, customerOrder |-> CustomerCancel]

EditorPages ==
    {[name |-> n, kind |-> "editor", ways |-> Editors[n]] : n \in DOMAIN Editors}
Editor == page.ways
Editing == page.kind = "editor"

-----------------------------------------------------------------------------
(* A form and the copy it shows *)

\* What is typed into an input starts as the record, or as nothing at all.
FormOf(record) ==
    [base |-> record, touched |-> {},
     entry |-> IF Editor.empty THEN [f \in Editor.fields |-> Unreadable]
               ELSE [f \in Editor.fields |-> record.field[f]]]

\* Under a stable key React keeps what an input, a checkbox or a select was
\* mounted with: a later defaultValue does not reach an input whose value was
\* set. (It reaches an optional one mounted empty; no entry here is.) A
\* controlled input shows the record until it is typed into.
BoundTo(record) ==
    [form EXCEPT !.base = record,
                 !.entry = [f \in Editor.fields |->
                     IF Editor.controlled /\ f \notin form.touched
                     THEN record.field[f] ELSE form.entry[f]]]

\* The form once the copy is record.
Following(record) ==
    CASE Editor.follows = "dialog" -> form
      [] Editor.follows # "dialog" /\ form = None -> FormOf(record)
      [] Editor.follows \in {"keyed", "command"} /\ form # None ->
             IF record = form.base THEN form ELSE FormOf(record)
      [] Editor.follows = "bound" /\ form # None -> BoundTo(record)

ReadArrives ==
    /\ Editing
    /\ FetchArrives
    /\ form' = Following(fetch)

\* The choice is a select of the form, not the button that opened it.
Typed == \A shown \in Values : Editor.offers[shown] = {shown}

\* A dialog keeps the record of the list it was opened on until it is closed.
OpenDialog ==
    /\ Editing /\ Editor.follows = "dialog"
    /\ Idle /\ form = None /\ cache # None
    /\ \E target \in Editor.offers[cache.field["choice"]] :
          form' = IF Typed THEN FormOf(cache)
                  ELSE [FormOf(cache) EXCEPT !.entry["choice"] = target,
                                             !.touched = {"choice"}]
    /\ UNCHANGED clientVars

CloseDialog ==
    /\ Editing /\ Editor.follows = "dialog"
    /\ Idle /\ form # None
    /\ form' = None
    /\ UNCHANGED clientVars

Type ==
    /\ Editing /\ Editor.follows # "command" /\ form # None
    /\ Editor.locks => Idle
    /\ \E f \in Editor.fields : \E entry \in Entries \ {form.entry[f]} :
          /\ f = "choice" => entry \in Values /\ Typed
          /\ form' = [form EXCEPT !.entry[f] = entry,
                                  !.touched = @ \cup {f}]
    /\ UNCHANGED clientVars

-----------------------------------------------------------------------------
(* Sending it *)

\* Mutant: the version of the list, whatever record the form was opened on.
ExpectedOfList == cache.version

\* The version a request expects of the record.
ExpectedVersion ==
    IF Editor.follows = "dialog" THEN form.base.version ELSE cache.version

Expects == IF Editor.versioned THEN ExpectedVersion ELSE None

Request(entry, touched) ==
    [expected |-> Expects, entry |-> entry, touched |-> touched,
     shown |-> form.base]

\* Parsers and schemas refuse what they cannot read before anything is sent.
Readable == \A f \in Editor.fields : form.entry[f] # Unreadable

\* Requests without a version are always saved: not more of them than this.
Bounded == ~Editor.versioned => row.version <= MaxVersion

Submit ==
    /\ Editing /\ Editor.follows # "command" /\ form # None /\ cache # None
    /\ Readable
    /\ ExpectedVersion <= MaxVersion /\ Bounded
    /\ Editor.skips => \E f \in Editor.fields : form.entry[f] # cache.field[f]
    /\ httpRequest(Request(form.entry, form.touched))
    /\ UNCHANGED form

Press ==
    /\ Editing /\ Editor.follows = "command" /\ form # None
    /\ ExpectedVersion <= MaxVersion /\ Bounded
    /\ \E target \in Editor.offers[cache.field["choice"]] :
          httpRequest(Request([f \in {"choice"} |-> target], {"choice"}))
    /\ UNCHANGED form

\* The server saves a request that expects the version it has, or none.
Save(request) ==
    row' = [version |-> row.version + 1,
            field |-> [f \in Fields |-> IF f \in DOMAIN request.entry
                                        THEN request.entry[f] ELSE row.field[f]]]

HandleSave ==
    /\ Editing
    /\ \E answered \in {"call", "late"} :
          /\ Waiting(answered)
          /\ LET request == Received(answered)
             IN  IF request.expected \in {None, row.version}
                 THEN Save(request) /\ Answered(answered, "ok", row')
                 ELSE UNCHANGED row /\ Answered(answered, "refused", None)
    /\ UNCHANGED <<page, cache, fetch, losses, form>>

\* Another administrator, or another window, saves the record.
OtherSaves ==
    /\ Editing
    /\ row.version < MaxVersion
    /\ \E field \in [Fields -> Values] :
          row' = [version |-> row.version + 1, field |-> field]
    /\ UNCHANGED <<page, cache, fetch, call, late, losses, form>>

-----------------------------------------------------------------------------
(* What became of it *)

Succeeded ==
    /\ Editing
    /\ Settled({"ok"})
    /\ LET adopted == IF Editor.adopts THEN call.answer ELSE None
           after   == IF Editor.adopts THEN Following(adopted) ELSE form
       IN  /\ Refreshed(adopted, Editor.rereads)
           /\ form' = CASE ~Editor.clears -> after
                        [] Editor.clears /\ Editor.follows = "dialog" -> None
                        [] Editor.clears /\ Editor.follows = "bound" -> FormOf(after.base)

\* A conflict leaves the form as it is; only a rate's is fetched anew for it.
Failed ==
    /\ Editing
    /\ SettledError
    /\ Refreshed(None, page.name = "rate" /\ call.outcome = "refused")
    /\ UNCHANGED form

=============================================================================
