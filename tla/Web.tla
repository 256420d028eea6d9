-------------------------------- MODULE Web --------------------------------
(* The web client: one page at a time, with the server it talks to, another  *)
(* user, and a connection that loses answers.                                *)
EXTENDS WebEditors, WebSubmissions, WebBatches

vars == <<clientVars, form, submissionVars, batchVars>>

AllPages == EditorPages \cup SubmissionPages \cup BatchPages

ASSUME PagesAssumption == Pages \subseteq AllPages

WebInit ==
    /\ ClientInit
    /\ form = None
    /\ SubmissionInit
    /\ BatchInit

EditorStep ==
    /\ Editing
    /\ \/ ReadArrives \/ OpenDialog \/ CloseDialog \/ Type \/ Submit \/ Press
       \/ HandleSave \/ OtherSaves \/ Succeeded \/ Failed
    /\ UNCHANGED <<submissionVars, batchVars>>

SubmissionStep ==
    /\ Submitting
    /\ \/ Write \/ Leave \/ ShownArrives \/ OthersWork \/ FillCart \/ Ask
       \/ HandleRequest \/ Fulfilled \/ Unfulfilled
    /\ UNCHANGED <<form, batchVars>>

BatchStep ==
    /\ page.kind = "batch"
    /\ \/ selectFiles \/ RemoveDraft \/ OwnerArrives \/ SubmitUploads
       \/ UploadNext \/ HandleUpload \/ Uploaded \/ UploadFailed
       \/ ChooseFile \/ FileRead \/ FileInvalid \/ ChangeKey \/ Confirm
       \/ SubmitImport \/ HandleImport \/ Imported \/ ImportFailed
       \/ selectDeliveryForManagement \/ AskPreview \/ HandlePreview
       \/ PreviewArrives \/ PreviewFailed
       \/ ChooseReplacement \/ ImageArrives \/ applySettings \/ Processed
       \/ RetryEdit \/ SubmitReplacement \/ HandleReplacement \/ ReplacementDone
    /\ UNCHANGED <<form, submissionVars>>

\* Reads matter to the pages that show a record.
ShowsRecord ==
    Editing \/ Uploading \/ Replacing \/ (Submitting /\ Submission.expects)

ConnectionStep ==
    /\ (ShowsRecord /\ FetchServed) \/ Lose
    /\ UNCHANGED <<form, submissionVars, batchVars>>

WebNext == EditorStep \/ SubmissionStep \/ BatchStep \/ ConnectionStep

WebSpec == WebInit /\ [][WebNext]_vars

-----------------------------------------------------------------------------
(* Properties *)

\* The request of this page's own that a step saves, as a set.
SavedRequests ==
    {r \in (IF call # None /\ call.outcome = None THEN {call.request} ELSE {}) :
        call' # None /\ call'.outcome = "ok"}
    \cup (IF late # None /\ late' = None /\ row' # row THEN {late} ELSE {})

\* The form of a product's variant, which stays mounted while its list is read
VariantPage == {p \in EditorPages : p.name = "variant"}

\* Forms that stay mounted while the record they show changes.
MountedForms ==
    {"variant", "zone", "rate", "threshold", "image", "notes", "assignment",
     "unassignment", "transition", "manifest", "coverage", "adjustment", "mediaReview"}

\* An accepted save changes only what its editor changed: a field that another
\* administrator saved meanwhile is not put back by a form that never touched
\* it ("A mismatch returns a conflict; it must not be silently overwritten",
\* docs/DATABASE.md).
OthersWorkKept ==
    [][ Editing =>
        \A r \in SavedRequests : \A f \in DOMAIN r.entry \ r.touched :
            row'.field[f] = row.field[f] ]_vars

\* What is saved from a form mounted for one version, from a dialog or by a
\* button was decided on the record as it was when the server saved it, however
\* late the request got there, and changes only what its editor changed. Except
\* what has no version: the quantity of a cart line, a wish, a session.
DecidedOnCurrent ==
    [][ Editing /\ page.name \notin MountedForms /\ Editor.versioned =>
        \A r \in SavedRequests :
            /\ r.shown = row
            /\ \A f \in DOMAIN r.entry \ r.touched : row'.field[f] = row.field[f] ]_vars

\* The server does at most one thing for one wish of the user, although answers
\* were lost and the user asked again, and although a request given up on was
\* handled after all. Not so for a transfer asked again after its source was
\* read anew, nor for what has neither key nor code.
OneEffectPerIntent ==
    Submitting /\ Submission.names # "none" /\ page.name # "transfer" =>
        \A e, f \in effects : e.intent = f.intent => e = f

\* What a page does next fits the answer it rests on, however late the answer
\* came: only a trialled file is applied, a preview is the selected delivery's,
\* an image is sent as its editor shows it, and a batch of uploads resumes with
\* the first file not confirmed, in order.
LateAnswersFit ==
    /\ Importing /\ call # None /\ ~call.request.dryRun =>
           <<call.request.key, call.request.csv>> \in validated
    /\ selection.preview \in {None, selection.delivery}
    /\ Replacing /\ call # None => call.request.output = edit.settings
    /\ Uploading /\ call # None => /\ drafts[call.request.file] # "uploaded"
                                   /\ \A f \in DOMAIN drafts :
                                        f < call.request.file => f \in stored

-----------------------------------------------------------------------------
(* The inductive invariant of the proofs *)

\* The requests that may still have an effect, and those that had one
Requests ==
    (IF call # None THEN {call.request} ELSE {}) \cup (IF late # None THEN {late} ELSE {})

Asked == Requests \cup effects

\* A copy of the record is older than the record is now, or the same.
Copy(c, now) ==
    c \in Records /\ c.version <= now.version /\ (c.version = now.version => c = now)

\* A form that stays mounted may hold what an older copy said.
Lags == Editor.follows = "bound"

\* A form is about the copy in the cache, or the one its dialog was opened on,
\* and shows that where nothing was typed if it does not lag.
FormOK(shown, copy, now) ==
    /\ shown \in [base: Records, touched: SUBSET Fields, entry: [Editor.fields -> Entries]]
    /\ Copy(shown.base, now)
    /\ Editor.follows # "dialog" => shown.base = copy
    /\ Editor.follows = "dialog" /\ ~ Typed => "choice" \in shown.touched
    /\ \A f \in Editor.fields \ shown.touched : Lags \/ shown.entry[f] = shown.base.field[f]

\* A request names the version of the record it was made for, and carries what
\* that said where nothing was typed, unless its form lags.
SaveOK(r, now) ==
    /\ DOMAIN r.entry \subseteq Fields /\ r.entry \in [DOMAIN r.entry -> Values]
    /\ Copy(r.shown, now)
    /\ r.expected = IF Editor.versioned THEN r.shown.version ELSE None
    /\ \A f \in DOMAIN r.entry \ r.touched :
         Editor.versioned /\ (Lags \/ r.entry[f] = r.shown.field[f])

EditorInv ==
    /\ form # None \/ call # None => FormOK(form, cache, row)
    /\ \A r \in Requests : SaveOK(r, row)
    /\ call # None /\ call.outcome = "ok" => Copy(call.answer, row)

\* The key of what the user wants now, if it was asked for
PresentKey(key) ==
    CASE Submission.names \in {"payload", "subject"} ->
             holder # None /\ holder.signature = Signature /\ holder.key = key
      [] Submission.names = "code" -> key = draft
      [] OTHER -> key = 1

\* One wish is asked for under one key.
KeysAgree ==
    /\ \A r \in Asked : r.intent = intent => PresentKey(r.key)
    /\ \A q, r \in Asked : q.intent = r.intent => q.key = r.key

\* A cart is ordered once, and whoever orders a later one has wished for it
\* since.
CartsApart ==
    /\ \A r \in Asked : r.expected \in Nat /\ r.expected <= row.version
    /\ \A e \in effects :
         /\ e.expected < row.version
         /\ \A c \in {row, cache, fetch} \ {None} : c.version > e.expected => Spent(c) \/ e.intent < intent
         /\ \A r \in Asked : e.expected < r.expected => e.intent < r.intent
    /\ \A e, f \in effects : e.expected = f.expected => e = f

SubmissionInv ==
    /\ draft \in Entries \cup {None} /\ intent \in Nat
    /\ holder \in Holders \cup {None} /\ nextKey \in Nat
    /\ \A r \in Asked :
         /\ r.intent \in Nat /\ r.intent <= intent
         /\ r.intent = intent => draft # None /\ r.payload = draft
    /\ \A e, f \in effects : e.key = f.key => e = f
    /\ Submission.names # "none" /\ page.name \notin {"checkout", "transfer"} => KeysAgree
    /\ page.name = "checkout" => CartsApart

\* What was confirmed is stored, and files before the one being sent were
\* confirmed.
UploadInv ==
    /\ DOMAIN drafts \subseteq Files
    /\ \A f \in DOMAIN drafts : drafts[f] = "uploaded" => f \in stored
    /\ call # None =>
         /\ batch.running
         /\ call.request.file \in DOMAIN drafts /\ drafts[call.request.file] # "uploaded"
         /\ \A f \in DOMAIN drafts : f < call.request.file => f \in stored
         /\ call.outcome = "ok" => call.request.file \in stored

\* The approval is of a file and key that passed a trial.
ImportInv ==
    /\ import = [key |-> import.key, csv |-> import.csv, approval |-> import.approval,
                 confirmed |-> import.confirmed, reading |-> import.reading]
    /\ import.key \in Keys /\ import.csv \in Files \cup {None} /\ import.reading \subseteq Files
    /\ import.approval # None =>
         import.approval \in Trials /\ <<import.approval.key, import.approval.csv>> \in validated
    /\ call # None =>
         /\ call.request.key \in Keys /\ call.request.csv \in Files
         /\ ~ call.request.dryRun \/ (call.outcome = "ok" /\ call.answer) =>
              <<call.request.key, call.request.csv>> \in validated

\* An answer is the preview of the delivery it was asked for.
MessageInv ==
    call # None /\ call.outcome = "ok" => call.answer = call.request.delivery

\* An editor at rest holds what its settings make.
ReplacementInv ==
    /\ edit # None =>
         /\ edit = [settings |-> edit.settings, status |-> edit.status, output |-> edit.output,
                    jobs |-> edit.jobs]
         /\ edit.status \notin {"processing", "error"} => edit.output = edit.settings
    /\ call # None => call.request.output = edit.settings

BatchInv ==
    /\ Uploading => UploadInv
    /\ Importing => ImportInv
    /\ Messaging => MessageInv
    /\ Replacing => ReplacementInv
    /\ selection = [delivery |-> selection.delivery, preview |-> selection.preview]
    /\ selection.preview \in {None, selection.delivery}

WebInv ==
    /\ page \in AllPages
    /\ row \in Records
    /\ \A c \in {cache, fetch} \ {None} : Copy(c, row)
    /\ call # None =>
         call = [request |-> call.request, outcome |-> call.outcome, answer |-> call.answer]
    /\ Editing => EditorInv
    /\ Submitting => SubmissionInv
    /\ BatchInv
=============================================================================
