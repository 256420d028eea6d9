----------------------------- MODULE WebBatches ----------------------------
(* The pages that hold more than one step of a request: the upload of        *)
(* several images, the trial and the application of a status file, the       *)
(* message previewed for the delivery selected, and the image edited before  *)
(* it is sent.                                                               *)
EXTENDS WebClient, FiniteSetsExt

CONSTANT
    MaxFiles     \* files selected together, and files to choose from

VARIABLES
    drafts,      \* the upload page's files and what became of each
    batch,       \* the version the batch goes on from, and whether it runs
    stored,      \* the images the server holds
    import,      \* the import page: key, file, approval, confirmation, reads
    validated,   \* trials the server found valid
    selection,   \* the delivery selected and the preview shown
    edit         \* the image to put in another's place, and its editor, or None

batchVars == <<drafts, batch, stored, import, validated, selection, edit>>

Files == 1 .. MaxFiles
Keys == 1 .. 2
Deliveries == 1 .. 2

Trials == [key: Keys, csv: Files]

ASSUME BatchAssumption == MaxFiles \in Nat /\ None \notin Trials

BatchInit ==
    /\ drafts = [f \in {} |-> "ready"]
    /\ batch = [version |-> 0, running |-> FALSE]
    /\ stored = {}
    /\ import = [key |-> 1, csv |-> None, approval |-> None,
                 confirmed |-> FALSE, reading |-> {}]
    /\ validated = {}
    /\ selection = [delivery |-> None, preview |-> None]
    /\ edit = None

-----------------------------------------------------------------------------
(* Upload of several images *)

Uploading == page.name = "upload"
NotUploaded == {f \in DOMAIN drafts : drafts[f] # "uploaded"}

selectFiles ==
    /\ Uploading /\ ~batch.running
    /\ \E chosen \in SUBSET Files \ {{}} :
          drafts' = [f \in chosen |-> "ready"]
    /\ batch' = [batch EXCEPT !.version = 0]
    /\ UNCHANGED <<clientVars, stored, import, validated, selection, edit>>

RemoveDraft ==
    /\ Uploading /\ ~batch.running
    /\ \E f \in NotUploaded :
          drafts' = [other \in DOMAIN drafts \ {f} |-> drafts[other]]
    /\ UNCHANGED <<clientVars, batch, stored, import, validated, selection, edit>>

OwnerArrives ==
    /\ Uploading
    /\ FetchArrives
    /\ UNCHANGED batchVars

\* The batch goes on from the later of its own version and the shown one.
SubmitUploads ==
    /\ Uploading /\ Idle /\ ~batch.running
    /\ NotUploaded # {} /\ cache # None
    /\ batch' = [running |-> TRUE,
                 version |-> Max({batch.version, cache.version})]
    /\ UNCHANGED <<clientVars, drafts, stored, import, validated, selection, edit>>

\* The files are sent one after the other, those confirmed before left out.
UploadNext ==
    /\ Uploading /\ batch.running /\ NotUploaded # {}
    /\ httpRequest([file |-> Min(NotUploaded), expected |-> batch.version])
    /\ drafts' = [drafts EXCEPT ![Min(NotUploaded)] = "uploading"]
    /\ UNCHANGED <<batch, stored, import, validated, selection, edit>>

\* The server refuses an image it holds and a version that has passed.
HandleUpload ==
    /\ Uploading
    /\ \E answered \in {"call", "late"} :
          /\ Waiting(answered)
          /\ LET request == Received(answered)
             IN  IF request.expected = row.version /\ request.file \notin stored
                 THEN /\ stored' = stored \cup {request.file}
                      /\ row' = [row EXCEPT !.version = @ + 1]
                      /\ Answered(answered, "ok", row'.version)
                 ELSE /\ UNCHANGED <<stored, row>>
                      /\ Answered(answered, "refused", None)
    /\ UNCHANGED <<page, cache, fetch, losses, drafts, batch, import, validated,
                   selection, edit>>

\* The next file expects the version this one left; the last one ends the batch.
Uploaded ==
    /\ Uploading
    /\ Settled({"ok"})
    /\ LET file == call.request.file
           done == NotUploaded = {file}
       IN  /\ drafts' = IF done THEN [f \in {} |-> "ready"]
                        ELSE [drafts EXCEPT ![file] = "uploaded"]
           /\ batch' = IF done THEN [version |-> 0, running |-> FALSE]
                       ELSE [batch EXCEPT !.version = call.answer]
           /\ Refreshed(None, done)
    /\ UNCHANGED <<stored, import, validated, selection, edit>>

\* The first failure ends the batch: the file stays staged.
UploadFailed ==
    /\ Uploading
    /\ SettledError
    /\ drafts' = [drafts EXCEPT ![call.request.file] = "error"]
    /\ batch' = [batch EXCEPT !.running = FALSE]
    /\ Refreshed(None, TRUE)
    /\ UNCHANGED <<stored, import, validated, selection, edit>>

-----------------------------------------------------------------------------
(* Import of delivery statuses *)

Importing == page.name = "import"

ImportStep == UNCHANGED <<drafts, batch, stored, selection, edit>>

\* A file is read while the page goes on: what was read lands when it is ready.
ChooseFile ==
    /\ Importing /\ Idle
    /\ \E f \in Files :
          import' = [import EXCEPT !.csv = None, !.approval = None,
                                   !.reading = @ \cup {f}]
    /\ UNCHANGED <<clientVars, validated>> /\ ImportStep

FileRead ==
    /\ Importing
    /\ \E f \in import.reading :
          import' = [import EXCEPT !.csv = f, !.reading = @ \ {f}]
    /\ UNCHANGED <<clientVars, validated>> /\ ImportStep

FileInvalid ==
    /\ Importing
    /\ \E f \in import.reading : import' = [import EXCEPT !.reading = @ \ {f}]
    /\ UNCHANGED <<clientVars, validated>> /\ ImportStep

ChangeKey ==
    /\ Importing /\ Idle
    /\ \E k \in Keys \ {import.key} :
          import' = [import EXCEPT !.key = k, !.approval = None]
    /\ UNCHANGED <<clientVars, validated>> /\ ImportStep

Confirm ==
    /\ Importing /\ Idle
    /\ import' = [import EXCEPT !.confirmed = ~@]
    /\ UNCHANGED <<clientVars, validated>> /\ ImportStep

\* To apply a file takes a confirmation and the trial of this file and key.
SubmitImport ==
    /\ Importing /\ import.csv # None
    /\ \E dryRun \in BOOLEAN :
          /\ ~dryRun => /\ import.confirmed
                        /\ import.approval = [key |-> import.key, csv |-> import.csv]
          /\ httpRequest([dryRun |-> dryRun, key |-> import.key, csv |-> import.csv])
    /\ UNCHANGED <<import, validated>> /\ ImportStep

\* The server finds a file valid or not, and says the same of an application.
HandleImport ==
    /\ Importing
    /\ \E answered \in {"call", "late"}, valid \in BOOLEAN :
          /\ Waiting(answered)
          /\ LET request == Received(answered)
             IN  validated' = IF request.dryRun /\ valid
                              THEN validated \cup {<<request.key, request.csv>>}
                              ELSE validated
          /\ Answered(answered, "ok", valid)
    /\ UNCHANGED <<page, row, cache, fetch, losses, import>> /\ ImportStep

\* Mutant: the approval names what the page holds by now.
ApprovalOfPage == [key |-> import.key, csv |-> import.csv]

\* The approval names what the trial was made of.
Approval == [key |-> call.request.key, csv |-> call.request.csv]

Imported ==
    /\ Importing
    /\ Settled({"ok"})
    /\ LET request == call.request
       IN  import' = [import EXCEPT
               !.approval = IF request.dryRun /\ call.answer THEN Approval
                            ELSE IF request.dryRun \/ call.answer THEN None ELSE @,
               !.confirmed = IF ~request.dryRun /\ call.answer THEN FALSE ELSE @]
    /\ Refreshed(None, TRUE)
    /\ UNCHANGED validated /\ ImportStep

ImportFailed ==
    /\ Importing
    /\ SettledError
    /\ UNCHANGED <<cache, fetch, import, validated>> /\ ImportStep

-----------------------------------------------------------------------------
(* The message for a courier *)

Messaging == page.name = "message"

MessageStep == UNCHANGED <<drafts, batch, stored, import, validated, edit>>

selectDeliveryForManagement ==
    /\ Messaging
    /\ \E d \in Deliveries : selection' = [delivery |-> d, preview |-> None]
    /\ UNCHANGED clientVars /\ MessageStep

AskPreview ==
    /\ Messaging /\ selection.delivery # None
    /\ httpRequest([delivery |-> selection.delivery])
    /\ selection' = [selection EXCEPT !.preview = None]
    /\ MessageStep

HandlePreview ==
    /\ Messaging
    /\ \E answered \in {"call", "late"} :
          /\ Waiting(answered)
          /\ Answered(answered, "ok", Received(answered).delivery)
    /\ UNCHANGED <<page, row, cache, fetch, losses, selection>> /\ MessageStep

\* An answer for a delivery no longer selected is dropped.
PreviewArrives ==
    /\ Messaging
    /\ Settled({"ok"})
    /\ selection' = IF selection.delivery = call.request.delivery
                    THEN [selection EXCEPT !.preview = call.answer] ELSE selection
    /\ UNCHANGED <<cache, fetch>> /\ MessageStep

PreviewFailed ==
    /\ Messaging
    /\ SettledError
    /\ UNCHANGED <<cache, fetch, selection>> /\ MessageStep

-----------------------------------------------------------------------------
(* An image edited to take another's place *)

Replacing == page.name = "replacement"
ReplacementStep == UNCHANGED <<drafts, batch, stored, import, validated, selection>>

\* What the editor can make of a file; 0 leaves it as it is.
Settings == 0 .. 2

\* A file opens an editor of its own: the work of the one before is dropped.
ChooseReplacement ==
    /\ Replacing /\ Idle
    /\ edit' = [settings |-> 0, status |-> "original", output |-> 0, jobs |-> {}]
    /\ UNCHANGED clientVars /\ ReplacementStep

ImageArrives ==
    /\ Replacing
    /\ FetchArrives
    /\ UNCHANGED edit /\ ReplacementStep

applySettings ==
    /\ Replacing /\ Idle /\ edit # None
    /\ \E s \in Settings \ {edit.settings} :
          edit' = IF s = 0
                  THEN [edit EXCEPT !.settings = 0, !.status = "original", !.output = 0]
                  ELSE [edit EXCEPT !.settings = s, !.status = "processing",
                                    !.jobs = @ \cup {s}]
    /\ UNCHANGED clientVars /\ ReplacementStep

\* A file is processed while the settings go on: what was made of settings
\* given up since is dropped.
Processed ==
    /\ Replacing /\ edit # None
    /\ \E s \in edit.jobs, outcome \in {"edited", "error"} :
          edit' = IF s # edit.settings THEN [edit EXCEPT !.jobs = @ \ {s}]
                  ELSE [edit EXCEPT !.jobs = @ \ {s}, !.status = outcome,
                                    !.output = IF outcome = "edited" THEN s ELSE @]
    /\ UNCHANGED clientVars /\ ReplacementStep

RetryEdit ==
    /\ Replacing /\ Idle /\ edit # None /\ edit.status = "error"
    /\ edit' = [edit EXCEPT !.status = "processing", !.jobs = @ \cup {edit.settings}]
    /\ UNCHANGED clientVars /\ ReplacementStep

SubmitReplacement ==
    /\ Replacing /\ edit # None /\ cache # None
    /\ edit.status \notin {"processing", "error"}
    /\ cache.version <= MaxVersion
    /\ httpRequest([output |-> edit.output, expected |-> cache.version])
    /\ UNCHANGED edit /\ ReplacementStep

HandleReplacement ==
    /\ Replacing
    /\ \E answered \in {"call", "late"} :
          /\ Waiting(answered)
          /\ IF Received(answered).expected = row.version
             THEN /\ row' = [row EXCEPT !.version = @ + 1]
                  /\ Answered(answered, "ok", None)
             ELSE /\ UNCHANGED row
                  /\ Answered(answered, "refused", None)
    /\ UNCHANGED <<page, cache, fetch, losses, edit>> /\ ReplacementStep

\* A success opens the form anew, a failure keeps the edited file.
ReplacementDone ==
    /\ Replacing
    /\ \/ Settled({"ok"}) /\ edit' = None /\ Refreshed(None, TRUE)
       \/ SettledError /\ UNCHANGED <<edit, cache, fetch>>
    /\ ReplacementStep

BatchPages ==
    {[name |-> n, kind |-> "batch"] : n \in {"upload", "import", "message", "replacement"}}
=============================================================================
