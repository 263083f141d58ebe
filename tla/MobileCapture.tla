----------------------------- MODULE MobileCapture -----------------------------
(***************************************************************************)
(* Receipts photographed on a phone: the relay that numbers them (external,*)
(* relay-service/server.mjs), the background intake                        *)
(* (mobile_capture_background.rs) and the screen that both fetch them, the *)
(* capture Inbox (mobile_capture_inbox.rs) up to the import run a capture  *)
(* is promoted to, and the document vault the images live in.              *)
(*                                                                         *)
(* A closure of AppState::with_connection is one action, vault calls       *)
(* included; import_start and import_rollback touch the vault outside it   *)
(* and are split there.  An image stands for its bytes and its digest, and *)
(* also names the receipt ingest_local makes of it.  A capture the relay   *)
(* has is published and never changes.  RETRY_BACKOFF and next_due_at only *)
(* delay, so an enabled schedule may be due; suspended is terminal.  The   *)
(* poller and the command that asks for an intake now are one worker.      *)
(* Discarding a capture only hides it, and hides no row from any of this.  *)
(***************************************************************************)
EXTENDS Naturals, FiniteSets

CONSTANTS
  Images,          \* images, by digest
  MaxCaptures,     \* captures the relay numbers
  RelayPage,       \* PAGE_SIZE of the relay
  MaxMobileFaults  \* crashes, lease expiries and failed transactions considered

Captures == 1..MaxCaptures
Artifacts == Captures \cup Images
Intakes == {"worker", "screen"}
NoIntake == [pc |-> "idle", token |-> 0, page |-> {}, next |-> 0]

VARIABLES
  photo,      \* relay: the image of each capture and whether another device took it
  published,  \* relay: the captures numbered so far
  cursor,     \* family_delivery_connections.capture_inbound_cursor
  intakeOn,   \* mobile_capture_schedules: [enabled, suspended, token, live]
  intake,     \* per intake: pc, lease, what is left of the page, its boundary
  captures,   \* mobile_capture_inbox: the state of each artifact
  documents,  \* source_documents by digest: the status of their run, or "none"
  imageVault, \* the images in the vault
  upload,     \* a manual import of an image: [pc, image, fresh]
  cleanup,    \* images whose run import_rollback has just deleted
  mobileFaults

mobileVars ==
  <<photo, published, cursor, intakeOn, intake, captures, documents, imageVault,
    upload, cleanup, mobileFaults>>
intakeVars == <<cursor, intakeOn, intake>>
reviewVars == <<documents, upload, cleanup>>

ImageOf(a) == IF a \in Captures THEN photo[a].image ELSE a
Other(c) == photo[c].other

MobileInit ==
  /\ photo \in [Captures -> [image : Images, other : BOOLEAN]]
  /\ published = 0
  /\ cursor = 0
  /\ intakeOn = [enabled |-> FALSE, suspended |-> FALSE, token |-> 0, live |-> FALSE]
  /\ intake = [i \in Intakes |-> NoIntake]
  /\ captures = [a \in Artifacts |-> "ABSENT"]
  /\ documents = [i \in Images |-> "none"]
  /\ imageVault = {}
  /\ upload = [pc |-> "idle", image |-> "none", fresh |-> FALSE]
  /\ cleanup = {}
  /\ mobileFaults = 0

Faulty == mobileFaults < MaxMobileFaults /\ mobileFaults' = mobileFaults + 1

----------------------------------------------------------------------------
(* The relay *)

publish_capture ==
  /\ published < MaxCaptures
  /\ published' = published + 1
  /\ UNCHANGED <<photo, intakeVars, captures, reviewVars, imageVault, mobileFaults>>

\* GET captures: the first ones of other devices after a cursor, and the cursor
\* to go on from, which also passes the ones left out.
Matching(after) == {c \in 1..published : c > after /\ Other(c)}
PageAfter(after) ==
  {c \in Matching(after) : Cardinality({d \in Matching(after) : d <= c}) <= RelayPage}
BoundaryAfter(after, next) ==
  IF Cardinality(Matching(after)) >= RelayPage
  THEN next \in PageAfter(after) /\ \A c \in PageAfter(after) : c <= next
  ELSE next = published

----------------------------------------------------------------------------
(* The intake schedule *)

configure(enabled) ==
  /\ intakeOn' = [enabled |-> enabled, suspended |-> FALSE, token |-> 0, live |-> FALSE]
  /\ UNCHANGED <<photo, published, cursor, intake, captures, reviewVars, imageVault, mobileFaults>>

recover_expired(s) ==
  IF s.enabled /\ s.token # 0 /\ ~s.live THEN [s EXCEPT !.token = 0] ELSE s

\* mobile_capture_background::status.
background_status ==
  /\ intakeOn' = recover_expired(intakeOn)
  /\ intakeOn' # intakeOn
  /\ UNCHANGED <<photo, published, cursor, intake, captures, reviewVars, imageVault, mobileFaults>>

Due(s) == s.enabled /\ s.token = 0 /\ ~s.suspended
NewLease == CHOOSE t \in 1..2 : t # intakeOn.token /\ \A i \in Intakes : intake[i].token # t

\* claim_next_due by the poller; request_now and claim_due by the command.  A
\* schedule whose lease was just recovered is due only later.
claim_due(i) ==
  /\ i # "screen" /\ intake[i].pc = "idle" /\ Due(intakeOn)
  /\ intakeOn' = [intakeOn EXCEPT !.token = NewLease, !.live = TRUE]
  /\ intake' = [intake EXCEPT ![i] = [NoIntake EXCEPT !.pc = "list", !.token = NewLease]]
  /\ UNCHANGED <<photo, published, cursor, captures, reviewVars, imageVault, mobileFaults>>

assert_lease(token) == intakeOn.enabled /\ intakeOn.token = token /\ intakeOn.live

Allowed(i) == i = "screen" \/ assert_lease(intake[i].token)

GivesUp(i) == IF i = "screen" THEN NoIntake ELSE [intake[i] EXCEPT !.pc = "failed", !.page = {}]

\* The cursor is read, then the page is listed after it.
list_captures(i) ==
  /\ intake[i].pc = IF i = "screen" THEN "idle" ELSE "list"
  /\ \/ ~Allowed(i) /\ intake' = [intake EXCEPT ![i] = GivesUp(i)]
     \/ /\ Allowed(i)
        /\ \E next \in 0..published :
             /\ BoundaryAfter(cursor, next)
             /\ intake' = [intake EXCEPT ![i] =
                  [@ EXCEPT !.pc = "page", !.page = PageAfter(cursor), !.next = next]]
  /\ UNCHANGED <<photo, published, cursor, intakeOn, captures, reviewVars, imageVault, mobileFaults>>

----------------------------------------------------------------------------
(* Storing a capture *)

advance_cursor(next) == IF cursor <= next THEN next ELSE cursor

\* Mutant: the cursor is advanced although the transaction was rolled back.
ingest_not_atomic(i, c, stored) ==
  /\ cursor' = IF i = "screen" THEN cursor ELSE advance_cursor(c)
  /\ captures' = IF stored THEN [captures EXCEPT ![c] = IF @ = "ABSENT" THEN "RECEIVED" ELSE @] ELSE captures
  /\ imageVault' = IF stored THEN imageVault \cup {ImageOf(c)} ELSE imageVault

\* ingest_with_cursor by the worker, ingest by the screen: a known capture only
\* moves the cursor; otherwise the image is put into the vault, and receipt,
\* Inbox row and cursor are stored together, or the new image is deleted again.
ingest_with_cursor(i, c, stored) ==
  /\ cursor' = IF stored /\ i # "screen" THEN advance_cursor(c) ELSE cursor
  /\ captures' = IF stored /\ captures[c] = "ABSENT" THEN [captures EXCEPT ![c] = "RECEIVED"] ELSE captures
  /\ imageVault' = IF stored /\ captures[c] = "ABSENT" THEN imageVault \cup {ImageOf(c)} ELSE imageVault

\* The first capture of the page: its digest is compared, the lease renewed and
\* asserted, the capture stored.
receive_capture(i, c, stored) ==
  /\ intake[i].pc = "page" /\ c \in intake[i].page /\ \A d \in intake[i].page : c <= d
  /\ IF stored THEN UNCHANGED mobileFaults ELSE Faulty
  /\ IF Allowed(i)
     THEN /\ ingest_with_cursor(i, c, stored)
          /\ intake' = [intake EXCEPT ![i] =
               IF stored THEN [@ EXCEPT !.page = intake[i].page \ {c}] ELSE GivesUp(i)]
     ELSE /\ intake' = [intake EXCEPT ![i] = GivesUp(i)]
          /\ UNCHANGED <<cursor, captures, imageVault>>
  /\ UNCHANGED <<photo, published, intakeOn, reviewVars>>

\* update_cursor when the page reaches further than its last capture.
update_cursor(i) ==
  /\ intake[i].pc = "page" /\ intake[i].page = {}
  /\ cursor' = IF Allowed(i) THEN advance_cursor(intake[i].next) ELSE cursor
  /\ intake' = [intake EXCEPT ![i] =
       IF i = "screen" THEN NoIntake
       ELSE [@ EXCEPT !.pc = IF Allowed(i) /\ cursor <= intake[i].next THEN "done" ELSE "failed"]]
  /\ UNCHANGED <<photo, published, intakeOn, captures, reviewVars, imageVault, mobileFaults>>

\* Mutant: the token is cleared and the expiry kept.
expiry_kept(s, terminal) == [s EXCEPT !.token = 0, !.suspended = terminal]

released(s, terminal) == [s EXCEPT !.token = 0, !.live = FALSE, !.suspended = terminal]

\* finish: the lease is released if it is still the worker's own; a terminal
\* failure suspends the schedule.
finish(i, terminal) ==
  /\ intake[i].pc \in {"done", "failed"} /\ (terminal => intake[i].pc = "failed")
  /\ intakeOn' = IF intakeOn.enabled /\ intakeOn.token = intake[i].token
                 THEN released(intakeOn, terminal)
                 ELSE intakeOn
  /\ intake' = [intake EXCEPT ![i] = NoIntake]
  /\ UNCHANGED <<photo, published, cursor, captures, reviewVars, imageVault, mobileFaults>>

\* A receipt chosen on the desktop: its image is known, or a new row is made.
ingest_local(image) ==
  LET known == {a \in Artifacts : captures[a] # "ABSENT" /\ ImageOf(a) = image}
  IN /\ imageVault' = imageVault \cup {image}
     /\ captures' = IF known = {} THEN [captures EXCEPT ![image] = "RECEIVED"] ELSE captures
     /\ UNCHANGED <<photo, published, intakeVars, documents, upload, cleanup, mobileFaults>>

----------------------------------------------------------------------------
(* Reading and promoting a capture *)

\* mobile_capture_ocr and record_extraction.
record_extraction(a) ==
  /\ captures[a] \in {"RECEIVED", "OCR_REVIEW_REQUIRED"} /\ ImageOf(a) \in imageVault
  /\ captures' = [captures EXCEPT ![a] = "OCR_READY"]
  /\ UNCHANGED <<photo, published, intakeVars, reviewVars, imageVault, mobileFaults>>

mark_ocr_review_required(a) ==
  /\ captures[a] = "OCR_READY"
  /\ captures' = [captures EXCEPT ![a] = "OCR_REVIEW_REQUIRED"]
  /\ UNCHANGED <<photo, published, intakeVars, reviewVars, imageVault, mobileFaults>>

\* The image's document is found again, or becomes a new run in review.
promote(a) ==
  /\ captures[a] \in {"OCR_READY", "OCR_REVIEW_REQUIRED"}
  /\ captures' = [captures EXCEPT ![a] = IF documents[ImageOf(a)] # "none" THEN "DUPLICATE" ELSE "PROMOTED"]
  /\ documents' = [documents EXCEPT ![ImageOf(a)] = IF @ # "none" THEN @ ELSE "REVIEW"]
  /\ UNCHANGED <<photo, published, intakeVars, imageVault, upload, cleanup, mobileFaults>>

----------------------------------------------------------------------------
(* Other imports of the same images *)

\* import_start puts the bytes into the vault before it takes the connection.
upload_put(image) ==
  /\ upload.pc = "idle"
  /\ upload' = [pc |-> "start", image |-> image, fresh |-> image \notin imageVault]
  /\ imageVault' = imageVault \cup {image}
  /\ UNCHANGED <<photo, published, intakeVars, captures, documents, cleanup, mobileFaults>>

upload_start(accepted) ==
  /\ upload.pc = "start"
  /\ documents' = IF accepted /\ documents[upload.image] = "none"
                  THEN [documents EXCEPT ![upload.image] = "REVIEW"] ELSE documents
  /\ imageVault' = IF ~accepted /\ upload.fresh THEN imageVault \ {upload.image} ELSE imageVault
  /\ upload' = [upload EXCEPT !.pc = "idle", !.image = "none", !.fresh = FALSE]
  /\ UNCHANGED <<photo, published, intakeVars, captures, cleanup, mobileFaults>>

commit_image(image) ==
  /\ documents[image] = "REVIEW"
  /\ documents' = [documents EXCEPT ![image] = "POSTED"]
  /\ UNCHANGED <<photo, published, intakeVars, captures, imageVault, upload, cleanup, mobileFaults>>

\* Mutant: a document a capture points to is deleted.
unrestricted(image) == TRUE

\* local_document_id REFERENCES source_documents ON DELETE RESTRICT.
deletable(image) ==
  \A a \in Artifacts : captures[a] \in {"PROMOTED", "DUPLICATE"} => ImageOf(a) # image

\* import_rollback: the document goes, then, the connection released, the
\* vault object no document refers to.
rollback_image(image) ==
  /\ documents[image] = "REVIEW" /\ deletable(image)
  /\ documents' = [documents EXCEPT ![image] = "none"]
  /\ cleanup' = cleanup \cup {image}
  /\ UNCHANGED <<photo, published, intakeVars, captures, imageVault, upload, mobileFaults>>

rollback_cleanup(image) ==
  /\ image \in cleanup
  /\ cleanup' = cleanup \ {image}
  /\ imageVault' = IF documents[image] = "none" THEN imageVault \ {image} ELSE imageVault
  /\ UNCHANGED <<photo, published, intakeVars, captures, documents, upload, mobileFaults>>

----------------------------------------------------------------------------
(* Time and crashes *)

IntakeLeaseExpires ==
  /\ intakeOn.live /\ Faulty
  /\ intakeOn' = [intakeOn EXCEPT !.live = FALSE]
  /\ UNCHANGED <<photo, published, cursor, intake, captures, reviewVars, imageVault>>

MobileCrash ==
  /\ Faulty
  /\ intake' = [i \in Intakes |-> NoIntake]
  /\ upload' = [upload EXCEPT !.pc = "idle", !.image = "none", !.fresh = FALSE]
  /\ cleanup' = {}
  /\ UNCHANGED <<photo, published, cursor, intakeOn, captures, documents, imageVault>>

MobileIntake ==
  \/ publish_capture \/ background_status
  \/ \E enabled \in BOOLEAN : configure(enabled)
  \/ \E i \in Intakes :
       \/ claim_due(i) \/ list_captures(i) \/ update_cursor(i)
       \/ \E ok \in BOOLEAN :
            \/ \E c \in Captures : receive_capture(i, c, ok)
            \/ i # "screen" /\ finish(i, ok)

MobileReview ==
  \/ \E a \in Artifacts : record_extraction(a) \/ mark_ocr_review_required(a) \/ promote(a)
  \/ \E image \in Images :
       \/ ingest_local(image) \/ upload_put(image) \/ commit_image(image)
       \/ rollback_image(image) \/ rollback_cleanup(image)
  \/ \E ok \in BOOLEAN : upload_start(ok)

MobileNext == MobileIntake \/ MobileReview \/ IntakeLeaseExpires \/ MobileCrash

MobileSpec == MobileInit /\ [][MobileNext]_mobileVars

----------------------------------------------------------------------------

\* Rows and program counters are ones the tables and the code can hold; the
\* stored cursor never runs ahead of what the relay has numbered.
MobileTypeOK ==
  /\ cursor \in 0..published
  /\ captures \in [Artifacts -> {"ABSENT", "RECEIVED", "OCR_READY", "OCR_REVIEW_REQUIRED", "PROMOTED", "DUPLICATE"}]
  /\ documents \in [Images -> {"none", "REVIEW", "POSTED"}]
  /\ \A i \in Intakes : intake[i].pc \in {"idle", "list", "page", "done", "failed"}
  /\ intakeOn.live => intakeOn.token # 0

\* The cursor never passes a capture that was not stored: whatever the two
\* intakes of this device overlap, fail, crash or lose their lease at, every
\* capture of another device up to the cursor has its Inbox row
\* (ingest_with_cursor publishes both in one transaction).
NothingSkipped ==
  \A c \in Captures : c <= cursor /\ Other(c) => captures[c] # "ABSENT"

\* A capture that was promoted, or recognised as a duplicate, still has the
\* document it was resolved to, whatever is rolled back afterwards.
PromotedHasDocument ==
  \A a \in Artifacts : captures[a] \in {"PROMOTED", "DUPLICATE"} => documents[ImageOf(a)] # "none"

\* The image of a received capture stays on this device
\* (CaptureInboxWorkspace.tsx tells the user so when it cannot show one).
CaptureKeepsImage ==
  \A a \in Artifacts : captures[a] # "ABSENT" => ImageOf(a) \in imageVault
==============================================================================
