------------------------------ MODULE FolderInbox ------------------------------
(***************************************************************************)
(* One file of one watched local folder, from the disk to an import run.   *)
(* The background worker (folder_discovery.rs) and the manual scan read    *)
(* the folder outside the connection mutex and reconcile what they saw     *)
(* under it; the screen reads and previews what is discovered              *)
(* (refreshFolderInbox) and imports previews (startTrackedImport) over the *)
(* rows of WatchedStore.                                                   *)
(*                                                                         *)
(* Each command is one action; the screen is external code and is modelled *)
(* by the commands it sends.  A generation of the file has bytes of its    *)
(* own, and a run is found again by its bytes (import_start is idempotent  *)
(* by SHA-256 unless the run was rolled back).  The screen works on one    *)
(* row at a time here: two jobs on different rows do not meet, and a row   *)
(* is previewed or imported, never both.                                   *)
(***************************************************************************)
EXTENDS WatchedStore, FiniteSets

CONSTANTS
  Versions,      \* generations of the file: 1..n
  MaxEvents,     \* changes on disk and crashes considered
  MaxRegistrations

ASSUME FolderAssumption ==
  /\ Versions \subseteq Nat \ {0} /\ IsFiniteSet(Versions) /\ 1 \in Versions
  /\ MaxAttemptsOnDisk \in Nat

NoVersion == 0
Scanners == {"worker", "manual"}

VARIABLES
  disk,       \* the generation on disk, NoVersion when the file is gone
  events,     \* changes on disk and crashes so far
  folder,     \* the enabled watched_folders row (its id), 0 for none
  issued,     \* folder ids issued
  files,      \* watched_file_inbox, one row per generation
  scan,       \* per scanner: the registration it scans for and what it saw
  job,        \* what the screen does with one row: preview or import it
  previews,   \* the generations of which the screen holds a preview: the bytes
  fileRuns,   \* import_runs: the latest run of each generation's bytes
  listed,     \* history: the generation the last reconciled scan saw
  reopened    \* history: staged generations retried since

folderVars ==
  <<disk, events, folder, issued, files, scan, job, previews, fileRuns, listed, reopened>>

NoFile ==
  [state |-> "ABSENT", tries |-> 0, token |-> NoClaimToken, live |-> FALSE,
   origin |-> "none", run |-> 0]
NoScan == [plan |-> 0, saw |-> NoVersion]
NoJob == [pc |-> "idle", gen |-> 0, token |-> NoClaimToken, bytes |-> 0]

FolderInit ==
  /\ disk = 1
  /\ events = 0
  /\ folder = 0
  /\ issued = 0
  /\ files = [g \in Versions |-> NoFile]
  /\ scan = [s \in Scanners |-> NoScan]
  /\ job = NoJob
  /\ previews = [g \in Versions |-> 0]
  /\ fileRuns = [g \in Versions |-> "none"]
  /\ listed = NoVersion
  /\ reopened = {}

\* A claim token is a new UUID.
ClaimsInUse == {files[g].token : g \in Versions} \cup {job.token}
FreshClaim == CHOOSE t \in 1..(Cardinality(Versions) + 2) : t \notin ClaimsInUse

----------------------------------------------------------------------------
(* The disk and the registration *)

DiskChange ==
  /\ events < MaxEvents
  /\ events' = events + 1
  /\ disk' \in (Versions \cup {NoVersion}) \ {disk}
  /\ UNCHANGED <<folder, issued, files, scan, job, previews, fileRuns, listed, reopened>>

register_with_source ==
  /\ folder = 0 /\ issued < MaxRegistrations
  /\ issued' = issued + 1
  /\ folder' = issued + 1
  /\ UNCHANGED <<disk, events, files, scan, job, previews, fileRuns, listed, reopened>>

\* The Inbox rows go with the folder (ON DELETE CASCADE).
remove ==
  /\ folder # 0
  /\ folder' = 0
  /\ files' = [g \in Versions |-> NoFile]
  /\ listed' = NoVersion
  /\ reopened' = {}
  /\ UNCHANGED <<disk, events, issued, scan, job, previews, fileRuns>>

----------------------------------------------------------------------------
(* Scanning: prepare and traverse, then reconcile under the mutex *)

prepare_registered_scan(s) ==
  /\ scan[s] = NoScan /\ folder # 0
  /\ scan' = [scan EXCEPT ![s] = [plan |-> folder, saw |-> disk]]
  /\ UNCHANGED <<disk, events, folder, issued, files, job, previews, fileRuns, listed, reopened>>

validate_registered_scan_plan(plan) == folder = plan

\* finish_registered_state_scan and finish_prepared_refresh.
finish_scan(s) ==
  /\ scan[s] # NoScan
  /\ IF validate_registered_scan_plan(scan[s].plan)
     THEN /\ files' = [g \in Versions |-> reconcile_row(files[g], g, scan[s].saw)]
          /\ listed' = scan[s].saw
          /\ reopened' = {g \in reopened : g = scan[s].saw}
     ELSE UNCHANGED <<files, listed, reopened>>
  /\ scan' = [scan EXCEPT ![s] = NoScan]
  /\ UNCHANGED <<disk, events, folder, issued, job, previews, fileRuns>>

----------------------------------------------------------------------------
(* refreshFolderInbox *)

RecoveredFiles == [g \in Versions |-> recover_expired_leases_in(files[g])]

\* watched_file_inbox_list: expired leases come back, previews of closed rows go.
list ==
  /\ files' = RecoveredFiles
  /\ previews' = [g \in Versions |->
       IF files'[g].state \in {"DISCOVERED", "READY", "PROCESSING"} THEN previews[g] ELSE 0]
  /\ UNCHANGED <<disk, events, folder, issued, scan, job, fileRuns, listed, reopened>>

claim_for_preview(g) ==
  /\ job = NoJob /\ previews[g] = 0
  /\ CanClaimFile(RecoveredFiles[g])
  /\ files' = [RecoveredFiles EXCEPT ![g] = claim(@, FreshClaim)]
  /\ job' = [pc |-> "read", gen |-> g, token |-> FreshClaim, bytes |-> 0]
  /\ UNCHANGED <<disk, events, folder, issued, scan, previews, fileRuns, listed, reopened>>

\* complete_lease by the screen: a lease that is gone is left alone.
complete_lease(row) ==
  files' = [files EXCEPT ![job.gen] = IF HoldsLease(@, job.token) THEN row ELSE @]

\* Mutant: whatever is on disk is taken for the claimed generation.
anything_loaded(g) == disk # NoVersion

\* The metadata read with the bytes are those of the claimed row.
loaded_as_listed(g) == disk = g

\* watched_folder_file_read; a changed or missing file makes the row FAILED.
read_registered_file ==
  /\ job.pc = "read"
  /\ IF folder # 0 /\ loaded_as_listed(job.gen)
     THEN job' = [job EXCEPT !.pc = "preview", !.bytes = disk] /\ files' = files
     ELSE complete_lease(mark_failed(files[job.gen])) /\ job' = NoJob
  /\ UNCHANGED <<disk, events, folder, issued, scan, previews, fileRuns, listed, reopened>>

\* The preview is shown, then the row is made READY, or FAILED if the file
\* could not be parsed.
preview_ready(parsed) ==
  /\ job.pc = "preview"
  /\ previews' = IF parsed THEN [previews EXCEPT ![job.gen] = job.bytes] ELSE previews
  /\ complete_lease(IF parsed THEN mark_ready(files[job.gen]) ELSE mark_failed(files[job.gen]))
  /\ job' = NoJob
  /\ UNCHANGED <<disk, events, folder, issued, scan, fileRuns, listed, reopened>>

----------------------------------------------------------------------------
(* startTrackedImport *)

claim_for_import(g) ==
  /\ job = NoJob /\ previews[g] # 0
  /\ CanClaimFile(RecoveredFiles[g])
  /\ files' = [RecoveredFiles EXCEPT ![g] = claim(@, FreshClaim)]
  /\ job' = [pc |-> "start", gen |-> g, token |-> FreshClaim, bytes |-> previews[g]]
  /\ UNCHANGED <<disk, events, folder, issued, scan, previews, fileRuns, listed, reopened>>

\* import_start: the run of these bytes, or a new one; or a refusal.
start_file_import(accepted) ==
  /\ job.pc = "start"
  /\ IF accepted
     THEN /\ fileRuns' = [fileRuns EXCEPT ![job.bytes] = IF @ \in {"REVIEW", "POSTED"} THEN @ ELSE "REVIEW"]
          /\ job' = [job EXCEPT !.pc = "stage"]
          /\ files' = files
     ELSE complete_lease(mark_failed(files[job.gen])) /\ job' = NoJob /\ fileRuns' = fileRuns
  /\ UNCHANGED <<disk, events, folder, issued, scan, previews, listed, reopened>>

\* A run that is no longer in review, or a lost lease: the row stays as it is.
stage_file ==
  /\ job.pc = "stage"
  /\ IF fileRuns[job.bytes] = "REVIEW"
     THEN complete_lease(mark_staged(files[job.gen], job.bytes)) ELSE files' = files
  /\ job' = NoJob
  /\ UNCHANGED <<disk, events, folder, issued, scan, previews, fileRuns, listed, reopened>>

\* The user commits a run or rolls back an unposted one.
settle_run(g, to) ==
  /\ fileRuns[g] = "REVIEW"
  /\ fileRuns' = [fileRuns EXCEPT ![g] = to]
  /\ UNCHANGED <<disk, events, folder, issued, files, scan, job, previews, listed, reopened>>

ignore_file(g) ==
  /\ CanIgnoreFile(files[g])
  /\ files' = [files EXCEPT ![g] = ignore(@)]
  /\ UNCHANGED <<disk, events, folder, issued, scan, job, previews, fileRuns, listed, reopened>>

retry_file(g) ==
  /\ CanRetryFile(files[g], files[g].run # 0 /\ fileRuns[files[g].run] = "ROLLED_BACK")
  /\ files' = [files EXCEPT ![g] = retry(@)]
  /\ reopened' = IF files[g].state = "STAGED" THEN reopened \cup {g} ELSE reopened
  /\ UNCHANGED <<disk, events, folder, issued, scan, job, previews, fileRuns, listed>>

----------------------------------------------------------------------------
(* Time and crashes *)

ClaimExpires ==
  /\ \E g \in Versions : files[g].live
  /\ files' = [g \in Versions |-> [files[g] EXCEPT !.live = FALSE]]
  /\ UNCHANGED <<disk, events, folder, issued, scan, job, previews, fileRuns, listed, reopened>>

Restart ==
  /\ events < MaxEvents
  /\ events' = events + 1
  /\ scan' = [s \in Scanners |-> NoScan]
  /\ job' = NoJob
  /\ previews' = [g \in Versions |-> 0]
  /\ UNCHANGED <<disk, folder, issued, files, fileRuns, listed, reopened>>

FolderScan == \E s \in Scanners : prepare_registered_scan(s) \/ finish_scan(s)

FolderScreen ==
  \/ list
  \/ \E g \in Versions : claim_for_preview(g) \/ claim_for_import(g)
  \/ read_registered_file
  \/ \E ok \in BOOLEAN : preview_ready(ok) \/ start_file_import(ok)
  \/ stage_file

FolderUser ==
  \/ register_with_source \/ remove
  \/ \E g \in Versions : ignore_file(g) \/ retry_file(g)
  \/ \E g \in Versions, to \in {"POSTED", "ROLLED_BACK"} : settle_run(g, to)

FolderNext == DiskChange \/ FolderScan \/ FolderScreen \/ FolderUser \/ ClaimExpires \/ Restart

\* The worker polls every POLL_INTERVAL_SECONDS, a traversal ends, the screen
\* refreshes on every discovery event, and a lease of five minutes runs out.
FolderFairness ==
  /\ \A s \in Scanners : WF_folderVars(finish_scan(s))
  /\ WF_folderVars(prepare_registered_scan("worker"))
  /\ WF_folderVars(list)
  /\ WF_folderVars(ClaimExpires)

----------------------------------------------------------------------------

\* Every row satisfies the CHECK constraints of watched_file_inbox: a lease
\* exactly while PROCESSING, a run exactly while STAGED, attempts in bounds.
FolderTypeOK ==
  /\ disk \in Versions \cup {NoVersion}
  /\ \A g \in Versions :
       /\ files[g].state \in {"ABSENT", "DISCOVERED", "PROCESSING", "READY", "STAGED", "FAILED",
                              "IGNORED", "REMOVED"}
       /\ files[g].tries \in 0..MaxAttemptsOnDisk
       /\ (files[g].state = "PROCESSING") = (files[g].token # NoClaimToken)
       /\ (files[g].state = "STAGED") = (files[g].run # 0)

FolderOpen == {"DISCOVERED", "PROCESSING", "READY", "FAILED"}

\* What is offered is what the last reconciled scan saw: a scan retires every
\* other generation, and nobody who had claimed a retired one can bring it back
\* (complete_lease fences on the claim).  The exception is a generation whose
\* rolled-back import the user retried: it stays until the next scan.
PendingIsListed ==
  \A g \in Versions : files[g].state \in FolderOpen => g = listed \/ g \in reopened

\* A generation is staged with an import run of exactly its own bytes, although
\* the file may change between the scan, the claim and the read
\* (refreshFolderInbox compares the metadata it read with the row it claimed).
FileStagedWithItsBytes ==
  \A g \in Versions : files[g].state = "STAGED" => files[g].run = g

\* No file is PROCESSING under a lease that has expired.
NoDeadClaim == \A g \in Versions : files[g].state = "PROCESSING" => files[g].live

\* No row stays with a claim that has expired, whatever became of the screen
\* that held it: the next listing or claim takes it back
\* (recover_expired_leases).
ClaimsComeBack == []<>NoDeadClaim

\* However scans overlap and are reordered, the Inbox is again and again what is
\* on disk: every stale reconciliation is corrected by a later one.
ListedAsOnDisk ==
  /\ \A g \in Versions : files[g].state \in FolderOpen => g = disk
  /\ disk # NoVersion => files[disk].state \notin {"ABSENT", "REMOVED"}

\* The folder is unregistered, or its Inbox is what is on disk.
CaughtUp == folder = 0 \/ ListedAsOnDisk

CatchesUp == []<>CaughtUp
==============================================================================
