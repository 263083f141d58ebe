------------------------------ MODULE DriveInbox ------------------------------
(***************************************************************************)
(* One remote file of a connected Google Drive folder, from discovery to   *)
(* an import run, over the Inbox rows of DriveStore.  DriveSync shows how  *)
(* pages reach the store; here a pass reads what the file is now and       *)
(* stores it later, then hydrates what is discovered                       *)
(* (google_drive_hydration.rs) while it still holds the connection mutex   *)
(* of AppState::with_connection, so no command of the screen runs          *)
(* meanwhile; the remote file changes whenever it likes.                   *)
(*                                                                         *)
(* The bytes of a generation are named by its number.  The screen works on *)
(* one row at a time and is modelled by the commands it sends              *)
(* (refreshGoogleDriveInbox, startTrackedImport).                          *)
(***************************************************************************)
EXTENDS DriveStore

CONSTANT MaxDriveEvents  \* remote changes, provider failures and crashes considered

VARIABLES
  remoteFile,  \* [gen, present]: the file as Google Drive has it
  driveEvents, \* remote changes, failures and crashes so far
  driveNode,   \* its google_drive_nodes row
  items,       \* its google_drive_inbox rows, by generation
  pass,        \* the sync pass: [pc, seen, gen, token, bytes]
  import,      \* what the screen does with one row: [pc, gen, token, bytes]
  shown,       \* the generations previewed: the bytes shown, or NoContent
  driveRuns,   \* import_runs: the latest run of each generation's bytes
  vault,       \* the bytes in the evidence vault
  driveReopened \* history: generations whose rolled-back import was reopened

driveVars ==
  <<remoteFile, driveEvents, driveNode, items, pass, import, shown, driveRuns, vault, driveReopened>>

NoPass == [pc |-> "idle", seen |-> UnknownNode, gen |-> 0, token |-> NoLease, bytes |-> NoContent]
NoImport == [pc |-> "idle", gen |-> 0, token |-> NoLease, bytes |-> NoContent]

DriveInit ==
  /\ remoteFile = [gen |-> 1, present |-> TRUE]
  /\ driveEvents = 0
  /\ driveNode = UnknownNode
  /\ items = [g \in Generations |-> NoItem]
  /\ pass = NoPass
  /\ import = NoImport
  /\ shown = [g \in Generations |-> NoContent]
  /\ driveRuns = [g \in Generations |-> "none"]
  /\ vault = {}
  /\ driveReopened = {}

Recovered == [g \in Generations |-> recover_expired_inbox_leases_in(items[g])]
\* A lease token is a new UUID: no row has it, and nobody still remembers it.
LeasesInUse == {items[g].token : g \in Generations} \cup {pass.token, import.token}
FreshLease == CHOOSE t \in 1..(MaxGeneration + 3) : t \notin LeasesInUse

\* The connection mutex is free: no pass is between discovery and its end.
Unlocked == pass.pc \in {"idle", "fetched"}

----------------------------------------------------------------------------
(* Google Drive *)

RemoteChange ==
  /\ driveEvents < MaxDriveEvents
  /\ driveEvents' = driveEvents + 1
  /\ \/ /\ remoteFile.present /\ remoteFile.gen < MaxGeneration
        /\ remoteFile' = [remoteFile EXCEPT !.gen = @ + 1]
     \/ remoteFile' = [remoteFile EXCEPT !.present = ~@]
  /\ UNCHANGED <<driveNode, items, pass, import, shown, driveRuns, vault, driveReopened>>

----------------------------------------------------------------------------
(* A sync pass *)

fetch_file ==
  /\ pass.pc = "idle"
  /\ pass' = [pass EXCEPT !.pc = "fetched",
                          !.seen = node("root", remoteFile.gen, remoteFile.present)]
  /\ UNCHANGED <<remoteFile, driveEvents, driveNode, items, import, shown, driveRuns, vault, driveReopened>>

\* discover_nodes_claimed; a refused page fails the sync.
discover_file ==
  /\ pass.pc = "fetched"
  /\ LET rows == discover_items(items, driveNode, pass.seen) IN
     IF DiscoverFits(rows)
     THEN /\ items' = rows
          /\ driveNode' = pass.seen
          /\ pass' = [NoPass EXCEPT !.pc = "claim"]
          /\ driveReopened' = {g \in driveReopened : rows[g].state # "REMOVED"}
     ELSE pass' = NoPass /\ UNCHANGED <<items, driveNode, driveReopened>>
  /\ UNCHANGED <<remoteFile, driveEvents, import, shown, driveRuns, vault>>

\* list_inbox_in_state and claim_inbox: every discovered row is claimed, or the
\* pass ends with an error and none is.
claim_and_hydrate ==
  /\ pass.pc = "claim"
  /\ LET found == {g \in Generations : Recovered[g].state = "DISCOVERED"}
         all == found # {} /\ \A g \in found : CanClaim(Recovered[g])
     IN /\ items' = [g \in Generations |->
                       IF all /\ g \in found THEN claim_inbox(Recovered[g], FreshLease) ELSE Recovered[g]]
        /\ pass' = IF all THEN [NoPass EXCEPT !.pc = "before", !.gen = CHOOSE g \in found : TRUE,
                                              !.token = FreshLease]
                   ELSE NoPass
  /\ UNCHANGED <<remoteFile, driveEvents, driveNode, import, shown, driveRuns, vault, driveReopened>>

\* hydrate_one: the answer is stored under the lease, then the next row of the
\* batch is hydrated; a lease that is gone ends the pass.
hydrate_one(row) ==
  LET rest == {g \in Generations \ {pass.gen} : holds_inbox_lease(items[g], pass.token)}
      held == holds_inbox_lease(items[pass.gen], pass.token)
  IN /\ items' = IF held THEN [items EXCEPT ![pass.gen] = row] ELSE items
     /\ pass' = IF held /\ rest # {}
                THEN [pass EXCEPT !.pc = "before", !.gen = CHOOSE g \in rest : TRUE, !.bytes = NoContent]
                ELSE NoPass
     /\ UNCHANGED <<driveNode, import, shown, driveRuns, driveReopened>>

validate_generation(g) == remoteFile.present /\ remoteFile.gen = g

\* hydrate_bytes, one action per request to Google Drive.
metadata_before ==
  /\ pass.pc = "before"
  /\ IF validate_generation(pass.gen)
     THEN /\ pass' = [pass EXCEPT !.pc = "download"]
          /\ UNCHANGED <<driveNode, items, import, shown, driveRuns, vault, driveReopened>>
     ELSE hydrate_one(fail_inbox(items[pass.gen])) /\ vault' = vault
  /\ UNCHANGED <<remoteFile, driveEvents>>

download_bytes ==
  /\ pass.pc = "download" /\ remoteFile.present
  /\ pass' = [pass EXCEPT !.pc = "after", !.bytes = remoteFile.gen]
  /\ UNCHANGED <<remoteFile, driveEvents, driveNode, items, import, shown, driveRuns, vault, driveReopened>>

metadata_after ==
  /\ pass.pc = "after"
  /\ hydrate_one(IF validate_generation(pass.gen)
                 THEN mark_inbox_ready(items[pass.gen], pass.bytes)
                 ELSE fail_inbox(items[pass.gen]))
  /\ vault' = IF validate_generation(pass.gen) THEN vault \cup {pass.bytes} ELSE vault
  /\ UNCHANGED <<remoteFile, driveEvents>>

\* A request fails, or the vault does.
hydration_fails ==
  /\ pass.pc \in {"before", "download", "after"}
  /\ driveEvents < MaxDriveEvents \/ (pass.pc = "download" /\ ~remoteFile.present)
  /\ driveEvents' = IF driveEvents < MaxDriveEvents THEN driveEvents + 1 ELSE driveEvents
  /\ hydrate_one(fail_inbox(items[pass.gen]))
  /\ UNCHANGED <<remoteFile, vault>>

----------------------------------------------------------------------------
(* The screen *)

\* google_drive_inbox_list.
list_inbox ==
  /\ Unlocked
  /\ items' = Recovered
  /\ shown' = [g \in Generations |-> IF items'[g].state \in {"READY", "PROCESSING"} THEN shown[g] ELSE NoContent]
  /\ UNCHANGED <<remoteFile, driveEvents, driveNode, pass, import, driveRuns, vault, driveReopened>>

\* read_hydrated_inbox_file: the stored content of a READY row is previewed.
read_hydrated_inbox_file(g) ==
  /\ Unlocked /\ items[g].state = "READY" /\ items[g].content \in vault
  /\ shown[g] = NoContent
  /\ shown' = [shown EXCEPT ![g] = items[g].content]
  /\ UNCHANGED <<remoteFile, driveEvents, driveNode, items, pass, import, driveRuns, vault, driveReopened>>

claim_household_inbox(g) ==
  /\ Unlocked /\ import = NoImport /\ shown[g] # NoContent
  /\ CanClaim(Recovered[g])
  /\ items' = [Recovered EXCEPT ![g] = claim_inbox(@, FreshLease)]
  /\ import' = [pc |-> "start", gen |-> g, token |-> FreshLease, bytes |-> shown[g]]
  /\ UNCHANGED <<remoteFile, driveEvents, driveNode, pass, shown, driveRuns, vault, driveReopened>>

complete_inbox_lease(row) ==
  items' = [items EXCEPT ![import.gen] = IF holds_inbox_lease(@, import.token) THEN row ELSE @]

\* import_start: the bytes are put into the vault, then the run of these bytes
\* is found or started, or the request is refused and what was put is deleted.
start_drive_import(accepted) ==
  /\ Unlocked /\ import.pc = "start"
  /\ IF accepted
     THEN /\ driveRuns' = [driveRuns EXCEPT ![import.bytes] = IF @ \in {"REVIEW", "POSTED"} THEN @ ELSE "REVIEW"]
          /\ import' = [import EXCEPT !.pc = "stage"]
          /\ vault' = vault \cup {import.bytes}
          /\ items' = items
     ELSE /\ complete_inbox_lease(fail_inbox(items[import.gen]))
          /\ import' = NoImport /\ UNCHANGED <<driveRuns, vault>>
  /\ UNCHANGED <<remoteFile, driveEvents, driveNode, pass, shown, driveReopened>>

\* The run must be in review and its document the content of the row.
google_drive_inbox_mark_staged ==
  /\ Unlocked /\ import.pc = "stage"
  /\ IF driveRuns[import.bytes] = "REVIEW" /\ items[import.gen].content = import.bytes
     THEN complete_inbox_lease(mark_inbox_staged(items[import.gen], import.bytes)) ELSE items' = items
  /\ import' = NoImport
  /\ UNCHANGED <<remoteFile, driveEvents, driveNode, pass, shown, driveRuns, vault, driveReopened>>

commit_drive_import(g) ==
  /\ Unlocked /\ driveRuns[g] = "REVIEW"
  /\ driveRuns' = [driveRuns EXCEPT ![g] = "POSTED"]
  /\ UNCHANGED <<remoteFile, driveEvents, driveNode, items, pass, import, shown, vault, driveReopened>>

\* import_rollback of an unposted run: its source document goes, and with the
\* last document that has these bytes goes the vault object.
rollback_drive_import(g) ==
  /\ Unlocked /\ driveRuns[g] = "REVIEW"
  /\ driveRuns' = [driveRuns EXCEPT ![g] = "ROLLED_BACK"]
  /\ vault' = vault \ {g}
  /\ UNCHANGED <<remoteFile, driveEvents, driveNode, items, pass, import, shown, driveReopened>>

\* The screen reopens what it has rolled back and forgets the preview.
google_drive_inbox_reopen(g) ==
  /\ Unlocked
  /\ CanReopen(items[g], items[g].run) /\ driveRuns[items[g].run] = "ROLLED_BACK"
  /\ items' = [items EXCEPT ![g] = reopen_staged_inbox(@)]
  /\ driveReopened' = driveReopened \cup {g}
  /\ shown' = [shown EXCEPT ![g] = NoContent]
  /\ UNCHANGED <<remoteFile, driveEvents, driveNode, pass, import, driveRuns, vault>>

google_drive_inbox_ignore(g) ==
  /\ Unlocked /\ CanIgnore(items[g])
  /\ items' = [items EXCEPT ![g] = ignore_inbox(@)]
  /\ UNCHANGED <<remoteFile, driveEvents, driveNode, pass, import, shown, driveRuns, vault, driveReopened>>

google_drive_inbox_retry(g) ==
  /\ Unlocked /\ CanRetry(items[g])
  /\ items' = [items EXCEPT ![g] = retry_inbox(@)]
  /\ UNCHANGED <<remoteFile, driveEvents, driveNode, pass, import, shown, driveRuns, vault, driveReopened>>

----------------------------------------------------------------------------
(* Time and crashes *)

InboxLeaseExpires ==
  /\ \E g \in Generations : items[g].live
  /\ items' = [g \in Generations |-> [items[g] EXCEPT !.live = FALSE]]
  /\ UNCHANGED <<remoteFile, driveEvents, driveNode, pass, import, shown, driveRuns, vault, driveReopened>>

DriveRestart ==
  /\ driveEvents < MaxDriveEvents
  /\ driveEvents' = driveEvents + 1
  /\ pass' = NoPass /\ import' = NoImport
  /\ shown' = [g \in Generations |-> NoContent]
  /\ UNCHANGED <<remoteFile, driveNode, items, driveRuns, vault, driveReopened>>

DrivePass ==
  \/ fetch_file \/ discover_file \/ claim_and_hydrate
  \/ metadata_before \/ download_bytes \/ metadata_after \/ hydration_fails

DriveScreen ==
  \/ list_inbox \/ google_drive_inbox_mark_staged
  \/ \E ok \in BOOLEAN : start_drive_import(ok)
  \/ \E g \in Generations :
       \/ read_hydrated_inbox_file(g) \/ claim_household_inbox(g) \/ google_drive_inbox_reopen(g)
       \/ google_drive_inbox_ignore(g) \/ google_drive_inbox_retry(g)
       \/ commit_drive_import(g) \/ rollback_drive_import(g)

\* The scheduler starts a pass again and again and a pass goes on; the screen
\* lists again on every sync event; a lease of five minutes runs out.
DriveFairness ==
  WF_driveVars(DrivePass) /\ WF_driveVars(list_inbox) /\ WF_driveVars(InboxLeaseExpires)

DriveNext == RemoteChange \/ DrivePass \/ DriveScreen \/ InboxLeaseExpires \/ DriveRestart

DriveSpec == DriveInit /\ [][DriveNext]_driveVars /\ DriveFairness

----------------------------------------------------------------------------

\* Every row satisfies the CHECK constraints of google_drive_inbox: a lease
\* exactly while PROCESSING, a run exactly while STAGED, content when READY or
\* STAGED and none when DISCOVERED or REMOVED, attempts in bounds.
DriveTypeOK ==
  /\ pass.gen \in Generations \cup {0} /\ import.gen \in Generations \cup {0}
  /\ \A g \in Generations :
       /\ items[g].state \in ItemStates /\ items[g].tries \in 0..MaxAttempts
       /\ (items[g].state = "PROCESSING") = (items[g].token # NoLease)
       /\ (items[g].state = "STAGED") = (items[g].run # 0)
       /\ items[g].state \in {"READY", "STAGED"} => items[g].content # NoContent
  /\ DiscoverFits(items)

\* What is offered for review is the generation the store knows the file to be
\* at: discovering another one, or the file leaving the folder, retires the
\* rows, and no hydration or import that still worked on a retired row can
\* bring it back (complete_inbox_lease fences on the lease).  A generation
\* whose rolled-back import was reopened stays until it is retired.
PendingIsStored ==
  \A g \in Generations : items[g].state \in Open =>
    (driveNode.tree /\ driveNode.gen = g) \/ g \in driveReopened

\* A row holds the bytes of its own generation, although the file may be
\* replaced before, during and after its download (hydrate_bytes compares the
\* metadata on both sides), and is staged with the run of exactly those bytes.
ContentIsOfGeneration ==
  \A g \in Generations :
    /\ items[g].content \in {NoContent, g}
    /\ items[g].state = "STAGED" => items[g].run = g

\* No row is PROCESSING under a lease that has expired.
NoDeadLease == \A g \in Generations : items[g].state = "PROCESSING" => items[g].live

\* No row stays with a lease that has expired, whether a hydration crashed or
\* the screen went away: every listing, and every pass before it
\* claims, takes expired leases back.
ItemLeasesComeBack == []<>NoDeadLease

\* What Google Drive says of the file is in the end what is stored, changes
\* being finitely many.  The tests of google_drive_sync_adapter.rs have the row
\* of a file that left the folder REMOVED before the cursor is published.
RemovalIsStored ==
  <>[](driveNode.gen = remoteFile.gen /\ driveNode.tree = remoteFile.present)

\* A READY row can be previewed: its bytes are in the vault (the test
\* hydrated_ready_and_mapping_items_return_authenticated_exact_bytes of
\* google_drive_commands.rs).
ReadyIsReadable ==
  \A g \in Generations : items[g].state = "READY" => items[g].content \in vault
==============================================================================
