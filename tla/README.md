# KakeFlow in TLA+

KakeFlow is a local-first household ledger: a Tauri desktop application (Rust,
SQLCipher, a React interface), a browser runtime with the same posting core,
and a small relay for families and phones. This directory holds TLA+ models of
the parts of it whose correctness depends on *order*: workers and commands that
interleave, reviews that go stale, crashes between two file operations. The
models are checked with TLC on small instances, and every safety property the
runs check is also proved with TLAPS for all instances. Paths below are relative to the repository
root (`src-tauri/src/` is the desktop back end).

## 1. Inventory

| Component | State | Operations | Hard behaviour | What makes it correct |
|---|---|---|---|---|
| Connector refresh store (`connector_refresh.rs`, migration 0071) | batches, items with lease token, generation and expiry, counters | create, claim, heartbeat, complete, recover, retain | lease expiry against a late completion; the last completion decides the verdict | one result per connection, stored verdict and counters are those of the items, one active batch per household |
| Connector refresh worker (`connector_refresh_worker.rs`) | one thread, wake/stop signal, heartbeat thread | scan, recover, claim, execute, record, wait | lost wake-ups, infrastructure errors in mid-pass, shutdown and crash at any point, suspended machine | every batch finishes; a stale worker changes nothing |
| Connector commands (`connector_commands.rs`) | none of its own | refresh one / all, binding upsert and delete | race with the worker | a created batch is noticed |
| Connector bindings (`connector_binding.rs`, migrations 0070, 0072) | binding rows with a version, allowed accounts and pinned parser profile; generations that survive deletion | upsert, delete, disconnect triggers, validation at review | delete and re-create (ABA) between preview and commit | a run is posted only under the binding its reviewer saw |
| Import workflow (`import_workflow.rs`, migration 0066) | runs, candidates, duplicate reviews, external keys, keep-both exceptions, evidence | start, preview, resolve, commit, roll back | two documents with the same transaction under review at once; a match that is posted or rolled back meanwhile | external transactions posted once, no silent duplicates, evidence kept |
| Card settlement and receipt matching (`import_workflow.rs`, `read_model.rs`, `receipt_matching.rs`, migrations 0005, 0025, 0027, 0065) | statements, payments with proposed and confirmed links, receipt links | finalise, reconcile, confirm, unlink, edit a posted transaction | several payments of one amount, statements that arrive later, edits under a link | the links a backup contains pass the validation a restore makes of them; a receipt counts once |
| Posting core (`crates/kakeflow-core`) | none (pure) | validate, canonicalise | `i64` overflow, order of entries | accepts exactly the balanced journals, independent of order |
| Restore activation (`restore.rs`, `key_store.rs`, start-up in `lib.rs`) | live, candidate and rollback directories, two journal slots, two credentials | stage, activate, roll back, finalise, recover | a crash between any two renames, removals or credential writes | the data opened is whole and has its key; nothing is lost |
| Google Drive (`google_drive_*.rs`, migrations 0053, 0054, 0056) | connection with its change cursor, schedule with a lease, nodes, Inbox rows with leases, vault | connect, bind, schedule, crawl, replay, hydrate, claim, stage, reopen, ignore, retry | the tree changes during the crawl; cursors and leases expire; removal races hydration | a published cursor hides no change; what is offered is current and staged with its bytes |
| Gmail (`gmail_*.rs`, migration 0057) | connection with its history id, schedule with a lease, Inbox rows, links to documents | connect, bind a label, full and history sync, hydrate, claim, stage, ignore, retry | history expires; messages change label during a pass; a crash between discovery and hydration | the Inbox mirrors the label at the stored history id |
| Watched folders (`watched_folders.rs`, `watched_file_inbox.rs`, `folder_discovery.rs`, migration 0028) | registrations, Inbox rows by metadata generation, leases | register, scan, reconcile, claim, read, stage, ignore, retry | scans that overlap with each other, with edits of the file and with imports | pending rows are what was last listed, and are staged with those bytes |
| Family delivery (`family_delivery_*.rs`, `family_snapshot.rs`, `FamilyDeliveryPanel.tsx`, migrations 0045, 0050) | deliveries, cached envelopes, dirty partitions; schedule with a lease, inbound rows, snapshot reviews | prepare, seal, upload, accept, fail, reset; discover, register, stage, resolve, apply, discard | lost answers, resends after a crash, discovery by worker and panel at once, older packages reviewed late | resending is idempotent, no publication is skipped, nothing older is applied |
| Relay outbox (`sync_foundation.rs`, `relay_transport.rs`, `DesktopRelayPanel.tsx`, migrations 0032, 0043) | trigger-made captures, outbox, deliveries | drain, prepare, accept, fail | edits during an upload, a panel closed and opened again | what the relay does not have is still pending |
| Change packages (`change_package.rs`, migration 0035) | revisions, staged records, replica heads | export, stage, resolve, apply, discard | edits between staging and application; packages staged late or twice | nothing the user typed is overwritten without a decision |
| Mobile capture (`mobile_capture_*.rs`, `document_vault.rs`, migrations 0046, 0052) | schedule with a lease, relay cursor, captures, documents, vault objects | intake, ingest, extract, promote; rollback of an import of the same bytes | redelivery, a page that fails half way, vault clean-up | the cursor passes no capture; a promoted capture has its document |
| Browser runtime (`src/platform/pwa`, `usePwaClient.ts`) | encrypted events, projections, revision, evidence, active vault | stage, approve, append, export, restore, lock, unlock | two tabs between two IndexedDB transactions, a restore under an open tab | projections are those of the events, in every vault |
| Relay service (`relay-service/`) | publications and captures by number | publish, list | the external peer of the four modules above | |
| Backup archive, vault encryption, persistence and migrations, connector projections, investments, planning and reports, OCR, presentation | see `PROJECT.json` | | sequential, formats, layout | |

How they interact: commands and workers share the SQLite database through one
connection mutex (`AppState::with_connection`), and a store operation is one
transaction; a Drive or Gmail run holds that mutex from its first to its last
page, while family discovery and mobile intake give it up around every request.
Commands wake the refresh worker through a condition variable; it and the
schedulers fill the Inboxes; staged files become import runs; the commit of a
run checks the binding of its connection and posts through the posting core;
links and corrections hang on what was posted; edits are captured for the relay
and mark the family partitions. Restore runs before anything else opens a file.

## 2. Modules

| Module | Models | Composes |
|---|---|---|
| `RefreshStore` | the store: its rows and one operator per operation | |
| `ConnectorRefresh` | commands, worker threads, heartbeats, signal, time and faults | `RefreshStore`, and `RefreshBatch` through a refinement mapping |
| `RefreshBatch` | abstract: a batch opens once, each connection is answered once, the verdict follows | |
| `ConnectorBinding` | bindings, generations, archived accounts, profile version | |
| `ImportReview` | runs, candidates, duplicates, commit, rollback | `ConnectorBinding` |
| `EvidenceLinks` | card statements, payments, receipts and corrections of posted transactions | |
| `PostingCore` | `validate_posting` with its integer width, canonical order | |
| `Restore` | staging, activation, rollback, finalisation and recovery of a backup | |
| `DriveStore` | the Drive tables: one operator per store function | |
| `DriveSync` | scheduler, "Sync now", crawl and replay of a changing tree | `DriveStore` |
| `DriveInbox` | discovery, hydration, review, import and rollback of one Drive file | `DriveStore` |
| `WatchedStore`, `FolderInbox` | the watched-file table; scans, preview, import | `FolderInbox` uses `WatchedStore` |
| `GmailStore`, `GmailSync` | the Gmail tables; passes, hydration, review, import | `GmailSync` uses `GmailStore` |
| `MobileCapture` | relay pages, intake worker, Inbox, vault, imports of the same image | |
| `FamilySend`, `FamilyReceive` | sending and receiving snapshot partitions | |
| `RelayOutbox`, `ChangePackage` | captures, outbox and deliveries; packages between installations | |
| `ConnectorRefresh_proofs`, `ImportReview_proofs`, `Restore_proofs`, `DriveSync_proofs` | theorems of the module they are named after | that module |
| `Inboxes_proofs` | theorems of `DriveInbox`, `FolderInbox`, `FamilyReceive` | `MCInboxes` |
| `Exchange_proofs` | theorems of `MobileCapture`, `FamilySend`, `ChangePackage`, `GmailSync` | `MCExchange` |
| `Ledger_proofs` | theorems of `RelayOutbox`, `EvidenceLinks`, `PwaVault`, `PostingCore` | `MCLedger`, `Restore_proofs` |
| `Numbers_proofs` | least and greatest elements of sets of numbers | |
| `MCConnectorRefresh`, `MCImportReview`, `MCDriveSync`, `MCInboxes`, `MCExchange`, `MCLedger`, `MCEvidenceLinks`, `MCRestore` | instances for TLC | |

Definitions marked *Mutant* are small bugs of the kind the code could have; they
are used by no specification, and stand next to the definition they would
replace. `PROJECT.json` pairs each with the property that notices it.

`MCInboxes`, `MCExchange` and `MCLedger` hold several components that share no
state. A variable `part`, chosen initially and never changed, says which one a
behaviour belongs to, so each is explored exactly as if it had a run of its own,
and nothing is multiplied by interleaving what cannot interact; the others stay as
they start. The components are extended, so that a run checks the very definitions
the theorems are about; that a behaviour of the instance is one of each of its
components is proved (`EachInbox`, `EachExchange`, `EachComponent`). Weak fairness of
a disjunction over parts is that of the disjunct of the behaviour's part.

### Refresh: `RefreshStore`, `ConnectorRefresh`, `RefreshBatch`

`status`, `item` and `tally` are the two tables of migration 0071; `created` and
`finished` keep the order of `created_at` and `completed_at`, the only use made
of these columns. A lease is stored in the code as an absolute expiry and only
compared with "now", so an item carries `ttl`, the ticks left. A lease token is
32 random bytes; the model draws a fresh number. `LEASE_MINUTES`, the limit of
attempt generations, `MAX_SAFE_INTEGER` and the retention limit are constants.

`pc` follows `run_worker` and `run_batch_controlled`: *scan* (list active
batches), *batch* (recover expired leases), *claim*, *run* (the executor with its
heartbeat), *record*, *load* (nothing to claim), *listed* (the list was empty and
the wait has not begun), *idle* and *pause* (the two waits), *off*. Any error ends the pass (`AbandonPass`) and leaves the claimed
item RUNNING, as the `break` in `run_worker` does. `RefreshCommand` and `Wake`
are two steps because the command commits its batch before it calls `wake()`.
`Tick` is time while the heartbeat, sent every minute against a lease of five,
keeps up; `Suspend` is time while nothing is sent. `Crash` and `Restart` lose
everything but the store. The single-instance plugin keeps one process alive;
instances with two workers also cover a second process on the same database,
for which the code's leases are written.

`retain_batches` has no caller in the application. It is an action only of
`RetainingSpec`, where it may run at any moment; which batches are older than 30
days is a free choice.

### Imports: `ConnectorBinding`, `ImportReview`

A transaction is named by the candidate it was posted from; `PENDING` stands
for the two reviewable statuses. `Shape` is what `stage_duplicate_review`
compares (account, date, amount, direction), `Text` the normalised merchant and
description, `Key` and `Fact` the external id and the hash of its facts. The
decisions of one commit are made at once: matches are in other runs, and one
request names an external id once, so the order in which the code's loop takes
them makes no difference. Postings go to the candidate's own account. The
journal is the subject of `PostingCore`. An operation the code refuses changes
nothing and is not a step. `seen` is what a review screen holds: the expectation
it will send, and, as history, the binding row it came from.

### Posting: `PostingCore`

The state is a draft to which entries are added; `Codes` is the set of error
codes the core returns, computed with `CheckedAdd`, which keeps the old total on
overflow as the code does. The reference is `ExactTotal`, without a width. The
canonical form puts an entry at the place its id has among the ids (`Position`), which
is what `sort_unstable_by` does to the distinct ids of a valid posting.

### Restore: `Restore`

Each rename, file removal and credential write is one atomic, durable step, in
program order, and the process may die between any two of them, any number of
times. Removing a tree is not atomic: a directory is `Partial` on the way, and
the entries of the work directory go in any order. `write_journal` is two
steps (empty the slot, rename the new file into it). The pending credential may
vanish (`LosePendingKey`), since the code has a branch for it. Staging starts
from the running application or, as `restore_and_activate` does, before
anything is open. `unpacked/` and `journal.new` are never read by recovery and
are left out.

### Links: `EvidenceLinks`

An import run is a set of items: purchases, receipts, statements, payments, each
with a card, an amount and a day. `commit_import` posts a run and finalises and
reconciles its statements in the same transaction, as the code does;
`confirm_card_payment_link`, `unlink_card_payment_link`, `confirm` (receipts) and
`update_posted_transaction` follow in any order. The CHECKs and triggers of
migrations 0025, 0027 and 0065 are guards.

### Google Drive: `DriveStore`, `DriveSync`, `DriveInbox`

`DriveStore` has one pure operator per store function; the modules that own the
rows apply them. Of a timestamp a row keeps whether it is past. `DriveSync` is the
part of a run that follows the remote tree: two workers (the scheduler and "Sync
now"), a crawl folder by folder, a replay of the change log in pages that end
anywhere and describe a file as it was or as it is, the fixed point of
`persist_change_page` over the parents of a page, the fallback to a full crawl when
a folder enters the tree or a cursor expires, and the lease that fences every
transaction. `DriveInbox` takes one file from there: hydration reads the metadata,
the bytes and the metadata again; the screen lists, claims, imports, reopens,
ignores and retries; import and rollback share the vault. Rows in `DriveSync` are
never hydrated, so the constraint `DiscoverFits` concerns `DriveInbox` only.

The remote tree of `DriveSync` starts as any tree without a cycle and keeps to that, as
Drive does. What lies below a folder is the least set closed under its children
(`Below`), along remote parents or stored ones; on stored parents that form a cycle the
model's `stored_subtree` therefore ends where the code's recursive query does not
(section 6). Three variables are history, read by properties only: `uncrawled` (folders
stored in the tree whose children nobody has listed since they entered, or since a crawl
restarted past changes), `orphans` (nodes a page stored below a folder it had itself
taken out) and `skipped` (a crawl restarted past unreplayed changes).

### Gmail and watched folders: `GmailStore`, `GmailSync`, `WatchedStore`, `FolderInbox`

The same split and conventions. A Gmail pass lists a page, stores its messages,
hydrates them and goes on; a history page is first reduced to the last mutation
of each message (`normalize_history_mutations`). A folder scan reads the disk
outside the mutex and reconciles what it saw later; a scan plan is fenced by the
registration it was made for; a file is read only if its metadata are still those
listed (`loaded_as_listed`).

### Relay: `MobileCapture`, `FamilySend`, `FamilyReceive`, `RelayOutbox`, `ChangePackage`

The relay is external: it numbers what is published, answers a repeated
publication with the first one, and lists pages after a cursor. A closure of
`with_connection` is one action; requests, answers and the steps of a panel are
actions of their own, and a request may outlive the window that sent it. In
`MobileCapture` a page is the set of captures on it that are still to be stored, and the
lowest is stored next. In `FamilySend` the ledger is the number of its edits, a package the edits it
contains, an envelope the recipients it was sealed for. In `FamilyReceive` the
automatic intake is modelled as it behaves, with the staging inside a transaction
refused (section 6). In `ChangePackage` each installation has its own ledger,
heads and reviews, and a package once exported may be staged at any time.

### Browser: `PwaVault`

Every `await` between two IndexedDB transactions is a place where the other tab
may run, so a client call is split there. Events and projections of a vault are
separate fields, written by one transaction; an export reads sources, events and
projections one after another; a restore writes a new vault and switches to it.

## 3. Runs

| Run | Instance | Shows |
|---|---|---|
| `refresh_fencing` | 2 workers, 1 batch, 3 connections (one manual), 3 faults, generation and changed count at their limits | a lease has one holder, results are final, counters and verdict agree with the items, and the whole refines `RefreshBatch` |
| `refresh_commands` | 3 batches, 2 households, a manual-import connection, retention, one fault, fairness | one active batch per household, no lost wake-up, retention spares active batches, every batch finishes |
| `import_duplicates` | 3 documents, 6 candidates: one purchase in all three, one external transaction in all three, once with edited facts | posted once, duplicates only by an explicit KEEP_BOTH, evidence kept |
| `import_binding` | 2 runs of one document, 2 accounts, versions up to 4 | the commit fence under every edit of binding, accounts and profile |
| `drive_sync` | 2 folders and a file, 2 generations, 2 changes, 2 workers, one fault, within `Bounded` | a cursor hides no change (`NothingMissed`), nothing outside the tree stays open (`NoGhosts`) |
| `inboxes` | one Drive file with 2 generations and 3 remote events; one watched file; 2 publications in pages of 1 | pending rows are current, staged with their bytes, no publication skipped, nothing older applied, leases come back, discovery catches up |
| `exchange` | one message with 2 history records; 2 captures of one image; 2 ledger edits and a change of recipients; 2 installations, 3 edits, 2 revisions | the Gmail mirror, documents of promoted captures, the capture cursor, idempotent resends, no undecided overwrite |
| `ledger` | 9 items in 6 import runs; 2 tabs, 2 vaults, 2 batches; journals of up to 4 entries over amounts up to the integer limit; this device and 2 backups; 2 entities, 3 edits, 2 panels | links, projections, postings, restore and the outbox |
| `drive_removal_stored`, `family_intake_stages`, `receipt_links_restorable`, `restore_restart_safe` | small instances | the first four disagreements of section 6 |

**Bounds.** `MaxFaults` and its relatives bound crashes, expiries, suspensions and
failures; three in the refresh instance are enough for an expiry, a takeover and a
crash of the new owner, one or two elsewhere for a fault in every step and its
recovery. Remote changes (`MaxLog`, `MaxRecords`, `MaxDriveEvents`) are two or
three, so that a change falls between any two reads of a pass and another one into
the retry. The watched folder has `MaxEvents = 1`: one change on disk or one crash,
at any point, of one registration (`MaxRegistrations`); a change followed by a
crash is not covered, its state space does not finish in minutes. Pages hold one entry, so that two entries are two pages. Two
workers, tabs or installations suffice because every property relates two.
`MaxGeneration`, `MaxChanged`, `MaxAttempts` are small so that the limits are met.
Three documents are needed for duplicates: two that match each other, and a third
that meets the exception recorded for them. `MaxVersion = 4` allows create, delete
and create again with a further change. `Restore` needs no bound. Workers of
`refresh_fencing` and the folders of `drive_sync` are symmetric; nothing else is
treated as symmetric. The constraint `Bounded` of `drive_sync` keeps the states in which
one folder stays apart, outside and empty, with everything the model can do; and those in
which both take part, inside each other or not, with the background worker alone, no
fault, no disconnection and no new generation of the file. All of it at once does not
finish in minutes; the theorems have no such limit.

Deadlock is checked in the refresh runs. In the others a behaviour may end: every
document imported, every remote change and edit made, a draft full, a vault
locked; for the restore part, `RestartSafe` is the statement about getting stuck.

**Fairness.** In `refresh_commands`: weak fairness of each worker's own steps, of a
pending `wake()`, of the clock, and of restarting a closed application: a thread
that is scheduled, a command that has begun, time, and a user who comes back.
`WaitOver` belongs to the worker's steps because both waits have a timeout. In
`inboxes`: weak fairness of the background pass or scan that a scheduler thread
runs, of the listing that the screen makes on its interval, and of the clock that
passes a lease's expiry. Nothing is assumed of heartbeats, of provider answers, of
claims, imports or decisions of the user. Faults and remote changes are finitely
many. The same fairness is part of `DriveSpec` in `drive_removal_stored`.

## 4. Proofs

The theorems hold for every value of the constants that satisfies the named
assumptions next to them: finite sets of workers, batches, connections, items and
receipts, bounds that are natural numbers, model values outside the types they extend
(`JournalAssumption`: `None` is no journal; `PlaceAssumption`: no file is called "root"),
for postings at least one entry and amounts up to the limit of the type. Components without
assumptions of their own get them as a hypothesis: `Setting` in `Inboxes_proofs` (a page of
at least one publication), `MobileSetting`, `PackageSetting` and `GmailSetting` in
`Exchange_proofs` (bounds in `Nat`). The bounds on faults, edits, remote changes and
publications occur in no invariant, so the theorems say that no bound of a run hides a
violation behind it. Every invariant of a passing run, and every action property of one, is
stated by a theorem.

*`ConnectorRefresh_proofs`*: the invariants are those of `RetainingSpec`, where
`retain_batches` may run at any moment; `SpecIsRetaining` carries them over to `Spec`.

- `TypeCorrect`: `TypeOK`, with the location of each worker tied to its
  batch and claim (`ControlInv`): a worker executes or records only with a claim.
- `Fencing`: `ExclusiveLease`. It is not inductive by itself. `TokenInv` adds that no
  row or claim has a token that was not drawn yet and that claims of
  different workers have different tokens.
- `Finality`: `ResultsAreFinal`, from `RowsInv` (an item that is not RUNNING has no
  lease, a batch not yet created has no items) and the guards of the store's operations.
- `OneActive`: `OneActivePerHousehold`, inductive together with the types.
- `CountersMatch` and `VerdictIsOfAllItems`: `CountersMatchItems` and
  `VerdictOfAllItems`, from `CountInv`. The counters are kept incrementally by
  `complete_item` and only compared with the rows when a batch closes; the proof goes
  through the cardinalities of the sets of rows before and after one row moves.
- `RetentionIsSafe`: `RetentionSparesActive`, from `FinishedInv`: only batches that
  have a verdict are in `finished`, the list retention deletes from.
- `WakeupKept`: `NoLostWakeup`, for one worker (`WorkersAssumption` makes the
  cardinality mean what it says).
- `Refinement`: `Spec => RefinesRefreshBatch`. Needs `RowsInv`, `OpenInv` (an
  item without a result belongs to an ACTIVE batch) and the lemma `DrainedRow`: counters
  that close a batch leave no item open. Every other step
  is a stuttering step of the abstract batch.

*`ImportReview_proofs`*

- `TypeCorrect`: `TypeOK`.
- `CommitFence`: `PostedUnderReviewedBinding`. The key is `SeenIsCurrent`: while the
  generation is the one a screen saw, the row is the one it saw, because every
  change of the row increments the generation and generations never decrease.
- `EvidenceKept` and `PostedOnce`: `EvidenceOfLedger` and
  `OneTransactionPerExternalKey`, from one inductive invariant `LedgerInv`:
  types, evidence, `PointersInv` (the transactions that evidence, external keys and
  reviews name are in the ledger) and `KeyOwnersInv` (a ledger transaction with an
  external key is the owner of that key).
- `Deliberate`: `DuplicatesAreDeliberate`, from `DeliberateInv`, which keeps the
  decision of a posted candidate for as long as it is in the ledger.

*`Restore_proofs`*: one inductive invariant, `RestoreInv`, for three properties that look
at different instants of a restore.

- `SlotsInv` says which journals the two slots can hold together; `DiskInv` what is on
  disk for each phase of the latest journal, and with no journal (`Settled`); `StagingInv`,
  `WritingInv`, `ActivatingInv` and `UndoInv` what the running procedure has still to
  do. A crash forgets the procedure, so `DiskInv` alone has to make recovery right.
- `OpensWhole`, `NothingIsLost`, `SwapGoesThrough`: `OpensWholeData`,
  `NothingLost`, `SwapNeverRefused` follow from it; `TypeCorrect` is its first conjunct.

*`Inboxes_proofs`*: three inboxes that are filled behind the reviewer's back.

- `CursorLeavesNothingBehind`: `NothingUnregistered`. A page of publications is
  fetched at one cursor and stored at another, because worker and panel share it.
  `PagesOK` says what survives that: everything of another device up to the page's
  boundary is on the page or has its row. That a page has this property for any page
  size is proved from the relay's definition of it: if an entry below the boundary
  were missing, the page would be full without it (`LeastNumber`, `GreatestNumber`).
- `SingleReview` and `RevisionsOnlyGrow`: `OneOpenReview` and `NeverAppliesOlder`, from
  `ReviewInv`: an open review is unique and newer than what is applied.
- `ReviewsAreCurrent`: `PendingIsCurrent`. A row is PROCESSING exactly while it has a
  lease, and discovery of a newer generation retires the others and takes their leases
  away; so a hydration or preview of a retired row answers with a lease that is gone. A
  token drawn later is never the one of an answer still under way, by counting the
  tokens that are.
- `StagedRunsHaveTheirBytes`: `StagedWithItsBytes`. `PassOK` keeps what was downloaded
  between the generation whose metadata were compared before and the remote one
  now; if the comparison afterwards finds the same generation, nothing is left between.
  `ImportOK` and `JobOK` carry the bytes of a row from its preview to its run.
- `InboxTypesCorrect` composes the types of the three (`InboxInv`); `ReceiveTypesCorrect`
  states those of `FamilyReceive`.

*`Exchange_proofs`*

- Mobile capture: `CursorLeavesNothingBehind` is `NothingSkipped`, by `PageInv` and the
  argument above (`MatchingCount`); `DocumentsStay` is `PromotedHasDocument`: no rollback
  removes a document while a capture names it.
- Family sending: `SentExactlyOnce` is `DeliveredAsSent`, the conjunction of
  `ResendIsIdempotent` and `AcceptedIsRelayed`. The heart of `SendInv` is `RelayedOK`: an
  upload under way for the current version of a delivery carries that delivery's
  envelope, or one the relay refuses because it was sealed for former recipients.
  `ResetsOK` adds that an envelope is reset only once the relay has refused it.
- Change packages: `OverwritesAreDecided` is `NoUndecidedOverwrite`. An installation
  compares a package with its heads, not with history, so the invariant needs that a
  row equal to the head recorded for a source was exported by that source, at a revision
  not above the one applied; and that the verdicts of an open review stay true while other
  packages arrive. `AppliedInOrder` adds an action property no run lists: heads and
  applied revisions change together, for one source, upwards.
- Gmail: `GmailStaysMirrored` is `GmailMirrored`. The mirror is right only when a pass has
  ended, so the invariant speaks of messages that are *quiet* from a history id on (no
  later record names them): on these the Inbox agrees with the mailbox up to the stored id
  (`StoredOK`), and up to the id of a running pass, except where the pass still has an
  answer to give. An incremental pass touches only messages with a record since it began
  (`IncrementOK`); a full pass has found exactly the labelled ones so far (`ScanOK`); the
  lease ties the id a pass began with to the account's; and the last mutation of a
  message on a page is its last record (`RecordsOK`, `PageOK`).
- `MobileTypesCorrect`, `SendTypesCorrect`, `PackageTypesCorrect`, `GmailTypesCorrect`, and
  `ExchangeTypesCorrect` for the composition.

*`Ledger_proofs`*

- Relay outbox: `NoEditIsLost` is `UnsentStaysPending`. `OutboxInv` ties the delivery to its
  envelopes (`DeliveryOK`), and a panel that may still report acceptance to the latest
  delivery (`PanelsOK`): that is why an answer that arrives after the panel was closed
  can acknowledge nothing it did not carry.
- Links: `LinksAreConsistent` is `LinksConsistent`. `SettledOK` says of each confirmed
  payment, and `LabelsOK` of each statement, what a restore demands, although imports
  rewrite payments without looking at labels; the total of a statement is a sum over its
  confirmed payments, handled by induction along the order in which the fold takes them
  (`FoldExists`, `FoldInduction`).
- Browser vault: `ProjectionsFollowEvents` is `ProjectionsOfEvents`. `ExportOK` says that
  what an export has read is of one moment, or its events have become fewer than those
  of the vault; then the counter it reads last differs from the length of what it
  read, and the restore refuses the archive.
- Postings: `AcceptedIsBalanced` is `AcceptsExactlyBalanced`, by induction along the entries:
  a running total without overflow is the exact sum, and an overflow means the exact sum
  does not fit. `OrderDoesNotMatter` is `OrderIrrelevant`: two orders leave running totals
  that may differ once a side has overflowed, but only then (`Alike`), and the codes
  compare totals only without overflow; a journal with distinct ids has one entry for
  every place (`OneAtEachPlace`), and exchanging neighbours moves the places with the entries.
- `OutboxTypesCorrect`, `LinkTypesCorrect`, `PwaTypesCorrect`, and `LedgerTypesCorrect` for
  the composition, with `RestoreTypesCorrect`.

*`DriveSync_proofs`*: the stored tree while the remote one changes.

- `DriveTypes`: `TypeOK`, with the fence (`Ground`): a worker that holds the lease knows the
  published cursor, and the cursor of a run is never behind it.
- `Mirror` is what the two other theorems rest on. A node is *quiet* from a cursor on
  when no later change names it. For the published cursor, and for the run's with the
  exception of the ids of the page that it has not stored yet: a quiet node in a listed
  folder is stored as it is (*complete*), and a quiet node stored in the tree is stored where it is,
  below a folder of the tree (*sound*). `PageInv` describes the page being
  applied: it tells of a quiet node what it is now, its members are closed under the
  parents it names, and a folder that is no member has left the stored tree before the
  upserts begin. Every later remote change makes the nodes it names not quiet, which
  is why nothing that happens during a crawl can break it.
- `NothingMissedAlways`: at the end of the log every node is quiet; the least set argument
  then carries completeness down from the root, over listed folders and what is below
  unlisted ones.
- `NoGhostsAlways`: by soundness a ghost hangs from a ghost, and a finite climb of that kind
  needs a cycle, which the remote tree does not have.

Only model-checked: the liveness properties and the fairness they need (`EveryBatchFinishes`,
`LeasesComeBack`, `DiscoveryCatchesUp`), because TLAPS does not do `ENABLED`. What the runs
of section 6 refute is refuted on their instances; the theorems about the same modules
say what holds beside it.

## 5. Assumptions and abstractions

- SQLite transactions are atomic and serialised; constraints and triggers abort
  the statement. The wall clock does not step backwards; `created_at` has no ties.
- Error codes, messages, validation of text and identifiers are left out, except
  where they decide whether an operation happens.
- Directory syncs make renames durable in order; the OS credential store is
  atomic per entry.
- A retry delay is any delay: `next_due_at` is kept only where an operation sets it
  and reads it in the same transaction.
- A payload is the number of the edit that made it, a file the number of its
  generation, an image its digest: hashes do not collide.

Not modelled, and why:

- OAuth, HTTP, token storage, MIME and capsule parsing, OCR, PDF and spreadsheet
  extraction, archive formats and all cryptography: input and output, or out of a
  model checker's reach.
- `persistence.rs` (opening, keying, migrating, most of the restore validation),
  `connector_control.rs`, `connector_projection.rs`: schema and read-only queries.
- Investments, calendar, forecasts, analytics, reviews and PDF reports: sequential
  single-row edits and calculations without state that two actors share.
- Limits on bytes, pages and node counts; the 25-row limit of `claim_inbox` against
  the 100 rows a hydration lists.
- Evidence and pending-import bundles, memberships and invitations, what a snapshot
  contains, discarding a capture (a flag of the listing), settlement-account mapping,
  due dates, classification rules, coverage warnings, the authorisation token between
  the two restore commands.

Most of the repository's lines are of these kinds, or tests.

## 6. Disagreements found

Kept as runs that expect a violation:

1. *A file that left the Drive folder is not removed once it was hydrated.*
   `discover_nodes_claimed` (`google_drive_store.rs:406`) sets REMOVED and keeps
   `content_sha256`, which the table's CHECK (0054, 0056) does not allow in that
   state. The page fails, and so does every later run that meets the change. The
   tests at `google_drive_sync_adapter.rs:739` and `:905` expect REMOVED, for rows
   without content. (`drive_removal_stored`)
2. *Automatic family intake rejects valid packages.* The worker stages inside its own
   transaction (`family_delivery_scheduler.rs:433`, `:445`); staging drains the local
   capture in a transaction (`sync_foundation.rs:260`), SQLite refuses the nesting, and
   any error becomes REJECTED_INVALID. (`family_intake_stages`)
3. *Editing an expense with a linked receipt makes every later backup unrestorable.*
   `update_posted_transaction` (`read_model.rs:1869`) protects card links only; the
   restore validation (`persistence.rs:1101`) demands that amount and date still fit
   the receipt. (`receipt_links_restorable`)
4. *One crash point of restore is not restart-safe.* After a rolled-back activation
   the work directory is removed entry by entry (`restore.rs:550`). If the process
   dies when the newer journal is gone and the older one, still *Prepared*, is left,
   every later start tries to activate it, finds the pending key discarded, and
   fails. The live data is intact (`ledger` checks `NothingLost` in the same states);
   only deleting `.restore-work` by hand lets the application start.
   (`restore_restart_safe`)

Stated in the modules, refuted by TLC on small instances, and not kept as runs:

5. `RetentionBound` (`ConnectorRefresh`): the connector design document (line 174)
   promises at most 100 completed batches per household; `retain_batches`
   (`connector_refresh.rs:728`) has no caller outside tests.
6. `ResultBeforeNextItem` (`ConnectorRefresh`): `docs/ARCHITECTURE.md:48` says each
   result is persisted before the next item. After an infrastructure error the pass is
   abandoned (`connector_refresh_worker.rs:655`) and the next pass claims the next
   item. No result is lost (`EveryBatchFinishes`).
7. `UnpostedRunCanRollBack` (`ImportReview`): `rollback_import` (`import_workflow.rs:2560`)
   deletes candidates; if another run's duplicate review names one, `ON DELETE SET
   NULL` violates the CHECK of migration 0066. The schema of the unit tests lacks it.
8. `NoDescendantOmitted` (`DriveSync`): a folder that enters the tree is stored before
   the full crawl it calls for (`google_drive_sync_adapter.rs:392`). A crash in between
   leaves it stored, the next replay no longer sees an expansion, and its files are
   not found until they change. `NothingMissed` therefore excepts what lies below
   folders not listed since they entered, or since a crawl restarted past changes (14).
9. `ReadyIsReadable` (`DriveInbox`): `import_rollback` (`lib.rs:4106`) deletes the vault
   object of a document no other document uses, whatever Drive, Gmail or capture row
   still names it; the READY row can then not be previewed. `CaptureKeepsImage`
   (`MobileCapture`) fails for the same reason.
10. `EvidenceComesBack` (`GmailSync`): `App.tsx:1997` relies on "native lease recovery",
    which the Gmail Inbox, unlike the two others, does not have: a claimed message whose
    screen went away stays PROCESSING.
11. `EditsAreMarked` (`FamilySend`): `mark_accepted` (`family_delivery_transport.rs:1500`)
    clears the dirty mark of a partition, also for an edit made after the package was
    prepared.
12. `PostedOnce` (`PwaVault`): `approveCandidate` checks the candidate's status before it
    reads the revision it will expect (`client.ts:233`, `:391`); two tabs can post one
    candidate twice. `SourcesHaveEvidence`: an export (`client.ts:370`) beside a running
    change can contain a source whose evidence it has not read.

13. `NoOrphans` (`DriveSync`): `google_drive_sync_adapter.rs:375` applies removals first
    "so explicit descendant upserts later in this same page can restore their final
    membership". But membership is resolved before the removals, from the tree as it was
    (`persist_change_page`): a node moved into folder e, on a page on which an ancestor of e
    leaves, is stored in the tree although e was taken out of it. `NoGhosts` excepts these.
14. A full crawl that restarts past unreplayed changes only adds. What left in the part it
    skipped stays stored (`NoGhosts` excepts it: `skipped`), and when such a folder
    returns, `was_in_tree` is true, no expansion is seen, and files that entered it
    meanwhile are missed.
15. `StoredParentsEnd` (`DriveSync`): a crawl that races with moves stores parents of different
    moments, which can form a cycle. The recursive query of `stored_subtree`
    (`google_drive_sync_adapter.rs:257`, `UNION ALL`) then does not end, under the mutex.

## 7. Plan

Done: the refresh path, imports with bindings, links, the posting core, restore, the
three Inboxes, Gmail, mobile capture, family delivery, the relay outbox, change
packages and the browser vault; theorems for every safety property of the passing runs. What is
left, most important first:

1. An abstract sender for `FamilySend` and `RelayOutbox` (an edit is pending, then at the
   relay, never the reverse), with a refinement step like that of `RefreshBatch`; the
   invariants `SendInv` and `OutboxInv` already give the lemmas it needs.
2. An abstract restore (old data, then new data or old data, in one step) that `Restore`
   implements, from `RestoreInv`.
