------------------------------ MODULE DriveStore ------------------------------
(***************************************************************************)
(* The SQLite half of the Google Drive connector                           *)
(* (src-tauri/src/google_drive_store.rs): what each store function makes   *)
(* of the rows it reads.  The functions are pure; the modules that run     *)
(* them (DriveSync, DriveInbox) own the rows as variables.                 *)
(*                                                                         *)
(* One connection, so a connection row is [status, cursor, scanned]:       *)
(* change_page_token and whether last_full_scan_at is set.  Of a lease's   *)
(* expiry a row keeps live (lease_expires_at>now).  next_due_at is not     *)
(* kept: any time may pass before the next claim, so an enabled schedule   *)
(* may be due; only a claim that first recovers an expired lease finds the *)
(* next_due_at it has just set in the future.  The RETRY_BACKOFF           *)
(* suspension ends when the row is due again and the failure count only    *)
(* lengthens the delay; suspended is a terminal suspension.  Generations   *)
(* are numbered in the order the remote file had them.  UNSUPPORTED and    *)
(* TOO_LARGE files are never opened and are left out, as is NEEDS_MAPPING: *)
(* accept_without_mapping answers false.                                   *)
(***************************************************************************)
EXTENDS Naturals

CONSTANTS
  Files,          \* remote files that can be reviewed
  Folders,        \* remote folders below the selected root
  MaxGeneration,  \* generations of a file considered
  MaxAttempts     \* MAX_INBOX_ATTEMPTS, 5

ASSUME StoreAssumption ==
  /\ Files \cap Folders = {}
  /\ MaxGeneration \in Nat \ {0}
  /\ MaxAttempts \in Nat \ {0}

NoLease == 0
NoContent == 0
Generations == 1..MaxGeneration
Nodes == Files \cup Folders

----------------------------------------------------------------------------
(* google_drive_connections *)

NoConnection == [status |-> "NONE", cursor |-> 0, scanned |-> FALSE]

begin_connection(c) == [NoConnection EXCEPT !.status = "AUTHORIZING"]
mark_authorized(c) == [c EXCEPT !.status = "SELECTING_FOLDER"]
select_root_with_baseline(c, token) ==
  [c EXCEPT !.status = "CONNECTED", !.cursor = token]
require_reauthorization(c) == [c EXCEPT !.status = "AUTH_REQUIRED"]
disconnect(c) == [c EXCEPT !.status = "DISCONNECTED"]

----------------------------------------------------------------------------
(* google_drive_sync_schedules *)

NoSchedule ==
  [exists |-> FALSE, enabled |-> FALSE, token |-> NoLease, live |-> FALSE,
   suspended |-> FALSE]

Released(s) == [s EXCEPT !.token = NoLease, !.live = FALSE]

configure_schedule(enabled) ==
  [NoSchedule EXCEPT !.exists = TRUE, !.enabled = enabled]

\* The schedule half of disconnect.
disabled_schedule(s) ==
  [Released(s) EXCEPT !.enabled = FALSE, !.suspended = FALSE]

suspend_schedule_in(s) ==
  IF s.enabled THEN [Released(s) EXCEPT !.suspended = TRUE] ELSE s

Expired(s) == s.enabled /\ s.token # NoLease /\ ~s.live

recover_expired_sync_lease_in(s) == IF Expired(s) THEN Released(s) ELSE s

\* The WHERE clause that claim_due_sync and claim_next_due_sync share.
Claimable(c, s) ==
  /\ c.status = "CONNECTED"
  /\ s.enabled /\ s.token = NoLease /\ ~s.suspended

claim_due_sync(c, s, token) ==
  IF ~Expired(s) /\ Claimable(c, s)
  THEN [s EXCEPT !.token = token, !.live = TRUE, !.suspended = FALSE]
  ELSE recover_expired_sync_lease_in(s)

\* Only a schedule without any lease is a candidate; an expired one is not.
claim_next_due_sync(c, s, token) ==
  IF Claimable(c, s) THEN claim_due_sync(c, s, token) ELSE s

assert_sync_lease_in(c, s, token) ==
  c.status = "CONNECTED" /\ s.enabled /\ s.token = token /\ s.live

\* The two halves of complete_sync.
complete_schedule(s) == [Released(s) EXCEPT !.suspended = FALSE]

\* Mutant: the position after the terminal one is published.
complete_past_end(c, cursor, full) ==
  [c EXCEPT !.cursor = cursor + 1, !.scanned = @ \/ full]

complete_cursor(c, cursor, full) ==
  [c EXCEPT !.cursor = cursor, !.scanned = @ \/ full]

fail_sync(s) == Released(s)

\* The two halves of require_full_reconciliation.
full_scan_required(c) == [c EXCEPT !.scanned = FALSE]
full_scan_released(s) == [Released(s) EXCEPT !.suspended = FALSE]

suspend_sync_claimed(s) == [Released(s) EXCEPT !.suspended = TRUE]

----------------------------------------------------------------------------
(* google_drive_nodes: the current metadata of every node ever stored *)

UnknownNode == [known |-> FALSE, parent |-> "none", gen |-> 1, tree |-> FALSE]

\* The node as a page describes it.
node(parent, gen, tree) == [known |-> TRUE, parent |-> parent, gen |-> gen, tree |-> tree]

----------------------------------------------------------------------------
(* google_drive_inbox: one row per file and generation *)

NoItem ==
  [state |-> "ABSENT", tries |-> 0, content |-> NoContent, token |-> NoLease,
   live |-> FALSE, origin |-> "none", run |-> 0]

Reviewable == {"DISCOVERED", "READY"}
Open == Reviewable \cup {"PROCESSING", "FAILED"}
ItemStates == Open \cup {"ABSENT", "REMOVED", "IGNORED", "STAGED"}

Unleased(row) == [row EXCEPT !.token = NoLease, !.live = FALSE, !.origin = "none"]

\* Mutant: only the generations other than the new one are retired.
retire_other_generations(row, g, old, new) ==
  IF old.known /\ old.gen # new.gen /\ g # new.gen /\ row.state \in Open
  THEN [Unleased(row) EXCEPT !.state = "REMOVED"] ELSE row

\* The UPDATE of discover_nodes_claimed for the row of generation g.
retire(row, g, old, new) ==
  IF /\ ~new.tree \/ (old.known /\ old.gen # new.gen /\ g # new.gen)
     /\ row.state \in Open
  THEN [Unleased(row) EXCEPT !.state = "REMOVED"] ELSE row

\* The rows of one file after discover_nodes_claimed has stored a node.
discover_items(rows, old, new) ==
  [g \in Generations |->
     LET row == retire(rows[g], g, old, new) IN
     IF new.tree /\ g = new.gen /\ row.state \in {"ABSENT", "REMOVED"}
     THEN [row EXCEPT !.state = "DISCOVERED"] ELSE row]

\* discover_nodes_claimed for a set of nodes, stored in one transaction.
discover_stored(stored, new) == [n \in Nodes |-> IF n \in DOMAIN new THEN new[n] ELSE stored[n]]
discover_inbox(inbox, stored, new) ==
  [f \in Files |-> IF f \in DOMAIN new THEN discover_items(inbox[f], stored[f], new[f]) ELSE inbox[f]]

\* The CHECK constraint on content_sha256 (migration 0056): a row with content
\* cannot be REMOVED or DISCOVERED, so a page that would retire one is refused.
DiscoverFits(rows) ==
  \A g \in Generations : rows[g].content # NoContent => rows[g].state \notin {"REMOVED", "DISCOVERED"}

CanIgnore(row) == row.state \in Reviewable \cup {"FAILED"}
ignore_inbox(row) == [Unleased(row) EXCEPT !.state = "IGNORED"]

CanRetry(row) == row.state = "FAILED" /\ row.tries < MaxAttempts
retry_inbox(row) ==
  [row EXCEPT !.state = IF row.content = NoContent THEN "DISCOVERED" ELSE "READY"]

\* Mutant: a lease is taken back only while it is live.
expired_inbox_leases_kept(row) ==
  IF row.state = "PROCESSING" /\ row.live THEN [Unleased(row) EXCEPT !.state = row.origin] ELSE row

recover_expired_inbox_leases_in(row) ==
  IF row.state = "PROCESSING" /\ ~row.live
  THEN [Unleased(row) EXCEPT !.state = IF row.origin = "DISCOVERED" /\ row.tries >= MaxAttempts
                                       THEN "FAILED" ELSE row.origin]
  ELSE row

CanClaim(row) == row.state \in Reviewable /\ row.tries < MaxAttempts
claim_inbox(row, token) ==
  [row EXCEPT !.state = "PROCESSING", !.origin = row.state, !.tries = @ + 1,
              !.token = token, !.live = TRUE]

\* The WHERE clause of complete_inbox_lease.
holds_inbox_lease(row, token) == row.state = "PROCESSING" /\ row.token = token /\ row.live

mark_inbox_ready(row, content) ==
  [Unleased(row) EXCEPT !.state = "READY", !.content = content, !.run = 0]
fail_inbox(row) == [Unleased(row) EXCEPT !.state = "FAILED", !.run = 0]
mark_inbox_staged(row, run) == [Unleased(row) EXCEPT !.state = "STAGED", !.run = run]

CanReopen(row, run) == row.state = "STAGED" /\ row.run = run /\ row.content # NoContent
reopen_staged_inbox(row) == [row EXCEPT !.state = "READY", !.run = 0]
==============================================================================
