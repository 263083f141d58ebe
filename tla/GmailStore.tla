------------------------------ MODULE GmailStore ------------------------------
(***************************************************************************)
(* The SQLite half of the Gmail connector (src-tauri/src/gmail_store.rs),  *)
(* as pure functions of the rows, with the conventions of DriveStore.  A   *)
(* connection row is [status, cursor, scanned]: history_id and whether     *)
(* last_full_scan_at is set.  A message's generation is its id, so there   *)
(* is one Inbox row per message.                                           *)
(***************************************************************************)
EXTENDS Naturals

CONSTANT MaxInboxAttempts  \* MAX_INBOX_ATTEMPTS, 5

NoSyncLease == 0
NoBytes == 0

----------------------------------------------------------------------------
(* gmail_connections and gmail_sync_schedules *)

NoAccount == [status |-> "NONE", cursor |-> 0, scanned |-> FALSE]

begin_connection(c) == [NoAccount EXCEPT !.status = "AUTHORIZING"]
mark_authorized(c, historyId) == [c EXCEPT !.status = "SELECTING_LABEL", !.cursor = historyId]
bind_label(c, historyId) == [c EXCEPT !.status = "CONNECTED", !.cursor = historyId]
disconnect(c) == [c EXCEPT !.status = "DISCONNECTED"]

NoPolling == [exists |-> FALSE, enabled |-> FALSE, token |-> NoSyncLease, live |-> FALSE]

Freed(s) == [s EXCEPT !.token = NoSyncLease, !.live = FALSE]

configure_schedule(enabled) == [NoPolling EXCEPT !.exists = TRUE, !.enabled = enabled]

\* The schedule half of disconnect.
disabled_schedule(s) == [Freed(s) EXCEPT !.enabled = FALSE]

Claimable(c, s) == c.status = "CONNECTED" /\ s.enabled /\ s.token = NoSyncLease

\* An expired lease is released and the row is due at once.
claim_due_sync(c, s, token) ==
  LET r == IF s.token # NoSyncLease /\ ~s.live THEN Freed(s) ELSE s IN
  IF Claimable(c, r) THEN [r EXCEPT !.token = token, !.live = TRUE] ELSE r

\* Only a schedule without any lease is a candidate; an expired one is not.
claim_next_due_sync(c, s, token) ==
  IF Claimable(c, s) THEN claim_due_sync(c, s, token) ELSE s

\* A heartbeat also revives a lease that expired and that nobody has taken.
CanHeartbeat(s, token) == s.enabled /\ s.token = token
heartbeat_sync(s) == [s EXCEPT !.live = TRUE]

assert_sync(c, s, token, cursor) == c.cursor = cursor /\ s.token = token /\ s.live

\* The connection half of complete_sync and complete_full_reconciliation.
complete_sync(c, to, full) == [c EXCEPT !.cursor = to, !.scanned = @ \/ full]

require_full_reconciliation(c) == [c EXCEPT !.scanned = FALSE]
fail_sync(s) == Freed(s)

----------------------------------------------------------------------------
(* gmail_inbox *)

Unleased(row) == [row EXCEPT !.token = NoSyncLease, !.live = FALSE, !.origin = "none"]
OpenStates == {"DISCOVERED", "PROCESSING", "READY", "FAILED"}

discover_messages_claimed(row) ==
  CASE row.state = "ABSENT" -> [row EXCEPT !.state = "DISCOVERED"]
    [] row.state = "REMOVED" ->
         [row EXCEPT !.state = IF row.content # NoBytes THEN "READY" ELSE "DISCOVERED"]
    [] OTHER -> row

mark_message_removed_claimed(row) ==
  IF row.state \in OpenStates THEN [Unleased(row) EXCEPT !.state = "REMOVED"] ELSE row

CanClaim(row) == row.state \in {"DISCOVERED", "READY"} /\ row.tries < MaxInboxAttempts
claim_inbox(row, token) ==
  [row EXCEPT !.state = "PROCESSING", !.origin = row.state, !.tries = @ + 1,
              !.token = token, !.live = TRUE]

Holds(row, token) == row.state = "PROCESSING" /\ row.token = token

CanMarkReady(row, token) == Holds(row, token) /\ row.origin = "DISCOVERED" /\ row.live
mark_inbox_ready(row, bytes) == [Unleased(row) EXCEPT !.state = "READY", !.content = bytes]

\* An expired lease may still be completed: nothing recovers it.
CanMarkStaged(row, token) == Holds(row, token) /\ row.origin = "READY" /\ row.content # NoBytes
mark_inbox_staged(row, run) == [Unleased(row) EXCEPT !.state = "STAGED", !.run = run]

fail_inbox(row) == [Unleased(row) EXCEPT !.state = "FAILED"]

CanRetry(row) == row.state = "FAILED"
retry_inbox(row) ==
  [row EXCEPT !.state = IF row.content = NoBytes THEN "DISCOVERED" ELSE "READY", !.tries = 0]

CanIgnore(row) == row.state \in {"DISCOVERED", "READY", "FAILED"}
ignore_inbox(row) == [row EXCEPT !.state = "IGNORED"]
==============================================================================
