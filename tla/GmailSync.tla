------------------------------- MODULE GmailSync -------------------------------
(***************************************************************************)
(* Synchronising one Gmail label into the Inbox and importing from it: the *)
(* background worker (gmail_scheduler.rs) and "Sync now"                   *)
(* (gmail_commands.rs) run gmail_sync.rs over gmail_sync_adapter.rs on the *)
(* rows of GmailStore, and the screen claims, imports and stages what is   *)
(* READY (startTrackedImport).                                             *)
(*                                                                         *)
(* As in DriveSync the body of a run holds the connection mutex, and what  *)
(* can happen inside it is a remote change, a provider failure, an expiry  *)
(* or a crash between two transactions.  A message is discovered, claimed  *)
(* and made READY in three of them.                                        *)
(*                                                                         *)
(* The mailbox is external: messages gain and lose the label or are        *)
(* deleted, each time with a history record; history ids are positions.    *)
(* An import run's documents are idempotent by content, so a message has   *)
(* at most one live run (external: import_start); a linked document        *)
(* cannot be deleted (gmail_source_links ON DELETE RESTRICT).              *)
(***************************************************************************)
EXTENDS GmailStore, Sequences, FiniteSets

CONSTANTS
  Messages,        \* remote messages
  MaxRecords,      \* history records considered
  MaxGmailFaults   \* crashes, lease expiries and provider failures considered

Poller == "background"
Requested == "sync_now"
Syncers == {Poller, Requested}

VARIABLES
  mailbox,   \* remote: "labelled", "unlabelled" or "deleted"
  records,   \* remote: the history
  oldest,    \* remote: history ids below it have expired
  account,   \* the gmail_connections row
  polling,   \* its gmail_sync_schedules row
  letters,   \* gmail_inbox, one row per message
  linked,    \* messages whose source document is in gmail_source_links
  syncer,    \* per worker: pc, its lease and what it loaded
  pass,      \* the run inside the mutex
  import,    \* the screen's import of one message
  runs,      \* import_runs: the latest run of each message
  mishaps    \* crashes, expiries and failures so far

gmailRemote == <<mailbox, records, oldest>>
gmailRows == <<account, polling, letters, linked>>
gmailVars == <<mailbox, records, oldest, account, polling, letters, linked, syncer, pass,
               import, runs, mishaps>>

NoLetter ==
  [state |-> "ABSENT", tries |-> 0, content |-> NoBytes, token |-> NoSyncLease,
   live |-> FALSE, origin |-> "none", run |-> 0]

Idle == [pc |-> "idle", token |-> NoSyncLease, cursor |-> 0, restore |-> FALSE]

NoPass ==
  [by |-> "nobody", phase |-> "none", token |-> NoSyncLease, lease |-> 0, full |-> FALSE,
   from |-> 0, cursor |-> 0, unlisted |-> {}, drain |-> FALSE, page |-> <<>>, present |-> {},
   msg |-> "none"]

NoImport == [pc |-> "idle", msg |-> "none", token |-> NoSyncLease]

GmailInit ==
  /\ mailbox \in [Messages -> {"labelled", "unlabelled"}]
  /\ records = <<>>
  /\ oldest = 0
  /\ account = NoAccount
  /\ polling = NoPolling
  /\ letters = [m \in Messages |-> NoLetter]
  /\ linked = {}
  /\ syncer = [w \in Syncers |-> Idle]
  /\ pass = NoPass
  /\ import = NoImport
  /\ runs = [m \in Messages |-> "none"]
  /\ mishaps = 0

HistoryId == Len(records) + 1

NewSyncLease ==
  CHOOSE t \in 1..4 : t # polling.token /\ \A w \in Syncers : syncer[w].token # t

----------------------------------------------------------------------------
(* The mailbox *)

MailboxChange(m, now) ==
  /\ account.status = "CONNECTED"
  /\ Len(records) < MaxRecords
  /\ mailbox[m] \notin {now, "deleted"}
  /\ mailbox' = [mailbox EXCEPT ![m] = now]
  /\ records' = Append(records, [msg |-> m, upsert |-> now = "labelled"])
  /\ UNCHANGED <<oldest, gmailRows, syncer, pass, import, runs, mishaps>>

HistoryExpires ==
  /\ account.status = "CONNECTED" /\ oldest = 0 /\ account.cursor < HistoryId
  /\ oldest' = account.cursor + 1
  /\ UNCHANGED <<mailbox, records, gmailRows, syncer, pass, import, runs, mishaps>>

----------------------------------------------------------------------------
(* Commands, each one with_connection *)

connectionFree == pass.by = "nobody"

gmail_connect ==
  /\ connectionFree
  /\ \/ account.status = "NONE" /\ account' = begin_connection(account)
     \/ account.status = "AUTHORIZING" /\ account' = mark_authorized(account, HistoryId)
  /\ UNCHANGED <<gmailRemote, polling, letters, linked, syncer, pass, import, runs, mishaps>>

gmail_label_bind ==
  /\ connectionFree
  /\ account.status = "SELECTING_LABEL"
  /\ account' = bind_label(account, HistoryId)
  /\ polling' = configure_schedule(FALSE)
  /\ UNCHANGED <<gmailRemote, letters, linked, syncer, pass, import, runs, mishaps>>

gmail_schedule_update(enabled) ==
  /\ connectionFree
  /\ account.status = "CONNECTED"
  /\ polling' = configure_schedule(enabled)
  /\ UNCHANGED <<gmailRemote, account, letters, linked, syncer, pass, import, runs, mishaps>>

gmail_disconnect ==
  /\ connectionFree
  /\ account.status \notin {"NONE", "DISCONNECTED"}
  /\ account' = disconnect(account)
  /\ polling' = disabled_schedule(polling)
  /\ UNCHANGED <<gmailRemote, letters, linked, syncer, pass, import, runs, mishaps>>

----------------------------------------------------------------------------
(* Claiming *)

ClaimedBy(w, s, restore) ==
  syncer' = [syncer EXCEPT ![w] =
    IF s.token = NewSyncLease
    THEN [pc |-> "claimed", token |-> NewSyncLease, cursor |-> account.cursor, restore |-> restore]
    ELSE [Idle EXCEPT !.pc = IF restore THEN "restoring" ELSE "idle"]]

\* The loop of gmail_scheduler.rs.
poll ==
  /\ connectionFree
  /\ syncer[Poller].pc = "idle"
  /\ Claimable(account, polling)
  /\ polling' = claim_next_due_sync(account, polling, NewSyncLease)
  /\ ClaimedBy(Poller, polling', FALSE)
  /\ UNCHANGED <<gmailRemote, account, letters, linked, pass, import, runs, mishaps>>

start_gmail_sync ==
  /\ connectionFree
  /\ syncer[Requested].pc = "idle"
  /\ polling.exists
  /\ polling.enabled \/ account.status = "CONNECTED"
  /\ LET restore == ~polling.enabled
         on == IF restore THEN configure_schedule(TRUE) ELSE polling
     IN /\ polling' = claim_due_sync(account, on, NewSyncLease)
        /\ ClaimedBy(Requested, polling', restore)
  /\ UNCHANGED <<gmailRemote, account, letters, linked, pass, import, runs, mishaps>>

Mishap == mishaps < MaxGmailFaults /\ mishaps' = mishaps + 1

DoneSyncing(w) ==
  [syncer EXCEPT ![w] = IF @.restore THEN [Idle EXCEPT !.pc = "restoring"] ELSE Idle]

\* The schedule after fail_if_active: heartbeat, then fail_sync if it is fenced.
fail_if_active(token, cursor) ==
  IF CanHeartbeat(polling, token) /\ assert_sync(account, heartbeat_sync(polling), token, cursor)
  THEN fail_sync(polling) ELSE polling

\* finish_claim: a failure before the run; a missing credential asks for
\* authorization whatever has become of the connection.
finish_claim(w, terminal) ==
  /\ connectionFree
  /\ syncer[w].pc = "claimed"
  /\ Mishap
  /\ polling' = fail_if_active(syncer[w].token, syncer[w].cursor)
  /\ account' = IF terminal THEN [account EXCEPT !.status = "AUTH_REQUIRED"] ELSE account
  /\ syncer' = DoneSyncing(w)
  /\ UNCHANGED <<gmailRemote, letters, linked, pass, import, runs>>

----------------------------------------------------------------------------
(* run_claimed_gmail_sync, inside the mutex *)

GmailLeave ==
  /\ pass' = NoPass
  /\ syncer' = DoneSyncing(pass.by)

\* A full run captures the history id before it lists anything.
FullPass(w, token, lease) ==
  [NoPass EXCEPT !.by = w, !.token = token, !.lease = lease, !.full = TRUE, !.from = HistoryId,
                 !.cursor = HistoryId, !.phase = "list", !.unlisted = Messages]

run_claimed_gmail_sync(w) ==
  /\ connectionFree
  /\ syncer[w].pc = "claimed"
  /\ IF CanHeartbeat(polling, syncer[w].token)
     THEN /\ polling' = heartbeat_sync(polling)
          /\ pass' = IF ~account.scanned THEN FullPass(w, syncer[w].token, syncer[w].cursor)
                     ELSE [NoPass EXCEPT !.by = w, !.token = syncer[w].token,
                             !.lease = syncer[w].cursor, !.from = syncer[w].cursor,
                             !.cursor = syncer[w].cursor, !.phase = "history"]
          /\ syncer' = [syncer EXCEPT ![w].pc = "running", ![w].cursor = 0]
     ELSE /\ syncer' = DoneSyncing(w)
          /\ UNCHANGED <<polling, pass>>
  /\ UNCHANGED <<gmailRemote, account, letters, linked, import, runs, mishaps>>

Fenced == CanHeartbeat(polling, pass.token) /\ account.cursor = pass.lease

PassFails ==
  /\ polling' = fail_if_active(pass.token, pass.lease)
  /\ GmailLeave
  /\ UNCHANGED account

\* The provider or the vault fails, the lease is lost, or an Inbox row that was
\* discovered can be claimed or completed no more.
pass_fails ==
  /\ \/ pass.phase \in {"list", "history", "fetch", "claim"} /\ Mishap
     \/ /\ \/ pass.phase \in {"store", "complete"} /\ ~Fenced
           \/ pass.phase = "claim" /\ ~CanClaim(letters[pass.msg])
           \/ pass.phase = "ready" /\ ~CanMarkReady(letters[pass.msg], pass.token)
        /\ mishaps' = mishaps
  /\ PassFails
  /\ UNCHANGED <<gmailRemote, letters, linked, import, runs>>

\* list_messages: a page covers part of what is not listed yet, in any order.
list_messages ==
  /\ pass.phase = "list"
  /\ \E part \in SUBSET pass.unlisted \ {{}} :
       pass' = [pass EXCEPT !.phase = "fetch", !.unlisted = @ \ part,
                  !.page = [m \in {n \in part : mailbox[n] = "labelled"} |-> TRUE]]
  /\ UNCHANGED <<gmailRemote, gmailRows, syncer, import, runs, mishaps>>

\* Mutant: the first mutation of a message in a page wins.
first_mutations(from, to) ==
  [m \in {records[i].msg : i \in from..to} |->
     LET first == CHOOSE i \in from..to : records[i].msg = m /\ \A j \in from..(i - 1) : records[j].msg # m
     IN records[first].upsert]

\* The last mutation of every message in a page wins.
normalize_history_mutations(from, to) ==
  [m \in {records[i].msg : i \in from..to} |->
     LET last == CHOOSE i \in from..to : records[i].msg = m /\ \A j \in (i + 1)..to : records[j].msg # m
     IN records[last].upsert]

\* One page of drain_history, up to any later record.
list_history ==
  /\ pass.phase = "history"
  /\ pass.from >= oldest
  /\ \E to \in pass.cursor..HistoryId :
       /\ to = pass.cursor => to = HistoryId
       /\ pass' = [pass EXCEPT !.phase = "fetch", !.cursor = to, !.drain = TRUE,
                     !.page = normalize_history_mutations(pass.cursor, to - 1)]
  /\ UNCHANGED <<gmailRemote, gmailRows, syncer, import, runs, mishaps>>

\* get_raw_message for a page.  A message that is gone is skipped by the full
\* listing and removed by the history.
fetch_page ==
  /\ pass.phase = "fetch"
  /\ LET found == {m \in DOMAIN pass.page : pass.page[m] /\ mailbox[m] # "deleted"} IN
     pass' = [pass EXCEPT !.phase = "store",
                !.page = [m \in IF pass.drain THEN DOMAIN pass.page ELSE found |-> m \in found]]
  /\ UNCHANGED <<gmailRemote, gmailRows, syncer, import, runs, mishaps>>

\* persist_raw_messages, first transaction: the message is discovered.  Only
\* a row that is now DISCOVERED is hydrated.
persist_raw_message(m) ==
  /\ pass.phase = "store" /\ m \in DOMAIN pass.page /\ pass.page[m]
  /\ Fenced
  /\ polling' = heartbeat_sync(polling)
  /\ letters' = [letters EXCEPT ![m] = discover_messages_claimed(@)]
  /\ pass' = [pass EXCEPT !.page = [n \in DOMAIN @ \ {m} |-> @[n]], !.present = @ \cup {m},
                !.phase = IF letters'[m].state = "DISCOVERED" THEN "claim" ELSE "store",
                !.msg = IF letters'[m].state = "DISCOVERED" THEN m ELSE "none"]
  /\ UNCHANGED <<gmailRemote, account, linked, syncer, import, runs, mishaps>>

\* Second: the bytes are in the vault and the row is claimed.
claim_for_hydration ==
  /\ pass.phase = "claim" /\ CanClaim(letters[pass.msg])
  /\ letters' = [letters EXCEPT ![pass.msg] = claim_inbox(@, pass.token)]
  /\ pass' = [pass EXCEPT !.phase = "ready"]
  /\ UNCHANGED <<gmailRemote, account, polling, linked, syncer, import, runs, mishaps>>

\* Third: it is READY with those bytes.
hydrate ==
  /\ pass.phase = "ready" /\ CanMarkReady(letters[pass.msg], pass.token)
  /\ letters' = [letters EXCEPT ![pass.msg] = mark_inbox_ready(@, 1)]
  /\ pass' = [pass EXCEPT !.phase = "store", !.msg = "none"]
  /\ UNCHANGED <<gmailRemote, account, polling, linked, syncer, import, runs, mishaps>>

persist_removed_message(m) ==
  /\ pass.phase = "store" /\ m \in DOMAIN pass.page /\ ~pass.page[m]
  /\ Fenced
  /\ polling' = heartbeat_sync(polling)
  /\ letters' = [letters EXCEPT ![m] = mark_message_removed_claimed(@)]
  /\ pass' = [pass EXCEPT !.page = [n \in DOMAIN @ \ {m} |-> @[n]], !.present = @ \ {m}]
  /\ UNCHANGED <<gmailRemote, account, linked, syncer, import, runs, mishaps>>

\* A page is stored: the next page of the listing, the history after the
\* listing, the next page of the history, or the end.
page_stored ==
  /\ pass.phase = "store" /\ DOMAIN pass.page = {}
  /\ pass' = [pass EXCEPT !.phase =
                CASE ~pass.drain /\ pass.unlisted # {} -> "list"
                  [] ~pass.drain /\ pass.unlisted = {} -> "history"
                  [] pass.drain /\ pass.cursor < HistoryId -> "history"
                  [] OTHER -> "complete"]
  /\ UNCHANGED <<gmailRemote, gmailRows, syncer, import, runs, mishaps>>

\* An expired start id: an incremental run claims again and becomes a full one;
\* a full run ends.
history_cursor_expired ==
  /\ pass.phase = "history" /\ pass.from < oldest
  /\ IF assert_sync(account, polling, pass.token, pass.lease)
     THEN LET c == require_full_reconciliation(account)
              s == claim_due_sync(c, fail_sync(polling), NewSyncLease)
          IN /\ account' = c
             /\ IF ~pass.full /\ s.token = NewSyncLease
                THEN polling' = s /\ pass' = FullPass(pass.by, NewSyncLease, c.cursor) /\ syncer' = syncer
                ELSE polling' = (IF pass.full THEN fail_sync(polling) ELSE s) /\ GmailLeave
     ELSE PassFails
  /\ UNCHANGED <<gmailRemote, letters, linked, import, runs, mishaps>>

\* complete_full_reconciliation for one row.
remove_absent(row, there) == IF there THEN row ELSE mark_message_removed_claimed(row)

complete_pass ==
  /\ pass.phase = "complete"
  /\ Fenced
  /\ account' = complete_sync(account, pass.cursor, pass.full)
  /\ polling' = Freed(polling)
  /\ letters' = IF pass.full THEN [m \in Messages |-> remove_absent(letters[m], m \in pass.present)]
                ELSE letters
  /\ GmailLeave
  /\ UNCHANGED <<gmailRemote, linked, import, runs, mishaps>>

restore_polling ==
  /\ connectionFree
  /\ syncer[Requested].pc = "restoring"
  /\ polling' = IF polling.token = NoSyncLease THEN [polling EXCEPT !.enabled = FALSE] ELSE polling
  /\ syncer' = [syncer EXCEPT ![Requested] = Idle]
  /\ UNCHANGED <<gmailRemote, account, letters, linked, pass, import, runs, mishaps>>

----------------------------------------------------------------------------
(* The Inbox on the screen *)

ScreenToken == 5

gmail_inbox_claim(m) ==
  /\ connectionFree
  /\ import.pc = "idle"
  /\ letters[m].state = "READY" /\ CanClaim(letters[m])
  /\ letters' = [letters EXCEPT ![m] = claim_inbox(@, ScreenToken)]
  /\ import' = [pc |-> "start", msg |-> m, token |-> ScreenToken]
  /\ UNCHANGED <<gmailRemote, account, polling, linked, syncer, pass, runs, mishaps>>

\* import_start returns the run it finds for these bytes, unless it was rolled
\* back (external); a failure makes the row FAILED.
import_start ==
  /\ connectionFree
  /\ import.pc = "start"
  /\ \/ /\ runs' = [runs EXCEPT ![import.msg] = IF @ \in {"REVIEW", "POSTED"} THEN @ ELSE "REVIEW"]
        /\ import' = [import EXCEPT !.pc = "stage"]
        /\ UNCHANGED <<letters, mishaps>>
     \/ /\ Mishap
        /\ letters' = [letters EXCEPT ![import.msg] =
                         IF Holds(@, import.token) THEN fail_inbox(@) ELSE @]
        /\ import' = NoImport
        /\ runs' = runs
  /\ UNCHANGED <<gmailRemote, account, polling, linked, syncer, pass>>

\* A run that is no longer in review, or a row that is no longer ours: the
\* command fails and the row is left as it is.
gmail_inbox_mark_staged ==
  /\ connectionFree
  /\ import.pc = "stage"
  /\ import' = NoImport
  /\ IF CanMarkStaged(letters[import.msg], import.token) /\ runs[import.msg] = "REVIEW"
        /\ import.msg \notin linked
     THEN /\ letters' = [letters EXCEPT ![import.msg] = mark_inbox_staged(@, 1)]
          /\ linked' = linked \cup {import.msg}
     ELSE UNCHANGED <<letters, linked>>
  /\ UNCHANGED <<gmailRemote, account, polling, syncer, pass, runs, mishaps>>

gmail_inbox_ignore(m) ==
  /\ connectionFree /\ CanIgnore(letters[m])
  /\ letters' = [letters EXCEPT ![m] = ignore_inbox(@)]
  /\ UNCHANGED <<gmailRemote, account, polling, linked, syncer, pass, import, runs, mishaps>>

gmail_inbox_retry(m) ==
  /\ connectionFree /\ CanRetry(letters[m])
  /\ letters' = [letters EXCEPT ![m] = retry_inbox(@)]
  /\ UNCHANGED <<gmailRemote, account, polling, linked, syncer, pass, import, runs, mishaps>>

import_commit(m) ==
  /\ connectionFree /\ runs[m] = "REVIEW"
  /\ runs' = [runs EXCEPT ![m] = "POSTED"]
  /\ UNCHANGED <<gmailRemote, gmailRows, syncer, pass, import, mishaps>>

\* rollback_import deletes the source documents; a linked one is restricted.  So
\* no STAGED row ever names a rolled-back run (GmailStagedHasRun), which is what
\* gmail_inbox_reopen asks for: that command never changes a row.
document_deletable(m) == m \notin linked

import_rollback(m) ==
  /\ connectionFree /\ runs[m] = "REVIEW"
  /\ document_deletable(m)
  /\ runs' = [runs EXCEPT ![m] = "ROLLED_BACK"]
  /\ UNCHANGED <<gmailRemote, gmailRows, syncer, pass, import, mishaps>>

----------------------------------------------------------------------------
(* Time and crashes *)

GmailLeaseExpires ==
  /\ Mishap
  /\ \/ polling.live /\ polling' = [polling EXCEPT !.live = FALSE] /\ letters' = letters
     \/ /\ \E m \in Messages : letters[m].live
        /\ letters' = [m \in Messages |-> [letters[m] EXCEPT !.live = FALSE]]
        /\ polling' = polling
  /\ UNCHANGED <<gmailRemote, account, linked, syncer, pass, import, runs>>

GmailCrash ==
  /\ Mishap
  /\ \/ import.pc # "idle" \/ \E w \in Syncers : syncer[w].pc # "idle"
  /\ syncer' = [w \in Syncers |-> Idle]
  /\ pass' = NoPass
  /\ import' = NoImport
  /\ UNCHANGED <<gmailRemote, gmailRows, runs>>

GmailMailbox ==
  \/ \E m \in Messages, now \in {"labelled", "unlabelled", "deleted"} : MailboxChange(m, now)
  \/ HistoryExpires

GmailUser ==
  \/ gmail_connect \/ gmail_label_bind \/ gmail_disconnect \/ start_gmail_sync
  \/ \E enabled \in BOOLEAN : gmail_schedule_update(enabled)
  \/ import_start \/ gmail_inbox_mark_staged
  \/ \E m \in Messages :
       \/ gmail_inbox_claim(m) \/ gmail_inbox_ignore(m) \/ gmail_inbox_retry(m)
       \/ import_commit(m) \/ import_rollback(m)

GmailPass ==
  \/ poll \/ restore_polling
  \/ \E w \in Syncers :
       run_claimed_gmail_sync(w) \/ \E terminal \in BOOLEAN : finish_claim(w, terminal)
  \/ pass_fails \/ list_messages \/ list_history \/ fetch_page
  \/ \E m \in Messages : persist_raw_message(m) \/ persist_removed_message(m)
  \/ claim_for_hydration \/ hydrate \/ page_stored \/ history_cursor_expired \/ complete_pass

\* The poller comes round, a started pass goes on and the screen finishes an
\* import it has begun.
GmailFairness ==
  WF_gmailVars(GmailPass) /\ WF_gmailVars(import_start) /\ WF_gmailVars(gmail_inbox_mark_staged)

GmailNext == GmailMailbox \/ GmailUser \/ GmailPass \/ GmailLeaseExpires \/ GmailCrash

GmailSpec == GmailInit /\ [][GmailNext]_gmailVars

----------------------------------------------------------------------------

\* Every row, program counter and history id is one the tables and the code can
\* hold; the published id is one the mailbox has issued.
GmailTypeOK ==
  /\ mailbox \in [Messages -> {"labelled", "unlabelled", "deleted"}]
  /\ account.cursor \in 0..HistoryId
  /\ \A m \in Messages :
       /\ letters[m].state \in OpenStates \cup {"ABSENT", "REMOVED", "IGNORED", "STAGED"}
       /\ letters[m].tries \in 0..MaxInboxAttempts
       /\ (letters[m].state = "PROCESSING") = (letters[m].token # NoSyncLease)
  /\ \A w \in Syncers : (syncer[w].pc = "running") = (pass.by = w)

\* The connection has published the mailbox's last history id.
GmailSettled == account.status = "CONNECTED" /\ account.scanned /\ account.cursor = HistoryId

\* A published history id covers every record before it: at the end of the
\* history each labelled message has an Inbox row, and none of them is left
\* without its bytes (DISCOVERED), however the pages were cut and whatever
\* crashed, failed or expired on the way (gmail_sync.rs publishes the id only
\* after the drain; a replayed message that is DISCOVERED is hydrated).
GmailNothingMissed ==
  GmailSettled =>
    \A m \in Messages : mailbox[m] = "labelled" =>
      letters[m].state \notin {"ABSENT", "REMOVED", "DISCOVERED"}

\* At the end of the history no message that lost the label or was deleted is
\* offered for review: the history removes it, and a full reconciliation, which
\* skips the history it could not read, removes whatever it did not find
\* (complete_full_reconciliation).
GmailNoGhosts ==
  GmailSettled =>
    \A m \in Messages : mailbox[m] # "labelled" => letters[m].state \notin OpenStates

\* A staged message's import run exists and was not rolled back: the link to
\* its source document restricts the deletion a rollback needs.
GmailStagedHasRun ==
  \A m \in Messages : letters[m].state = "STAGED" => runs[m] \in {"REVIEW", "POSTED"}

\* While the account is connected, a message somebody claimed is answered for or
\* comes back: the screen relies on it when it gives up an import ("native lease
\* recovery keeps the evidence durable", App.tsx).
EvidenceComesBack ==
  \A m \in Messages : []<>(account.status = "CONNECTED" => letters[m].state # "PROCESSING")
==============================================================================
