----------------------------- MODULE WatchedStore -----------------------------
(***************************************************************************)
(* The Inbox of watched local folders                                      *)
(* (src-tauri/src/watched_file_inbox.rs), as pure functions of its rows    *)
(* with the conventions of DriveStore.  A generation is the fingerprint of *)
(* a file's metadata; the row keeps no content, the screen reads the file. *)
(***************************************************************************)
EXTENDS Naturals

CONSTANT MaxAttemptsOnDisk  \* MAX_ATTEMPTS

NoClaimToken == 0

Unclaimed(row) == [row EXCEPT !.token = NoClaimToken, !.live = FALSE, !.origin = "none"]

\* reconcile_scan for the row of one generation of one path; current is the
\* generation the scan saw (0: the path is gone).
reconcile_row(row, g, current) ==
  CASE g # current /\ row.state \notin {"ABSENT", "REMOVED", "STAGED"} ->
         [Unclaimed(row) EXCEPT !.state = "REMOVED"]
    [] g = current /\ row.state \in {"ABSENT", "REMOVED"} -> [row EXCEPT !.state = "DISCOVERED"]
    [] OTHER -> row

recover_expired_leases_in(row) ==
  IF row.state = "PROCESSING" /\ ~row.live
  THEN [Unclaimed(row) EXCEPT !.state =
          IF row.origin = "DISCOVERED" /\ row.tries >= MaxAttemptsOnDisk THEN "FAILED" ELSE row.origin]
  ELSE row

CanClaimFile(row) ==
  row.state = "READY" \/ (row.state = "DISCOVERED" /\ row.tries < MaxAttemptsOnDisk)
claim(row, token) ==
  [row EXCEPT !.state = "PROCESSING", !.origin = row.state,
              !.tries = IF row.state = "DISCOVERED" THEN @ + 1 ELSE @,
              !.token = token, !.live = TRUE]

\* Mutant: the late answer of whoever processed the row is taken.
LateAnswer(row, token) == row.state # "ABSENT"

\* The WHERE clause of complete_lease.
HoldsLease(row, token) == row.state = "PROCESSING" /\ row.token = token /\ row.live

mark_ready(row) == [Unclaimed(row) EXCEPT !.state = "READY", !.run = 0]
mark_failed(row) == [Unclaimed(row) EXCEPT !.state = "FAILED", !.run = 0]
mark_staged(row, run) == [Unclaimed(row) EXCEPT !.state = "STAGED", !.run = run]

CanIgnoreFile(row) == row.state \in {"DISCOVERED", "READY", "FAILED"}
ignore(row) == [row EXCEPT !.state = "IGNORED"]

\* A failed or ignored row, or a staged one whose run was rolled back.
CanRetryFile(row, rolledBack) ==
  row.state \in {"FAILED", "IGNORED"} \/ (row.state = "STAGED" /\ rolledBack)
retry(row) == [row EXCEPT !.state = "DISCOVERED", !.tries = 0, !.run = 0]
==============================================================================
