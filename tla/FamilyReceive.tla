----------------------------- MODULE FamilyReceive -----------------------------
(***************************************************************************)
(* Receiving snapshot partitions from the family relay: the discovery      *)
(* schedule and its leases (family_delivery_schedule.rs), the background   *)
(* worker (family_delivery_scheduler.rs), the panel that lists and stages  *)
(* by hand, the inbound rows (family_delivery_transport.rs) and the review *)
(* and application of a snapshot set (family_snapshot.rs).                 *)
(*                                                                         *)
(* One closure of AppState::with_connection is one action, except that a   *)
(* crash may fall between the two statements a closure does not put into   *)
(* one transaction.  Every publication is valid and sealed for this        *)
(* device; its sequence number is also the revision of its sender, which   *)
(* publishes in order.  Back-off only delays, so an enabled schedule that  *)
(* is not suspended for good may be due.                                   *)
(***************************************************************************)
EXTENDS Naturals, FiniteSets, FiniteSetsExt

CONSTANTS
  MaxPublications,   \* publications the relay numbers
  PublicationPage,   \* PAGE_SIZE of the relay
  MaxReceiveFaults   \* crashes, expired leases, failed requests, changed settings

Publications == 1..MaxPublications
Active == {"REVIEW_REQUIRED", "READY"}
NoWork == [pc |-> "idle", token |-> 0, after |-> 0, page |-> {}, next |-> 0, candidate |-> 0]
NoRefresh == [pc |-> "idle", page |-> {}, next |-> 0]

VARIABLES
  ours,       \* relay: the publications this device sent itself
  numbered,   \* relay: publications so far
  connection, \* family_delivery_connections: [state, cursor]
  schedule,   \* family_delivery_schedules: [enabled, intake, token, live, terminal]
  worker,     \* the claimed run
  panel,      \* the panel's refresh: [pc, page, next]
  inbound,    \* family_delivery_inbound: the state of each publication
  snapshots,  \* family_snapshot_sets: the state of each publication's set
  applied,    \* family_applied_partitions: the highest revision applied
  receiveFaults

receiveVars ==
  <<ours, numbered, connection, schedule, worker, panel, inbound, snapshots, applied, receiveFaults>>
relayVars == <<ours, numbered>>
reviewState == <<snapshots, applied>>

ReceiveInit ==
  /\ ours \in SUBSET Publications
  /\ numbered = 0
  /\ connection = [state |-> "CONNECTED", cursor |-> 0]
  /\ schedule = [enabled |-> FALSE, intake |-> FALSE, token |-> 0, live |-> FALSE, terminal |-> FALSE]
  /\ worker = NoWork
  /\ panel = NoRefresh
  /\ inbound = [p \in Publications |-> "ABSENT"]
  /\ snapshots = [p \in Publications |-> "none"]
  /\ applied = 0
  /\ receiveFaults = 0

ReceiveFault == receiveFaults < MaxReceiveFaults /\ receiveFaults' = receiveFaults + 1

\* A crash; the lease it leaves behind has expired when it matters again.
Stops ==
  /\ ReceiveFault
  /\ worker' = NoWork
  /\ panel' = NoRefresh
  /\ schedule' = [schedule EXCEPT !.live = FALSE]

----------------------------------------------------------------------------
(* The relay *)

relay_numbers ==
  /\ numbered < MaxPublications
  /\ numbered' = numbered + 1
  /\ UNCHANGED <<ours, connection, schedule, worker, panel, inbound, reviewState, receiveFaults>>

\* GET publications: those of other devices after a cursor, and the cursor to
\* go on from, which also passes the ones left out.
Matching(after) == {p \in 1..numbered : p > after /\ p \notin ours}
PublicationsAfter(after) ==
  {p \in Matching(after) : Cardinality({q \in Matching(after) : q < p}) < PublicationPage}
NextCursor(after) ==
  IF Cardinality(PublicationsAfter(after)) = PublicationPage THEN Max(PublicationsAfter(after))
  ELSE IF numbered > after THEN numbered ELSE after

----------------------------------------------------------------------------
(* Settings *)

\* Changing the settings takes a claimed run its lease; counted as a fault, so
\* that it is not done for ever.
configure_with_intake(intake) ==
  /\ connection.state # "DISCONNECTED"
  /\ IF schedule.enabled THEN ReceiveFault ELSE UNCHANGED receiveFaults
  /\ schedule' = [enabled |-> TRUE, intake |-> intake, token |-> 0, live |-> FALSE, terminal |-> FALSE]
  /\ UNCHANGED <<relayVars, connection, worker, panel, inbound, reviewState>>

disabled == [enabled |-> FALSE, intake |-> FALSE, token |-> 0, live |-> FALSE, terminal |-> FALSE]

disable ==
  /\ schedule.enabled
  /\ schedule' = disabled
  /\ UNCHANGED <<relayVars, connection, worker, panel, inbound, reviewState, receiveFaults>>

\* The schedule is disabled first, then the connection.
family_delivery_disconnect ==
  /\ connection.state # "DISCONNECTED"
  /\ schedule' = disabled
  /\ connection' = [connection EXCEPT !.state = "DISCONNECTED"]
  /\ UNCHANGED <<relayVars, worker, panel, inbound, reviewState, receiveFaults>>

family_delivery_connection_save ==
  /\ connection.state # "CONNECTED"
  /\ connection' = [connection EXCEPT !.state = "CONNECTED"]
  /\ UNCHANGED <<relayVars, schedule, worker, panel, inbound, reviewState, receiveFaults>>

----------------------------------------------------------------------------
(* The lease *)

\* Mutant: an expired lease is left in place.
expired_kept(s) == s

\* recover_all_expired_leases; the schedule is due again later.
recover_expired_lease(s) ==
  IF s.enabled /\ s.token # 0 /\ ~s.live THEN [s EXCEPT !.token = 0] ELSE s

Due(s) == s.enabled /\ s.token = 0 /\ ~s.terminal

\* claim_next_due by the worker, request_now and claim_due by the command: both
\* recover expired leases first.
claim_due ==
  /\ \/ /\ worker.pc = "idle" /\ Due(schedule)
        /\ LET token == IF worker.token = 1 THEN 2 ELSE 1 IN
             /\ schedule' = [schedule EXCEPT !.token = token, !.live = TRUE]
             /\ worker' = [NoWork EXCEPT !.pc = "load", !.token = token]
     \/ /\ worker.pc = "idle" /\ recover_expired_lease(schedule) # schedule
        /\ schedule' = recover_expired_lease(schedule)
        /\ UNCHANGED worker
  /\ UNCHANGED <<relayVars, connection, panel, inbound, reviewState, receiveFaults>>

\* family_delivery_schedule::status, which the panel reads.
schedule_status ==
  /\ recover_expired_lease(schedule) # schedule
  /\ schedule' = recover_expired_lease(schedule)
  /\ UNCHANGED <<relayVars, connection, worker, panel, inbound, reviewState, receiveFaults>>

assert_active_lease ==
  schedule.enabled /\ schedule.token # 0 /\ schedule.token = worker.token /\ schedule.live

----------------------------------------------------------------------------
(* The claimed run *)

\* A step of the run: the lease is renewed and checked before it.
RunStep(pc, next) ==
  /\ worker.pc = pc
  /\ worker' = IF assert_active_lease THEN next ELSE [worker EXCEPT !.pc = "cancelled"]

\* load_connection_context; the stored cursor is read here, once.
load_connection_context ==
  /\ RunStep("load", [worker EXCEPT !.pc = IF connection.state = "DISCONNECTED" THEN "failed" ELSE "members",
                                    !.after = connection.cursor])
  /\ UNCHANGED <<relayVars, connection, schedule, panel, inbound, reviewState, receiveFaults>>

\* whoami and the members; register_remote_state reconnects.
validate_and_refresh_claimed ==
  LET open == connection.state # "DISCONNECTED" IN
  /\ RunStep("members", [worker EXCEPT !.pc = IF open THEN "list" ELSE "cancelled"])
  /\ connection' = IF assert_active_lease /\ open THEN [connection EXCEPT !.state = "CONNECTED"] ELSE connection
  /\ UNCHANGED <<relayVars, schedule, panel, inbound, reviewState, receiveFaults>>

list_publications ==
  /\ RunStep("list", [worker EXCEPT !.pc = "register", !.page = PublicationsAfter(worker.after),
                                    !.next = NextCursor(worker.after)])
  /\ UNCHANGED <<relayVars, connection, schedule, panel, inbound, reviewState, receiveFaults>>

Registered(page) ==
  [p \in Publications |-> IF p \in page /\ inbound[p] = "ABSENT" THEN "AVAILABLE" ELSE inbound[p]]

\* Mutant: the cursor is taken from the page although its rows are refused.
cursor_before_rows(page, next, ok) ==
  /\ connection' = [state |-> "CONNECTED", cursor |-> Max({connection.cursor, next})]
  /\ inbound' = IF ok THEN Registered(page) ELSE inbound

\* All rows and the cursor, or, when a row is refused, none of it.
register_inbound(page, next, ok) ==
  /\ connection' = IF ok THEN [state |-> "CONNECTED", cursor |-> Max({connection.cursor, next})] ELSE connection
  /\ inbound' = IF ok THEN Registered(page) ELSE inbound

Reachable == connection.state \in {"CONNECTED", "NETWORK_UNAVAILABLE"}

register_publication_metadata_claimed(ok) ==
  /\ RunStep("register", [worker EXCEPT !.pc = IF ok /\ Reachable THEN "candidate" ELSE "cancelled"])
  /\ IF ok THEN UNCHANGED receiveFaults ELSE ReceiveFault
  /\ IF assert_active_lease /\ Reachable THEN register_inbound(worker.page, worker.next, ok)
     ELSE UNCHANGED <<connection, inbound>>
  /\ UNCHANGED <<relayVars, schedule, panel, reviewState>>

Pending == \E p \in Publications : snapshots[p] \in Active
Available == {p \in Publications : inbound[p] = "AVAILABLE"}

\* intake_one_claimed, up to the download: nothing while a review is open.
oldest_encrypted_available ==
  /\ RunStep("candidate",
       IF schedule.intake /\ ~Pending /\ Available # {}
       THEN [worker EXCEPT !.pc = "stage", !.candidate = Min(Available)]
       ELSE [worker EXCEPT !.pc = "done"])
  /\ UNCHANGED <<relayVars, connection, schedule, panel, inbound, reviewState, receiveFaults>>

----------------------------------------------------------------------------
(* Staging and review *)

Stageable == {"AVAILABLE", "FAILED_RETRYABLE"}
InboundFor(set) == IF set = "READY" THEN "READY_TO_APPLY" ELSE "WAITING_FOR_REVIEW"

\* Mutant: an open review does not hold up the next one.
no_pending(p) == IF snapshots[p] # "none" THEN "existing" ELSE IF p <= applied THEN "stale" ELSE "new"

\* What stage_snapshot_set finds before it begins its transaction.
stage_snapshot_set(p) ==
  IF snapshots[p] # "none" THEN "existing"
  ELSE IF Pending THEN "pending"
  ELSE IF p <= applied THEN "stale"
  ELSE "new"

\* The panel: the set is stored, then the inbound row, in two transactions.
stage_inbound(p, state, crashed) ==
  LET found == stage_snapshot_set(p) IN
  /\ inbound[p] \in Stageable /\ found \in {"existing", "new"} /\ state \in Active
  /\ found = "existing" => state = "REVIEW_REQUIRED"
  /\ snapshots' = IF found = "new" THEN [snapshots EXCEPT ![p] = state] ELSE snapshots
  /\ inbound' = IF crashed THEN inbound ELSE [inbound EXCEPT ![p] = InboundFor(snapshots'[p])]
  /\ IF crashed THEN Stops ELSE UNCHANGED <<receiveFaults, schedule, worker, panel>>
  /\ UNCHANGED <<relayVars, connection, applied>>

\* The worker: the same call inside a transaction of its own.  The first thing
\* stage_snapshot_set does is get_local_status, which drains the local captures
\* in a transaction, which SQLite refuses inside another; and a refusal that is
\* neither a pending review nor a denied audience rejects the package.
stage_claimed ==
  LET p == worker.candidate IN
  /\ RunStep("stage", [worker EXCEPT !.pc = IF inbound[p] = "AVAILABLE" THEN "done" ELSE "cancelled"])
  /\ inbound' = IF assert_active_lease /\ inbound[p] = "AVAILABLE"
                THEN [inbound EXCEPT ![p] = "REJECTED_INVALID"] ELSE inbound
  /\ UNCHANGED <<relayVars, connection, schedule, panel, reviewState, receiveFaults>>

\* reject_inbound after a damaged download or an envelope that does not open.
reject_claimed ==
  /\ ReceiveFault
  /\ RunStep("stage", [worker EXCEPT !.pc =
       IF inbound[worker.candidate] = "AVAILABLE" THEN "done" ELSE "cancelled"])
  /\ inbound' = IF assert_active_lease /\ inbound[worker.candidate] = "AVAILABLE"
                THEN [inbound EXCEPT ![worker.candidate] = "AUDIENCE_DENIED"] ELSE inbound
  /\ UNCHANGED <<relayVars, connection, schedule, panel, reviewState>>

\* resolve_snapshot_set with the last open record, then update_review_state.
resolve_ui_review(p) ==
  /\ snapshots[p] = "REVIEW_REQUIRED"
  /\ snapshots' = [snapshots EXCEPT ![p] = "READY"]
  /\ inbound' = IF inbound[p] = "WAITING_FOR_REVIEW" THEN [inbound EXCEPT ![p] = "READY_TO_APPLY"] ELSE inbound
  /\ UNCHANGED <<relayVars, connection, schedule, worker, panel, applied, receiveFaults>>

\* apply_snapshot_set, then the inbound row.
apply_ui_review(p, crashed) ==
  /\ snapshots[p] = "READY"
  /\ snapshots' = [snapshots EXCEPT ![p] = "APPLIED"]
  /\ applied' = p
  /\ inbound' = IF crashed \/ inbound[p] \in Stageable THEN inbound ELSE [inbound EXCEPT ![p] = "APPLIED"]
  /\ IF crashed THEN Stops ELSE UNCHANGED <<receiveFaults, schedule, worker, panel>>
  /\ UNCHANGED <<relayVars, connection>>

discard_ui_review(p) ==
  /\ snapshots[p] \in Active
  /\ snapshots' = [snapshots EXCEPT ![p] = "none"]
  /\ inbound' = [inbound EXCEPT ![p] = "AVAILABLE"]
  /\ UNCHANGED <<relayVars, connection, schedule, worker, panel, applied, receiveFaults>>

----------------------------------------------------------------------------
(* The end of a run, the panel's own refresh, faults *)

\* Mutant: the token is cleared and the expiry kept.
expiry_left(s, terminal) == [s EXCEPT !.token = 0, !.terminal = terminal]

released(s, terminal) == [s EXCEPT !.token = 0, !.live = FALSE, !.terminal = terminal]

\* finish_claimed: complete, fail, suspend or release, if the lease still holds.
finish_claimed(outcome) ==
  /\ worker.pc \in {"done", "failed", "cancelled"}
  /\ outcome = "ok" <=> worker.pc = "done"
  /\ outcome = "released" <=> worker.pc = "cancelled"
  /\ schedule' = IF assert_active_lease THEN released(schedule, outcome = "terminal") ELSE schedule
  /\ connection' = IF assert_active_lease /\ outcome \in {"network", "terminal"}
                   THEN [connection EXCEPT !.state =
                           IF outcome = "network" THEN "NETWORK_UNAVAILABLE" ELSE "AUTH_EXPIRED"]
                   ELSE connection
  /\ worker' = [NoWork EXCEPT !.token = worker.token]
  /\ UNCHANGED <<relayVars, panel, inbound, reviewState, receiveFaults>>

request_fails ==
  /\ worker.pc \in {"members", "list", "stage"} /\ ReceiveFault
  /\ worker' = [worker EXCEPT !.pc = "failed"]
  /\ UNCHANGED <<relayVars, connection, schedule, panel, inbound, reviewState>>

panel_refresh ==
  /\ panel.pc = "idle" /\ connection.state # "DISCONNECTED"
  /\ connection' = [connection EXCEPT !.state = "CONNECTED"]
  /\ panel' = [pc |-> "register", page |-> PublicationsAfter(connection.cursor),
                next |-> NextCursor(connection.cursor)]
  /\ UNCHANGED <<relayVars, schedule, worker, inbound, reviewState, receiveFaults>>

panel_register ==
  /\ panel.pc = "register"
  /\ IF Reachable THEN register_inbound(panel.page, panel.next, TRUE) ELSE UNCHANGED <<connection, inbound>>
  /\ panel' = NoRefresh
  /\ UNCHANGED <<relayVars, schedule, worker, reviewState, receiveFaults>>

DiscoveryLeaseExpires ==
  /\ schedule.live /\ ReceiveFault
  /\ schedule' = [schedule EXCEPT !.live = FALSE]
  /\ UNCHANGED <<relayVars, connection, worker, panel, inbound, reviewState>>

ReceiveCrash ==
  /\ Stops
  /\ UNCHANGED <<relayVars, connection, inbound, reviewState>>

Outcomes == {"ok", "network", "retry", "terminal", "released"}

RunNext ==
  \/ claim_due \/ load_connection_context \/ validate_and_refresh_claimed \/ list_publications
  \/ register_publication_metadata_claimed(TRUE) \/ oldest_encrypted_available \/ stage_claimed
  \/ \E outcome \in Outcomes : finish_claimed(outcome)

ReceiveNext ==
  \/ RunNext \/ register_publication_metadata_claimed(FALSE) \/ reject_claimed \/ request_fails
  \/ relay_numbers \/ disable \/ family_delivery_disconnect \/ family_delivery_connection_save \/ schedule_status
  \/ \E intake \in BOOLEAN : configure_with_intake(intake)
  \/ \E p \in Publications :
       \/ resolve_ui_review(p) \/ discard_ui_review(p)
       \/ \E crashed \in BOOLEAN : apply_ui_review(p, crashed) \/ \E s \in Active : stage_inbound(p, s, crashed)
  \/ panel_refresh \/ panel_register \/ DiscoveryLeaseExpires \/ ReceiveCrash

\* The worker thread wakes every WORKER_INTERVAL and runs what it claimed.
ReceiveFairness == WF_receiveVars(RunNext)

ReceiveSpec == ReceiveInit /\ [][ReceiveNext]_receiveVars /\ ReceiveFairness

----------------------------------------------------------------------------

\* Rows are ones the tables can hold; a lease has an owner, and the stored
\* cursor never runs ahead of the relay's numbering.
ReceiveTypeOK ==
  /\ connection.cursor \in 0..numbered
  /\ \A p \in Publications :
       /\ inbound[p] \in {"ABSENT", "AVAILABLE", "WAITING_FOR_REVIEW", "READY_TO_APPLY", "APPLIED",
                          "REJECTED_INVALID", "AUDIENCE_DENIED"}
       /\ snapshots[p] # "none" => inbound[p] # "ABSENT"
  /\ schedule.live => schedule.token # 0

\* The cursor never passes a publication that has no inbound row, whichever of
\* worker and panel registered last and whatever failed or crashed before.
NothingUnregistered ==
  \A p \in Publications \ ours : p <= connection.cursor => inbound[p] # "ABSENT"

\* Worker and panel stage into the same review: there is never a second open
\* one, although each looked for an open review before it downloaded.
OneOpenReview == Cardinality({p \in Publications : snapshots[p] \in Active}) <= 1

\* Applying never takes the ledger back to an older revision of a sender: the
\* check is made when a set is staged, and nothing newer is applied before it.
NeverAppliesOlder == [][applied' >= applied]_receiveVars

\* Every publication of another device is registered, or nothing checks for it.
AllRegistered ==
  \/ \A p \in Publications \ ours : p <= numbered => inbound[p] # "ABSENT"
  \/ ~schedule.enabled \/ schedule.terminal \/ connection.state = "DISCONNECTED"

\* Automatic intake prepares a valid package up to its review, as the panel
\* promises when it is switched on (FamilyDeliveryPanel.tsx): only one that is
\* not newer than what was applied is rejected.
RejectedIsStale ==
  \A p \in Publications : inbound[p] = "REJECTED_INVALID" => p <= applied
==============================================================================
