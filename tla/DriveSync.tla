------------------------------- MODULE DriveSync -------------------------------
(***************************************************************************)
(* Synchronising one Google Drive folder tree: the background worker       *)
(* (google_drive_scheduler.rs) and "Sync now" (google_drive_commands.rs)   *)
(* run google_drive_initial_sync.rs over google_drive_sync_adapter.rs on   *)
(* the rows of DriveStore.  What a run does after it has published its     *)
(* cursor, hydrating the Inbox, and the Inbox commands are in DriveInbox.  *)
(*                                                                         *)
(* The body of a run holds the application's one connection mutex          *)
(* (AppState::with_connection), so at most one run is inside (variable     *)
(* run); what can still happen to it is that the remote tree changes, the  *)
(* provider fails, its lease expires or the process dies between two       *)
(* transactions.  Outside the mutex a worker only holds its claim.         *)
(*                                                                         *)
(* The remote tree and its change log are external.  A page of the log     *)
(* ends anywhere; it describes a file as it was at the change or as it is  *)
(* now (current), both of which the changes endpoint returns.  Trashing is *)
(* a move to Outside: the adapter treats both alike.                       *)
(***************************************************************************)
EXTENDS DriveStore, Sequences, Functions

CONSTANTS
  MaxLog,      \* remote changes considered
  MaxFaults    \* crashes, lease expiries and provider failures considered

Root == "root"
Outside == "outside"
Gone == "gone"
Places == Folders \cup {Root, Outside, Gone}

ASSUME PlaceAssumption == Nodes \cap {Root, Outside, Gone, UnknownNode.parent} = {}

Background == "background"
SyncNow == "sync_now"
Workers == {Background, SyncNow}
Nobody == "nobody"

VARIABLES
  place,    \* remote: the folder each node is in
  remoteGen,\* remote: the generation each node is in
  log,      \* remote: the change log
  floor,    \* remote: cursors below it have expired
  conn,     \* the google_drive_connections row
  sched,    \* its google_drive_sync_schedules row
  stored,   \* google_drive_nodes
  inbox,    \* google_drive_inbox, per file and generation
  worker,   \* per worker: pc, its lease and what it loaded
  run,      \* the run inside the mutex
  faults,   \* crashes, expiries and failures so far
  uncrawled,\* history: folders stored in the tree whose children were not listed
            \* since they entered it, or since changes were skipped
  orphans,  \* history: nodes stored in the tree below a folder that had just left it
  skipped   \* history: a full crawl restarted past changes it never replayed

remote == <<place, remoteGen, log, floor>>
db == <<conn, sched, stored, inbox>>
history == <<uncrawled, orphans, skipped>>
vars == <<place, remoteGen, log, floor, conn, sched, stored, inbox, worker, run, faults, uncrawled, orphans, skipped>>

NoClaim == [pc |-> "idle", token |-> NoLease, cursor |-> 0, restore |-> FALSE]

NoRun ==
  [by |-> Nobody, phase |-> "none", token |-> NoLease, full |-> FALSE, cursor |-> 0,
   page |-> <<>>, members |-> {}, removals |-> {}, upserts |-> {},
   expanded |-> FALSE, folders |-> {}, seen |-> {}]

FreshToken ==
  CHOOSE t \in 1..4 : t # sched.token /\ \A w \in Workers : worker[w].token # t

\* No folder lies below itself.
Acyclic(parents) == \A U \in SUBSET Folders : (\A d \in U : parents[d] \in U) => U = {}

Init ==
  /\ place \in [Nodes -> {Root, Outside} \cup Folders] /\ Acyclic(place)
  /\ remoteGen = [n \in Nodes |-> 1]
  /\ log = <<>>
  /\ floor = 0
  /\ conn = NoConnection
  /\ sched = NoSchedule
  /\ stored = [n \in Nodes |-> UnknownNode]
  /\ inbox = [f \in Files |-> [g \in Generations |-> NoItem]]
  /\ worker = [w \in Workers |-> NoClaim]
  /\ run = NoRun
  /\ faults = 0
  /\ uncrawled = {}
  /\ orphans = {}
  /\ skipped = FALSE

----------------------------------------------------------------------------
(* The remote tree.  What it was before the baseline is Init's choice. *)

RemoteChange(n, p, g) ==
  /\ conn.status = "CONNECTED"
  /\ Len(log) < MaxLog
  /\ place' = [place EXCEPT ![n] = p]
  /\ remoteGen' = [remoteGen EXCEPT ![n] = g]
  /\ log' = Append(log, [node |-> n, place |-> p, gen |-> g])
  /\ UNCHANGED <<floor, db, worker, run, faults, history>>

\* What lies below a folder along parents: its children, and what lies below them.
Below(parents, top) ==
  {n \in Nodes : \A S \in SUBSET Folders :
     (\A d \in Folders : parents[d] \in S \cup {top} => d \in S) => parents[n] \in S \cup {top}}

RemoteMove(n, p) ==
  /\ place[n] \notin {p, Gone}
  /\ p \in Folders => p # n /\ p \notin Below(place, n)
  /\ RemoteChange(n, p, remoteGen[n])

RemoteEdit(f) ==
  /\ place[f] # Gone
  /\ remoteGen[f] < MaxGeneration
  /\ RemoteChange(f, place[f], remoteGen[f] + 1)

CursorsExpire ==
  /\ conn.status = "CONNECTED" /\ floor = 0 /\ conn.cursor < Len(log)
  /\ floor' = conn.cursor + 1
  /\ UNCHANGED <<place, remoteGen, log, db, worker, run, faults, history>>

RemotelyInTree(n) == n \in Below(place, Root)

----------------------------------------------------------------------------
(* Commands of the user, each one with_connection *)

mutexFree == run.by = Nobody

google_drive_connect ==
  /\ mutexFree
  /\ \/ conn.status = "NONE" /\ conn' = begin_connection(conn)
     \/ conn.status = "AUTHORIZING" /\ conn' = mark_authorized(conn)
  /\ UNCHANGED <<remote, sched, stored, inbox, worker, run, faults, history>>

\* Binding and the disabled schedule are two with_connection calls.
google_drive_folder_bind ==
  /\ mutexFree
  /\ \/ /\ conn.status = "SELECTING_FOLDER"
        /\ conn' = select_root_with_baseline(conn, Len(log))
        /\ sched' = sched
     \/ /\ conn.status = "CONNECTED" /\ ~sched.exists
        /\ sched' = configure_schedule(FALSE)
        /\ conn' = conn
  /\ UNCHANGED <<remote, stored, inbox, worker, run, faults, history>>

google_drive_schedule_update(enabled) ==
  /\ mutexFree
  /\ conn.status = "CONNECTED"
  /\ sched' = configure_schedule(enabled)
  /\ UNCHANGED <<remote, conn, stored, inbox, worker, run, faults, history>>

google_drive_disconnect ==
  /\ mutexFree
  /\ conn.status \notin {"NONE", "DISCONNECTED"}
  /\ conn' = disconnect(conn)
  /\ sched' = disabled_schedule(sched)
  /\ UNCHANGED <<remote, stored, inbox, worker, run, faults, history>>

----------------------------------------------------------------------------
(* Claiming *)

Claimed(w, s, restore) ==
  worker' = [worker EXCEPT ![w] =
    IF s.token = FreshToken
    THEN [pc |-> "claimed", token |-> FreshToken, cursor |-> conn.cursor, restore |-> restore]
    ELSE [NoClaim EXCEPT !.pc = IF restore THEN "restoring" ELSE "idle"]]

\* run_worker, woken every WORKER_INTERVAL.
run_worker ==
  /\ mutexFree
  /\ worker[Background].pc = "idle"
  /\ Claimable(conn, sched)
  /\ sched' = claim_next_due_sync(conn, sched, FreshToken)
  /\ Claimed(Background, sched', FALSE)
  /\ UNCHANGED <<remote, conn, stored, inbox, run, faults, history>>

\* A disabled schedule is enabled for the run; both branches then make the
\* schedule due and claim it.  Not connected: configure_schedule refuses.
start_google_drive_sync ==
  /\ mutexFree
  /\ worker[SyncNow].pc = "idle"
  /\ sched.exists
  /\ sched.enabled \/ conn.status = "CONNECTED"
  /\ LET restore == ~sched.enabled
         on == IF restore THEN configure_schedule(TRUE) ELSE sched
         due == IF on.token = NoLease THEN [on EXCEPT !.suspended = FALSE] ELSE on
     IN /\ sched' = claim_due_sync(conn, due, FreshToken)
        /\ Claimed(SyncNow, sched', restore)
  /\ UNCHANGED <<remote, conn, stored, inbox, run, faults, history>>

Failing == faults < MaxFaults /\ faults' = faults + 1

\* The background worker's ensure_claim_finished, at the end of its run.
ensure_claim_finished(w, c, s) ==
  IF w = Background /\ assert_sync_lease_in(c, s, worker[w].token) THEN fail_sync(s) ELSE s

\* The worker is done with its claim; only a schedule to disable again is left.
Finishing(w) ==
  [worker EXCEPT ![w] = IF @.restore THEN [NoClaim EXCEPT !.pc = "restoring"] ELSE NoClaim]

\* A failure before the run: retryable, terminal, or a refused refresh token.
finish_claimed_error(w) ==
  /\ mutexFree
  /\ worker[w].pc = "claimed"
  /\ Failing
  /\ worker' = Finishing(w)
  /\ LET held == assert_sync_lease_in(conn, sched, worker[w].token) IN
     \/ /\ sched' = ensure_claim_finished(w, conn, IF held THEN fail_sync(sched) ELSE sched)
        /\ conn' = conn
     \/ /\ sched' = IF held THEN suspend_sync_claimed(sched) ELSE sched
        /\ conn' = conn
     \/ /\ conn' = IF conn.status # "DISCONNECTED" THEN require_reauthorization(conn) ELSE conn
        /\ sched' = IF conn.status # "DISCONNECTED"
                    THEN suspend_schedule_in(IF held THEN suspend_sync_claimed(sched) ELSE sched)
                    ELSE sched
  /\ UNCHANGED <<remote, stored, inbox, run, history>>

----------------------------------------------------------------------------
(* The run.  GoogleDriveInitialStore::new asserts the lease on entry.  The  *)
(* connection was loaded before the access token was asked for; while the  *)
(* lease is held nobody else sets scanned, so it is read here.             *)

Holds == assert_sync_lease_in(conn, sched, run.token)

Leave(w) ==
  /\ run' = NoRun
  /\ worker' = Finishing(w)

enter_run(w) ==
  /\ mutexFree
  /\ worker[w].pc = "claimed"
  /\ IF assert_sync_lease_in(conn, sched, worker[w].token)
     THEN /\ run' = [NoRun EXCEPT
                !.by = w, !.token = worker[w].token, !.full = ~conn.scanned,
                !.cursor = worker[w].cursor,
                !.phase = IF conn.scanned THEN "list" ELSE "crawl",
                !.folders = {Root}, !.seen = {Root}]
          /\ worker' = [worker EXCEPT ![w].pc = "running", ![w].cursor = 0]
     ELSE Leave(w)
  /\ UNCHANGED <<remote, db, faults, history>>

\* fail_active_sync: a lease that is no longer held is left as it is.
fail_active_sync ==
  /\ sched' = ensure_claim_finished(run.by, conn, IF Holds THEN fail_sync(sched) ELSE sched)
  /\ Leave(run.by)
  /\ UNCHANGED <<conn, history>>

\* The provider fails, or a page cannot be fenced any more.
run_fails ==
  /\ run.phase \in {"list", "crawl", "remove", "upsert"}
  /\ IF run.phase \in {"list", "crawl"} THEN Failing ELSE ~Holds /\ faults' = faults
  /\ fail_active_sync
  /\ UNCHANGED <<remote, stored, inbox>>

\* persist: heartbeat the lease, then one transaction of discover_nodes_claimed.
persist(new) ==
  /\ Holds
  /\ stored' = discover_stored(stored, new)
  /\ inbox' = discover_inbox(inbox, stored, new)
  /\ skipped' = skipped

\* The folders in the stored tree that no crawl has listed, once listed has been.
StillUncrawled(listed) ==
  {n \in Folders \ listed : stored'[n].tree /\ (n \in uncrawled \/ ~stored[n].tree)}

node_in_tree(n) == n = Root \/ (n \in Folders /\ stored[n].tree)

StoredParents == [n \in Nodes |-> stored[n].parent]

\* A node and what is stored below it; of a node that is not stored, nothing.  The
\* query of the code does not come to an end where stored parents close a cycle.
stored_subtree(n) == IF stored[n].known THEN {n} \cup Below(StoredParents, n) ELSE {}

\* persist_crawl_page of one folder's listing: every child is in the tree.
persist_crawl_page ==
  /\ run.phase = "crawl"
  /\ \E d \in run.folders :
       LET children == {n \in Nodes : place[n] = d}
           found == (children \cap Folders) \ run.seen
       IN /\ persist([n \in children |-> node(d, remoteGen[n], TRUE)])
          /\ run' = IF run.folders = {d} /\ found = {}
                    THEN [run EXCEPT !.phase = "list", !.folders = {}, !.seen = {}]
                    ELSE [run EXCEPT !.folders = (@ \ {d}) \cup found, !.seen = @ \cup found]
          /\ uncrawled' = StillUncrawled({d})
          /\ orphans' = orphans \ children
  /\ UNCHANGED <<remote, conn, sched, worker, faults>>

\* The last state a page has for every id it names: as it was when it changed,
\* or as it is now.
LastStates(from, to, current) ==
  LET ids == {log[i].node : i \in from..to}
      last(n) == CHOOSE i \in from..to : log[i].node = n /\ \A j \in (i + 1)..to : log[j].node # n
  IN [n \in ids |-> IF current THEN [place |-> place[n], gen |-> remoteGen[n]]
                    ELSE [place |-> log[last(n)].place, gen |-> log[last(n)].gen]]

\* Mutant: the page begins one change after the cursor.
PageOneLate(to, current) == LastStates(run.cursor + 2, to, current)

PageOf(to, current) == LastStates(run.cursor + 1, to, current)

\* The ids whose chain of parents in the page reaches the stored tree.
membership(page) ==
  LET reaches(n, S) ==
        LET p == page[n].place
        IN p = Root \/ p \in S \/ (p \notin DOMAIN page /\ node_in_tree(p))
  IN {n \in DOMAIN page : \A S \in SUBSET DOMAIN page :
        (\A m \in DOMAIN page : reaches(m, S) => m \in S) => n \in S}

\* list_changes: a page up to any later position; an expired cursor is
\* reported as such.
list_changes ==
  /\ run.phase = "list"
  /\ run.cursor >= floor
  /\ \E to \in run.cursor..Len(log), current \in BOOLEAN :
       LET page == PageOf(to, current)
           inside == membership(page)
       IN /\ to = run.cursor => to = Len(log)
          /\ run' = [run EXCEPT
               !.cursor = to, !.page = page, !.members = inside,
               !.removals = {n \in DOMAIN page :
                               page[n].place = Gone \/ (n \in Folders /\ n \notin inside)},
               !.upserts = {n \in DOMAIN page : page[n].place # Gone},
               !.phase = "remove"]
  /\ UNCHANGED <<remote, db, worker, faults, history>>

\* Removals and folders that left the tree take their stored subtree out.
persist_removal ==
  /\ run.phase = "remove"
  /\ IF run.removals = {}
     THEN /\ run' = [run EXCEPT !.phase = "upsert"]
          /\ UNCHANGED <<stored, inbox, history>>
     ELSE \E n \in run.removals :
            /\ persist([m \in stored_subtree(n) |-> [stored[m] EXCEPT !.tree = FALSE]])
            /\ run' = [run EXCEPT !.removals = @ \ {n}]
            /\ uncrawled' = StillUncrawled({})
            /\ orphans' = orphans \ stored_subtree(n)
  /\ UNCHANGED <<remote, conn, sched, worker, faults>>

\* A folder enters the tree: its descendants may have no change of their own.
expands(n) == n \in Folders /\ n \in run.members /\ ~stored[n].tree

\* A member of the page by a folder that the page's removals took out of the tree.
orphaned(n) ==
  /\ n \in run.members
  /\ LET p == run.page[n].place IN p \notin run.upserts /\ ~node_in_tree(p)

persist_upsert ==
  /\ run.phase = "upsert"
  /\ \E n \in run.upserts :
       /\ persist([m \in {n} |-> node(run.page[n].place, run.page[n].gen, n \in run.members)])
       /\ LET left == run.upserts \ {n} IN
          run' = [run EXCEPT !.upserts = left, !.expanded = @ \/ expands(n),
                             !.page = Restrict(@, left),
                             !.members = IF left = {} THEN {} ELSE @]
       /\ uncrawled' = StillUncrawled({})
       /\ orphans' = IF orphaned(n) THEN orphans \cup {n} ELSE orphans \ {n}
  /\ UNCHANGED <<remote, conn, sched, worker, faults>>

\* After a page: the next one, or the end of the changes.
PageDone == run.phase = "upsert" /\ run.upserts = {}

next_page ==
  /\ PageDone
  /\ run.cursor < Len(log)
  /\ run.full \/ ~run.expanded
  /\ run' = [run EXCEPT !.phase = "list"]
  /\ UNCHANGED <<remote, db, worker, faults, history>>

\* require_full_reconciliation, then the caller claims again and takes a fresh
\* baseline; without a claim the run ends.  A baseline that is not obtained is
\* a failure of the next step.
require_full_reconciliation ==
  /\ \/ PageDone /\ run.expanded /\ ~run.full
     \/ run.phase = "list" /\ ~run.full /\ run.cursor < floor
  /\ IF Holds
     THEN LET c == full_scan_required(conn)
              s == claim_due_sync(c, full_scan_released(sched), FreshToken)
          IN /\ conn' = c
             /\ sched' = s
             /\ IF s.token = FreshToken
                THEN /\ run' = [NoRun EXCEPT
                                  !.by = run.by, !.token = FreshToken, !.full = TRUE,
                                  !.cursor = Len(log), !.phase = "crawl",
                                  !.folders = {Root}, !.seen = {Root}]
                     /\ skipped' = (skipped \/ conn.cursor < Len(log))
                     /\ uncrawled' = IF conn.cursor < Len(log)
                                     THEN {d \in Folders : stored[d].tree} ELSE uncrawled
                     /\ worker' = worker
                ELSE Leave(run.by) /\ UNCHANGED <<uncrawled, skipped>>
             /\ orphans' = orphans
     ELSE fail_active_sync
  /\ UNCHANGED <<remote, stored, inbox, faults>>

\* The initial drain reports an expired cursor as any other failure.
drain_cursor_expired ==
  /\ run.phase = "list" /\ run.full /\ run.cursor < floor
  /\ fail_active_sync
  /\ UNCHANGED <<remote, stored, inbox, faults>>

\* complete_initial_sync and complete_incremental_sync: publish the terminal
\* cursor, unless the drain of a full crawl met a folder entering the tree.
complete_run ==
  /\ PageDone
  /\ run.cursor = Len(log)
  /\ run.full \/ ~run.expanded
  /\ IF Holds /\ ~run.expanded
     THEN /\ conn' = complete_cursor(conn, run.cursor, run.full)
          /\ sched' = complete_schedule(sched)
          /\ Leave(run.by)
          /\ UNCHANGED history
     ELSE fail_active_sync
  /\ UNCHANGED <<remote, stored, inbox, faults>>

----------------------------------------------------------------------------
(* After the run *)

\* "Sync now" on a schedule that was disabled disables it again, unless
\* somebody else has claimed it.
restore_disabled ==
  /\ mutexFree
  /\ worker[SyncNow].pc = "restoring"
  /\ sched' = IF sched.token = NoLease
              THEN [sched EXCEPT !.enabled = FALSE] ELSE sched
  /\ worker' = [worker EXCEPT ![SyncNow] = NoClaim]
  /\ UNCHANGED <<remote, conn, stored, inbox, run, faults, history>>

----------------------------------------------------------------------------
(* Time and crashes *)

LeaseExpires ==
  /\ Failing
  /\ sched.live
  /\ sched' = [sched EXCEPT !.live = FALSE]
  /\ UNCHANGED <<remote, conn, stored, inbox, worker, run, history>>

Crash ==
  /\ Failing
  /\ \E w \in Workers : worker[w].pc # "idle"
  /\ worker' = [w \in Workers |-> NoClaim]
  /\ run' = NoRun
  /\ UNCHANGED <<remote, db, history>>

Remote ==
  \/ \E n \in Nodes, p \in Places : RemoteMove(n, p)
  \/ \E f \in Files : RemoteEdit(f)
  \/ CursorsExpire

User ==
  \/ google_drive_connect
  \/ google_drive_folder_bind
  \/ \E enabled \in BOOLEAN : google_drive_schedule_update(enabled)
  \/ google_drive_disconnect
  \/ start_google_drive_sync

Sync ==
  \/ run_worker
  \/ \E w \in Workers : finish_claimed_error(w) \/ enter_run(w)
  \/ run_fails
  \/ persist_crawl_page
  \/ list_changes
  \/ persist_removal
  \/ persist_upsert
  \/ next_page
  \/ require_full_reconciliation
  \/ drain_cursor_expired
  \/ complete_run
  \/ restore_disabled

Next == Remote \/ User \/ Sync \/ LeaseExpires \/ Crash

Spec == Init /\ [][Next]_vars

----------------------------------------------------------------------------

\* Every row and program counter is one the tables and the code can hold; a run
\* inside the mutex belongs to the worker that entered it.
TypeOK ==
  /\ place \in [Nodes -> Places]
  /\ remoteGen \in [Nodes -> Generations]
  /\ \A i \in 1..Len(log) : log[i] \in [node: Nodes, place: Places, gen: Generations]
  /\ conn.cursor \in 0..Len(log)
  /\ stored \in [Nodes -> [known: BOOLEAN, parent: Places \cup {"none"}, gen: Generations, tree: BOOLEAN]]
  /\ \A f \in Files, g \in Generations :
       inbox[f][g].state \in {"ABSENT", "DISCOVERED", "REMOVED"}
  /\ \A w \in Workers : (worker[w].pc = "running") = (run.by = w)

\* The connection has published everything the log holds.
Settled == conn.status = "CONNECTED" /\ conn.scanned /\ conn.cursor = Len(log)

\* A published cursor covers every change before it: when the cursor is at the
\* end of the log, each file in the remote tree is stored in the tree with its
\* generation and has an Inbox row for it, however the pages were cut and
\* whatever crashed or expired on the way (google_drive_initial_sync.rs: the
\* cursor is published only after the whole drain).  The one hole, what lies
\* below a folder whose children nobody listed since it entered the tree, or since
\* a crawl restarted past changes, is the subject of NoDescendantOmitted.
NothingMissed ==
  Settled =>
    \A f \in Files : RemotelyInTree(f) /\ (\A d \in uncrawled : f \notin Below(place, d)) =>
      /\ stored[f].known /\ stored[f].tree
      /\ stored[f].gen = remoteGen[f]
      /\ inbox[f][remoteGen[f]].state \notin {"ABSENT", "REMOVED"}

\* At the end of the log no file that left the remote tree is still stored in
\* it or offered for review, whether it was moved, deleted, or left with a
\* folder above it (persist_change_page retires the stored subtree).  A full
\* crawl that restarted past unreplayed changes (skipped) is the exception: it
\* only adds what it finds; and so is what a page stored below a folder it had
\* itself taken out of the tree (NoOrphans).
NoGhosts ==
  Settled /\ ~skipped =>
    \A f \in Files :
      ~RemotelyInTree(f) /\ (\A n \in orphans : f # n /\ f \notin Below(StoredParents, n)) =>
      /\ ~stored[f].tree
      /\ \A g \in Generations : inbox[f][g].state \notin Open

\* google_drive_sync_adapter.rs: "Do not publish a cursor which could omit
\* descendants; repeat the bounded full crawl."
NoDescendantOmitted ==
  Settled => \A f \in Files : RemotelyInTree(f) => stored[f].tree

\* google_drive_sync_adapter.rs: removals come first "so explicit descendant
\* upserts later in this same page can restore their final membership": what a
\* page stores in the tree hangs from a folder that is in it.
NoOrphans == orphans = {}

\* The recursive query of stored_subtree ends: it is followed along stored parents.
StoredParentsEnd == Acyclic(StoredParents)
==============================================================================
