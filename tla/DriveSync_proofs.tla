--------------------------- MODULE DriveSync_proofs ---------------------------
(*****************************************************************************)
(* Proofs about DriveSync, for any files and folders, any number of remote   *)
(* changes, pages cut anywhere and any number of faults: a published cursor  *)
(* hides no change, and nothing outside the tree stays stored in it.         *)
(*****************************************************************************)
EXTENDS DriveSync, Numbers_proofs

-----------------------------------------------------------------------------
(* Types *)

Statuses ==
  {"NONE", "AUTHORIZING", "SELECTING_FOLDER", "CONNECTED", "AUTH_REQUIRED", "DISCONNECTED"}
Phases == {"none", "list", "crawl", "remove", "upsert"}
Tokens == 0..4
PageState == [place : Places, gen : Generations]
Pages == UNION {[S -> PageState] : S \in SUBSET Nodes}
Change == [node : Nodes, place : Places, gen : Generations]

Connection == [status : Statuses, cursor : Nat, scanned : BOOLEAN]
Schedule ==
  [exists : BOOLEAN, enabled : BOOLEAN, token : Tokens, live : BOOLEAN, suspended : BOOLEAN]
NodeRow ==
  [known : BOOLEAN, parent : Places \cup {"none"}, gen : Generations, tree : BOOLEAN]
ItemRow ==
  [state : {"ABSENT", "DISCOVERED", "REMOVED"}, tries : {0}, content : {NoContent},
   token : {NoLease}, live : {FALSE}, origin : {"none"}, run : {0}]
WorkerRow ==
  [pc : {"idle", "claimed", "running", "restoring"}, token : Tokens, cursor : Nat,
   restore : BOOLEAN]
Run ==
  [by : Workers \cup {Nobody}, phase : Phases, token : Tokens, full : BOOLEAN, cursor : Nat,
   page : Pages, members : SUBSET Nodes, removals : SUBSET Nodes, upserts : SUBSET Nodes,
   expanded : BOOLEAN, folders : SUBSET (Folders \cup {Root}), seen : SUBSET (Folders \cup {Root})]

RemoteTypes ==
  /\ place \in [Nodes -> Places]
  /\ remoteGen \in [Nodes -> Generations]
  /\ log \in Seq(Change)
  /\ conn.cursor <= Len(log) /\ run.cursor <= Len(log)

StoreTypes ==
  /\ conn \in Connection
  /\ sched \in Schedule
  /\ stored \in [Nodes -> NodeRow]
  /\ inbox \in [Files -> [Generations -> ItemRow]]

WorkerTypes ==
  /\ worker \in [Workers -> WorkerRow]
  /\ run \in Run
  /\ run.upserts \subseteq DOMAIN run.page
  /\ \A w \in Workers : (worker[w].pc = "running") = (run.by = w)

Types == RemoteTypes /\ StoreTypes /\ WorkerTypes

Running == run.by # Nobody

\* The fence: a worker that holds the lease knows the published cursor, so a run
\* begins at it; an application that is not connected yet has seen no change.
Fenced ==
  /\ \A w \in Workers : worker[w].pc = "claimed" =>
       worker[w].token # NoLease /\ (worker[w].token = sched.token => worker[w].cursor = conn.cursor)
  /\ Running => conn.cursor <= run.cursor
  /\ ~Running => run = NoRun
  /\ conn.status \in {"NONE", "AUTHORIZING", "SELECTING_FOLDER"} => log = <<>> /\ conn.cursor = 0

-----------------------------------------------------------------------------
(* The values the store functions return *)

LEMMA Freshness ==
  ASSUME sched \in Schedule, worker \in [Workers -> WorkerRow]
  PROVE  /\ FreshToken \in Tokens \ {NoLease}
         /\ FreshToken # sched.token
         /\ \A w \in Workers : worker[w].token # FreshToken
<1>1. \E t \in 1..4 : t # sched.token /\ \A w \in Workers : worker[w].token # t
  <2>1. \E t \in 1..4 : t # sched.token /\ worker[Background].token # t /\ worker[SyncNow].token # t
    <3> DEFINE a == sched.token b == worker[Background].token c == worker[SyncNow].token
    <3>1. a \in 0..4 /\ b \in 0..4 /\ c \in 0..4
      BY DEF Schedule, WorkerRow, Tokens, Workers
    <3> HIDE DEF a, b, c
    <3>2. \E t \in 1..4 : t # a /\ b # t /\ c # t
      BY <3>1
    <3> QED
      BY <3>2 DEF a, b, c
  <2> QED
    BY <2>1 DEF Workers
<1> QED
  BY <1>1 DEF FreshToken, Tokens, NoLease

LEMMA ReleasedTypes ==
  ASSUME NEW s \in Schedule
  PROVE  Released(s) \in Schedule /\ Released(s).token = NoLease
<1>1. ASSUME NEW t \in Tokens, NEW b \in BOOLEAN
      PROVE  /\ [s EXCEPT !.token = t, !.live = b] \in Schedule
             /\ [s EXCEPT !.token = t, !.live = b].token = t
  BY DEF Schedule
<1>2. NoLease \in Tokens
  BY DEF NoLease, Tokens
<1> QED
  BY <1>1, <1>2, Zenon DEF Released

LEMMA ConfiguredTypes ==
  ASSUME NEW enabled \in BOOLEAN
  PROVE  configure_schedule(enabled) \in Schedule /\ configure_schedule(enabled).token = NoLease
<1>1. NoSchedule \in Schedule /\ NoSchedule.token = NoLease
  BY DEF NoSchedule, Schedule, NoLease, Tokens
<1>2. ASSUME NEW s \in Schedule, NEW a \in BOOLEAN
      PROVE  [s EXCEPT !.exists = a, !.enabled = enabled] \in Schedule
             /\ [s EXCEPT !.exists = a, !.enabled = enabled].token = s.token
  BY DEF Schedule
<1> QED
  BY <1>1, <1>2, Zenon DEF configure_schedule

LEMMA ScheduleResults ==
  ASSUME NEW s \in Schedule, NEW c, NEW t \in Tokens
  PROVE  /\ configure_schedule(TRUE) \in Schedule /\ configure_schedule(FALSE) \in Schedule
         /\ disabled_schedule(s) \in Schedule
         /\ suspend_schedule_in(s) \in Schedule
         /\ claim_due_sync(c, s, t) \in Schedule
         /\ complete_schedule(s) \in Schedule
         /\ fail_sync(s) \in Schedule
         /\ full_scan_released(s) \in Schedule
         /\ suspend_sync_claimed(s) \in Schedule
<1>1. Released(s) \in Schedule
  BY ReleasedTypes
<1>2. disabled_schedule(s) \in Schedule /\ complete_schedule(s) \in Schedule
      /\ full_scan_released(s) \in Schedule /\ suspend_sync_claimed(s) \in Schedule
      /\ suspend_schedule_in(s) \in Schedule /\ fail_sync(s) \in Schedule
  BY <1>1 DEF disabled_schedule, complete_schedule, full_scan_released, suspend_sync_claimed,
     suspend_schedule_in, fail_sync, Schedule
<1>3. claim_due_sync(c, s, t) \in Schedule
  BY <1>1 DEF claim_due_sync, recover_expired_sync_lease_in, Schedule
<1>4. configure_schedule(TRUE) \in Schedule /\ configure_schedule(FALSE) \in Schedule
  BY ConfiguredTypes
<1> QED
  BY <1>2, <1>3, <1>4

\* A claim leaves the token that was there, none, or the new one.
LEMMA ScheduleTokens ==
  ASSUME NEW s \in Schedule, NEW c, NEW t \in Tokens
  PROVE  /\ claim_due_sync(c, s, t).token \in {s.token, NoLease, t}
         /\ claim_next_due_sync(c, s, t).token \in {s.token, NoLease, t}
         /\ claim_next_due_sync(c, s, t) \in Schedule
         /\ configure_schedule(TRUE).token = NoLease /\ configure_schedule(FALSE).token = NoLease
         /\ disabled_schedule(s).token = NoLease
         /\ suspend_schedule_in(s).token \in {s.token, NoLease}
         /\ complete_schedule(s).token = NoLease
         /\ fail_sync(s).token = NoLease
         /\ full_scan_released(s).token = NoLease
         /\ suspend_sync_claimed(s).token = NoLease
<1>1. Released(s) \in Schedule /\ Released(s).token = NoLease
  BY ReleasedTypes
<1>2. claim_due_sync(c, s, t).token \in {s.token, NoLease, t}
  BY <1>1 DEF claim_due_sync, recover_expired_sync_lease_in, Schedule
<1>3. claim_next_due_sync(c, s, t).token \in {s.token, NoLease, t}
      /\ claim_next_due_sync(c, s, t) \in Schedule
  BY <1>2, ScheduleResults DEF claim_next_due_sync
<1>4. /\ configure_schedule(TRUE).token = NoLease /\ configure_schedule(FALSE).token = NoLease
  BY ConfiguredTypes
<1>5. /\ disabled_schedule(s).token = NoLease
      /\ suspend_schedule_in(s).token \in {s.token, NoLease}
      /\ complete_schedule(s).token = NoLease
      /\ fail_sync(s).token = NoLease
      /\ full_scan_released(s).token = NoLease
      /\ suspend_sync_claimed(s).token = NoLease
  BY <1>1 DEF disabled_schedule, complete_schedule, full_scan_released, suspend_sync_claimed,
     suspend_schedule_in, fail_sync, Schedule
<1> QED
  BY <1>2, <1>3, <1>4, <1>5

LEMMA ConnectionResults ==
  ASSUME NEW c \in Connection
  PROVE  /\ begin_connection(c) \in Connection /\ begin_connection(c).cursor = 0
         /\ begin_connection(c).scanned = FALSE /\ begin_connection(c).status = "AUTHORIZING"
         /\ mark_authorized(c) \in Connection /\ mark_authorized(c).cursor = c.cursor
         /\ mark_authorized(c).scanned = c.scanned
         /\ mark_authorized(c).status = "SELECTING_FOLDER"
         /\ require_reauthorization(c) \in Connection
         /\ require_reauthorization(c).cursor = c.cursor
         /\ require_reauthorization(c).scanned = c.scanned
         /\ require_reauthorization(c).status = "AUTH_REQUIRED"
         /\ disconnect(c) \in Connection /\ disconnect(c).cursor = c.cursor
         /\ disconnect(c).scanned = c.scanned
         /\ disconnect(c).status = "DISCONNECTED"
         /\ full_scan_required(c) \in Connection /\ full_scan_required(c).cursor = c.cursor
         /\ full_scan_required(c).scanned = FALSE
         /\ full_scan_required(c).status = c.status
<1>1. NoConnection \in Connection /\ NoConnection.cursor = 0 /\ NoConnection.scanned = FALSE
  BY DEF NoConnection, Connection, Statuses
<1>2. ASSUME NEW d \in Connection, NEW status \in Statuses
      PROVE  /\ [d EXCEPT !.status = status] \in Connection
             /\ [d EXCEPT !.status = status].cursor = d.cursor
             /\ [d EXCEPT !.status = status].scanned = d.scanned
             /\ [d EXCEPT !.status = status].status = status
  BY DEF Connection
<1>3. /\ begin_connection(c) \in Connection /\ begin_connection(c).cursor = 0
      /\ begin_connection(c).scanned = FALSE /\ begin_connection(c).status = "AUTHORIZING"
  BY <1>1, <1>2 DEF begin_connection, Statuses
<1>4. {"SELECTING_FOLDER", "AUTH_REQUIRED", "DISCONNECTED"} \subseteq Statuses
  BY DEF Statuses
<1>5. /\ full_scan_required(c) \in Connection /\ full_scan_required(c).cursor = c.cursor
      /\ full_scan_required(c).scanned = FALSE
      /\ full_scan_required(c).status = c.status
  BY DEF full_scan_required, Connection
<1>6. /\ mark_authorized(c) \in Connection /\ mark_authorized(c).cursor = c.cursor
      /\ mark_authorized(c).scanned = c.scanned
      /\ mark_authorized(c).status = "SELECTING_FOLDER"
  BY <1>2, <1>4 DEF mark_authorized
<1>7. /\ require_reauthorization(c) \in Connection
      /\ require_reauthorization(c).cursor = c.cursor
      /\ require_reauthorization(c).scanned = c.scanned
      /\ require_reauthorization(c).status = "AUTH_REQUIRED"
  BY <1>2, <1>4 DEF require_reauthorization
<1>8. /\ disconnect(c) \in Connection /\ disconnect(c).cursor = c.cursor
      /\ disconnect(c).scanned = c.scanned
      /\ disconnect(c).status = "DISCONNECTED"
  BY <1>2, <1>4 DEF disconnect
<1> QED
  BY <1>3, <1>5, <1>6, <1>7, <1>8

-----------------------------------------------------------------------------
(* What lies below a folder *)

LEMMA BelowStep ==
  ASSUME NEW parents, NEW top, NEW n \in Nodes,
         parents[n] = top \/ parents[n] \in Folders \cap Below(parents, top)
  PROVE  n \in Below(parents, top)
BY DEF Below

LEMMA BelowLeast ==
  ASSUME NEW parents, NEW top, NEW S \in SUBSET Folders, NEW n \in Below(parents, top),
         \A d \in Folders : parents[d] \in S \cup {top} => d \in S
  PROVE  n \in Nodes /\ parents[n] \in S \cup {top}
BY DEF Below

-----------------------------------------------------------------------------
(* What a transaction of discover_nodes_claimed leaves *)

LEMMA ItemResults ==
  ASSUME NEW row \in ItemRow, NEW g \in Generations, NEW old \in NodeRow, NEW new \in NodeRow
  PROVE  /\ retire(row, g, old, new) \in ItemRow
         /\ ~new.tree => retire(row, g, old, new).state # "DISCOVERED"
         /\ g = new.gen /\ new.tree => retire(row, g, old, new) = row
<1>1. ASSUME NEW s \in {"DISCOVERED", "REMOVED"}, NEW r \in ItemRow
      PROVE  [r EXCEPT !.state = s] \in ItemRow /\ [r EXCEPT !.state = s].state = s
  BY DEF ItemRow
<1>2. Unleased(row) \in ItemRow
  <2>1. ASSUME NEW t \in {NoLease}, NEW b \in {FALSE}, NEW o \in {"none"}
        PROVE  [row EXCEPT !.token = t, !.live = b, !.origin = o] \in ItemRow
    BY DEF ItemRow
  <2> QED
    BY <2>1, Zenon DEF Unleased
<1>3. "DISCOVERED" \in Open
  BY DEF Open, Reviewable
<1>4. CASE (~new.tree \/ (old.known /\ old.gen # new.gen /\ g # new.gen)) /\ row.state \in Open
  <2>1. retire(row, g, old, new) = [Unleased(row) EXCEPT !.state = "REMOVED"]
    BY <1>4 DEF retire
  <2> QED
    BY <1>1, <1>2, <1>4, <2>1
<1>5. CASE ~((~new.tree \/ (old.known /\ old.gen # new.gen /\ g # new.gen)) /\ row.state \in Open)
  <2>1. retire(row, g, old, new) = row
    BY <1>5 DEF retire
  <2> QED
    BY <1>3, <1>5, <2>1
<1> QED
  BY <1>4, <1>5

LEMMA ItemsResults ==
  ASSUME NEW rows \in [Generations -> ItemRow], NEW old \in NodeRow, NEW new \in NodeRow
  PROVE  /\ discover_items(rows, old, new) \in [Generations -> ItemRow]
         /\ ~new.tree => \A g \in Generations : discover_items(rows, old, new)[g].state \notin Open
         /\ new.tree => discover_items(rows, old, new)[new.gen].state \notin {"ABSENT", "REMOVED"}
<1> DEFINE items == discover_items(rows, old, new)
<1>1. ASSUME NEW g \in Generations
      PROVE  /\ items[g] \in ItemRow
             /\ ~new.tree => items[g].state # "DISCOVERED"
             /\ new.tree /\ g = new.gen => items[g].state \notin {"ABSENT", "REMOVED"}
  <2> DEFINE row == retire(rows[g], g, old, new)
  <2>1. row \in ItemRow /\ (~new.tree => row.state # "DISCOVERED")
    BY ItemResults
  <2>2. items[g] = IF new.tree /\ g = new.gen /\ row.state \in {"ABSENT", "REMOVED"}
                   THEN [row EXCEPT !.state = "DISCOVERED"] ELSE row
    BY DEF discover_items
  <2> HIDE DEF row, items
  <2>3. [row EXCEPT !.state = "DISCOVERED"] \in ItemRow
        /\ [row EXCEPT !.state = "DISCOVERED"].state = "DISCOVERED"
    BY <2>1 DEF ItemRow
  <2> QED
    BY <2>1, <2>2, <2>3
<1>2. items \in [Generations -> ItemRow]
  <2>1. items = [g \in Generations |-> items[g]]
    BY DEF discover_items
  <2> QED
    BY <1>1, <2>1
<1>3. \A r \in ItemRow : r.state \in Open => r.state = "DISCOVERED"
  BY DEF ItemRow, Open, Reviewable
<1>4. new.gen \in Generations
  BY DEF NodeRow
<1> HIDE DEF items
<1>5. ~new.tree => \A g \in Generations : items[g].state \notin Open
  BY <1>1, <1>3
<1>6. new.tree => items[new.gen].state \notin {"ABSENT", "REMOVED"}
  BY <1>1, <1>4
<1> QED
  BY <1>2, <1>5, <1>6 DEF items

LEMMA DiscoverResults ==
  ASSUME StoreTypes, NEW D \in SUBSET Nodes, NEW new \in [D -> NodeRow],
         stored' = discover_stored(stored, new), inbox' = discover_inbox(inbox, stored, new)
  PROVE  /\ stored' \in [Nodes -> NodeRow]
         /\ inbox' \in [Files -> [Generations -> ItemRow]]
         /\ \A n \in Nodes : stored'[n] = IF n \in D THEN new[n] ELSE stored[n]
         /\ \A f \in Files \ D : inbox'[f] = inbox[f]
         /\ \A f \in Files \cap D : ~new[f].tree => \A g \in Generations : inbox'[f][g].state \notin Open
         /\ \A f \in Files \cap D : new[f].tree => inbox'[f][new[f].gen].state \notin {"ABSENT", "REMOVED"}
<1>1. stored \in [Nodes -> NodeRow] /\ inbox \in [Files -> [Generations -> ItemRow]]
  BY DEF StoreTypes
<1>2. DOMAIN new = D
  OBVIOUS
<1>3. stored' = [n \in Nodes |-> IF n \in D THEN new[n] ELSE stored[n]]
  BY <1>2 DEF discover_stored
<1>4. inbox' = [f \in Files |-> IF f \in D THEN discover_items(inbox[f], stored[f], new[f]) ELSE inbox[f]]
  BY <1>2 DEF discover_inbox
<1>5. \A n \in Nodes : stored'[n] = IF n \in D THEN new[n] ELSE stored[n]
  BY <1>3
<1>6. stored' \in [Nodes -> NodeRow]
  BY <1>1, <1>3
<1>7. ASSUME NEW f \in Files \cap D
      PROVE  /\ inbox'[f] \in [Generations -> ItemRow]
             /\ ~new[f].tree => \A g \in Generations : inbox'[f][g].state \notin Open
             /\ new[f].tree => inbox'[f][new[f].gen].state \notin {"ABSENT", "REMOVED"}
  <2>1. inbox[f] \in [Generations -> ItemRow] /\ stored[f] \in NodeRow /\ new[f] \in NodeRow
    BY <1>1 DEF Nodes
  <2>2. inbox'[f] = discover_items(inbox[f], stored[f], new[f])
    BY <1>4
  <2> QED
    BY <2>1, <2>2, ItemsResults
<1>8. \A f \in Files \ D : inbox'[f] = inbox[f]
  BY <1>4
<1>9. inbox' \in [Files -> [Generations -> ItemRow]]
  BY <1>1, <1>4, <1>7, <1>8
<1> QED
  BY <1>5, <1>6, <1>7, <1>8, <1>9

LEMMA NoRunTypes ==
  /\ NoRun \in Run
  /\ NoRun.by = Nobody /\ NoRun.phase = "none" /\ NoRun.cursor = 0
  /\ NoRun.removals = {} /\ NoRun.upserts = {} /\ NoRun.folders = {}
<1>1. <<>> \in Pages
  <2>1. <<>> \in [{} -> PageState]
    OBVIOUS
  <2> QED
    BY <2>1, Zenon DEF Pages
<1>2. NoLease \in Tokens
  BY DEF NoLease, Tokens
<1> HIDE DEF Pages
<1>3. NoRun \in Run
  BY <1>1, <1>2 DEF NoRun, Run, Phases
<1> QED
  BY <1>3 DEF NoRun

-----------------------------------------------------------------------------
(* Types and the fence: steps outside the run *)

Ground == Types /\ Fenced

Early == conn.status \in {"NONE", "AUTHORIZING", "SELECTING_FOLDER"}

LEMMA GroundInit == Init => Ground
<1> SUFFICES ASSUME Init PROVE Ground
  OBVIOUS
<1>1. RemoteTypes
  <2>1. place \in [Nodes -> Places]
    BY DEF Init, Places
  <2>2. remoteGen \in [Nodes -> Generations]
    BY StoreAssumption DEF Init, Generations
  <2>3. log \in Seq(Change) /\ Len(log) = 0
    BY DEF Init
  <2>4. conn.cursor = 0 /\ run.cursor = 0
    BY NoRunTypes DEF Init, NoConnection
  <2> QED
    BY <2>1, <2>2, <2>3, <2>4 DEF RemoteTypes
<1>2. StoreTypes
  <2>1. conn \in Connection
    BY DEF Init, NoConnection, Connection, Statuses
  <2>2. sched \in Schedule
    BY DEF Init, NoSchedule, Schedule, Tokens, NoLease
  <2>3. stored \in [Nodes -> NodeRow]
    BY StoreAssumption DEF Init, UnknownNode, NodeRow, Generations
  <2>4. inbox \in [Files -> [Generations -> ItemRow]]
    <3>1. NoItem \in ItemRow
      BY DEF NoItem, ItemRow
    <3> QED
      BY <3>1 DEF Init
  <2> QED
    BY <2>1, <2>2, <2>3, <2>4 DEF StoreTypes
<1>3. WorkerTypes
  <2>1. NoClaim \in WorkerRow /\ NoClaim.pc = "idle"
    BY DEF NoClaim, WorkerRow, Tokens, NoLease
  <2>2. worker \in [Workers -> WorkerRow] /\ \A w \in Workers : worker[w].pc = "idle"
    BY <2>1 DEF Init
  <2>3. run \in Run /\ run.by = Nobody /\ run.upserts = {}
    BY NoRunTypes DEF Init
  <2> QED
    BY <2>2, <2>3 DEF WorkerTypes, Workers, Background, SyncNow, Nobody
<1>4. Fenced
  <2>1. \A w \in Workers : worker[w].pc = "idle"
    BY DEF Init, NoClaim
  <2>2. run = NoRun /\ ~Running
    BY NoRunTypes DEF Init, Running
  <2>3. log = <<>> /\ conn.cursor = 0
    BY DEF Init, NoConnection
  <2> QED
    BY <2>1, <2>2, <2>3 DEF Fenced
<1> QED
  BY <1>1, <1>2, <1>3, <1>4 DEF Ground, Types

\* A step that leaves the run and the rows of the tree alone.
LEMMA GroundFrame ==
  ASSUME Ground,
         UNCHANGED <<place, remoteGen, log, stored, inbox, run>>,
         conn' \in Connection, conn'.cursor = conn.cursor, Early' => Early,
         sched' \in Schedule,
         worker' \in [Workers -> WorkerRow],
         \A w \in Workers : (worker'[w].pc = "running") = (worker[w].pc = "running"),
         \A w \in Workers : worker'[w].pc = "claimed" =>
           /\ worker'[w].token # NoLease
           /\ worker'[w].token = sched'.token => worker'[w].cursor = conn.cursor
  PROVE  Ground'
<1>1. RemoteTypes' /\ StoreTypes'
  BY DEF Ground, Types, RemoteTypes, StoreTypes
<1>2. WorkerTypes'
  BY DEF Ground, Types, WorkerTypes
<1>3. Fenced'
  BY DEF Ground, Fenced, Early, Running
<1> QED
  BY <1>1, <1>2, <1>3 DEF Ground, Types

LEMMA ClaimGround ==
  ASSUME Ground, NEW w \in Workers, worker[w].pc = "idle", NEW restore \in BOOLEAN,
         sched' \in Schedule, sched'.token \in {sched.token, NoLease, FreshToken},
         Claimed(w, sched', restore),
         UNCHANGED <<place, remoteGen, log, stored, inbox, run, conn>>
  PROVE  Ground'
<1>0. sched \in Schedule /\ worker \in [Workers -> WorkerRow] /\ conn \in Connection
  BY DEF Ground, Types, StoreTypes, WorkerTypes
<1>1. /\ FreshToken \in Tokens /\ FreshToken # NoLease
      /\ FreshToken # sched.token
      /\ \A u \in Workers : worker[u].token # FreshToken
  BY <1>0, Freshness
<1> DEFINE claim == [pc |-> "claimed", token |-> FreshToken, cursor |-> conn.cursor, restore |-> restore]
           idle == [NoClaim EXCEPT !.pc = IF restore THEN "restoring" ELSE "idle"]
<1>2. claim \in WorkerRow
  BY <1>0, <1>1 DEF WorkerRow, Connection
<1>3. idle \in WorkerRow /\ idle.pc \in {"restoring", "idle"}
  <2>1. NoClaim \in WorkerRow
    BY DEF NoClaim, WorkerRow, Tokens, NoLease
  <2>2. ASSUME NEW p \in {"restoring", "idle"}
        PROVE  [NoClaim EXCEPT !.pc = p] \in WorkerRow /\ [NoClaim EXCEPT !.pc = p].pc = p
    BY <2>1 DEF WorkerRow
  <2> QED
    BY <2>2
<1>4. worker' = [worker EXCEPT ![w] = IF sched'.token = FreshToken THEN claim ELSE idle]
  BY DEF Claimed
<1> HIDE DEF idle
<1>5. worker' \in [Workers -> WorkerRow]
  BY <1>0, <1>2, <1>3, <1>4
<1>6. worker'[w] = IF sched'.token = FreshToken THEN claim ELSE idle
  BY <1>0, <1>4
<1>7. \A u \in Workers \ {w} : worker'[u] = worker[u]
  BY <1>0, <1>4
<1>8. \A u \in Workers : (worker'[u].pc = "running") = (worker[u].pc = "running")
  BY <1>3, <1>6, <1>7
<1>9. ASSUME NEW u \in Workers, worker'[u].pc = "claimed"
      PROVE  /\ worker'[u].token # NoLease
             /\ worker'[u].token = sched'.token => worker'[u].cursor = conn.cursor
  <2>1. CASE u = w
    BY <1>1, <1>3, <1>6, <1>9, <2>1
  <2>2. CASE u # w
    <3>1. /\ worker[u].pc = "claimed" => worker[u].token # NoLease
          /\ worker[u].pc = "claimed" /\ worker[u].token = sched.token => worker[u].cursor = conn.cursor
      BY DEF Ground, Fenced
    <3> QED
      BY <1>1, <1>7, <1>9, <2>2, <3>1
  <2> QED
    BY <2>1, <2>2
<1> QED
  BY <1>0, <1>5, <1>8, <1>9, GroundFrame DEF Early

\* A command that changes the connection and the schedule only, and takes no
\* lease.
LEMMA CommandGround ==
  ASSUME Ground, UNCHANGED <<place, remoteGen, log, stored, inbox, run, worker>>,
         conn' \in Connection, conn'.cursor = conn.cursor, Early' => Early,
         sched' \in Schedule, sched'.token \in {sched.token, NoLease}
  PROVE  Ground'
<1>1. worker' \in [Workers -> WorkerRow]
  BY DEF Ground, Types, WorkerTypes
<1>2. \A w \in Workers : worker'[w].pc = "claimed" =>
        /\ worker'[w].token # NoLease
        /\ worker'[w].token = sched'.token => worker'[w].cursor = conn.cursor
  BY DEF Ground, Fenced
<1> QED
  BY <1>1, <1>2, GroundFrame

LEMMA FinishingTypes ==
  ASSUME worker \in [Workers -> WorkerRow], NEW w \in Workers
  PROVE  /\ Finishing(w) \in [Workers -> WorkerRow]
         /\ Finishing(w)[w].pc \in {"idle", "restoring"}
         /\ \A u \in Workers \ {w} : Finishing(w)[u] = worker[u]
<1>1. NoClaim \in WorkerRow /\ NoClaim.pc = "idle"
  BY DEF NoClaim, WorkerRow, Tokens, NoLease
<1>2. [NoClaim EXCEPT !.pc = "restoring"] \in WorkerRow /\ [NoClaim EXCEPT !.pc = "restoring"].pc = "restoring"
  BY <1>1 DEF WorkerRow
<1> QED
  BY <1>1, <1>2 DEF Finishing

LEMMA ConnectGround ==
  ASSUME Ground, google_drive_connect
  PROVE  Ground'
<1>1. conn \in Connection /\ sched \in Schedule
  BY DEF Ground, Types, StoreTypes
<1>2. conn' \in Connection /\ conn'.cursor = conn.cursor /\ (Early' => Early)
  <2>1. CASE conn.status = "NONE" /\ conn' = begin_connection(conn)
    BY <1>1, <2>1, ConnectionResults DEF Ground, Fenced, Early
  <2>2. CASE conn.status = "AUTHORIZING" /\ conn' = mark_authorized(conn)
    BY <1>1, <2>2, ConnectionResults DEF Early
  <2> QED
    BY <2>1, <2>2 DEF google_drive_connect
<1> QED
  BY <1>1, <1>2, CommandGround DEF google_drive_connect, remote

LEMMA BindGround ==
  ASSUME Ground, google_drive_folder_bind
  PROVE  Ground' /\ conn'.cursor = conn.cursor /\ conn'.scanned = conn.scanned
<1>1. conn \in Connection /\ sched \in Schedule
  BY DEF Ground, Types, StoreTypes
<1>2. /\ conn' \in Connection /\ conn'.cursor = conn.cursor /\ (Early' => Early)
      /\ conn'.scanned = conn.scanned
      /\ sched' \in Schedule /\ sched'.token \in {sched.token, NoLease}
  <2>1. CASE /\ conn.status = "SELECTING_FOLDER"
             /\ conn' = select_root_with_baseline(conn, Len(log))
             /\ sched' = sched
    <3>1. conn.cursor = 0 /\ Len(log) = 0
      BY <2>1 DEF Ground, Fenced
    <3>2. ASSUME NEW n \in Nat
          PROVE  LET c == [conn EXCEPT !.status = "CONNECTED", !.cursor = n] IN
                 c \in Connection /\ c.cursor = n /\ c.scanned = conn.scanned /\ c.status = "CONNECTED"
      BY <1>1 DEF Connection, Statuses
    <3>3. conn' = [conn EXCEPT !.status = "CONNECTED", !.cursor = Len(log)] /\ Len(log) \in Nat
      BY <2>1, <3>1 DEF select_root_with_baseline
    <3>4. conn' \in Connection /\ conn'.cursor = Len(log) /\ conn'.scanned = conn.scanned /\ conn'.status = "CONNECTED"
      BY <3>2, <3>3
    <3> QED
      BY <1>1, <2>1, <3>1, <3>4 DEF Early
  <2>2. CASE sched' = configure_schedule(FALSE) /\ conn' = conn
    BY <1>1, <2>2, ConfiguredTypes DEF Early
  <2> QED
    BY <2>1, <2>2 DEF google_drive_folder_bind
<1> QED
  BY <1>1, <1>2, CommandGround DEF google_drive_folder_bind, remote

LEMMA ScheduleUpdateGround ==
  ASSUME Ground, NEW enabled \in BOOLEAN, google_drive_schedule_update(enabled)
  PROVE  Ground'
<1>1. conn \in Connection
  BY DEF Ground, Types, StoreTypes
<1> QED
  BY <1>1, ConfiguredTypes, CommandGround DEF google_drive_schedule_update, remote, Early

LEMMA DisconnectGround ==
  ASSUME Ground, google_drive_disconnect
  PROVE  Ground'
<1>1. conn \in Connection /\ sched \in Schedule
  BY DEF Ground, Types, StoreTypes
<1>2. conn' \in Connection /\ conn'.cursor = conn.cursor /\ (Early' => Early)
  BY <1>1, ConnectionResults DEF google_drive_disconnect, Early
<1>3. NoLease \in Tokens
  BY DEF NoLease, Tokens
<1>4. sched' \in Schedule /\ sched'.token \in {sched.token, NoLease}
  BY <1>1, <1>3, ScheduleResults, ScheduleTokens DEF google_drive_disconnect
<1> QED
  BY <1>2, <1>4, CommandGround DEF google_drive_disconnect, remote

LEMMA RunWorkerGround ==
  ASSUME Ground, run_worker
  PROVE  Ground'
<1>1. sched \in Schedule /\ worker \in [Workers -> WorkerRow]
  BY DEF Ground, Types, StoreTypes, WorkerTypes
<1>2. FreshToken \in Tokens
  BY <1>1, Freshness
<1>3. sched' \in Schedule /\ sched'.token \in {sched.token, NoLease, FreshToken}
  BY <1>1, <1>2, ScheduleTokens DEF run_worker
<1>4. Background \in Workers
  BY DEF Workers
<1> QED
  BY <1>3, <1>4, ClaimGround DEF run_worker, remote

LEMMA StartSyncGround ==
  ASSUME Ground, start_google_drive_sync
  PROVE  Ground'
<1>1. sched \in Schedule /\ worker \in [Workers -> WorkerRow]
  BY DEF Ground, Types, StoreTypes, WorkerTypes
<1>2. FreshToken \in Tokens
  BY <1>1, Freshness
<1> DEFINE restore == ~sched.enabled
           on == IF restore THEN configure_schedule(TRUE) ELSE sched
           due == IF on.token = NoLease THEN [on EXCEPT !.suspended = FALSE] ELSE on
<1>3. /\ sched' = claim_due_sync(conn, due, FreshToken)
      /\ Claimed(SyncNow, sched', restore)
  BY DEF start_google_drive_sync
<1>4. restore \in BOOLEAN
  BY <1>1 DEF Schedule
<1>5. due \in Schedule /\ due.token \in {sched.token, NoLease}
  <2>1. on \in Schedule /\ on.token \in {sched.token, NoLease}
    BY <1>1, ConfiguredTypes
  <2> HIDE DEF on
  <2> QED
    BY <2>1 DEF Schedule
<1> HIDE DEF restore, due
<1>6. sched' \in Schedule /\ sched'.token \in {sched.token, NoLease, FreshToken}
  <2>1. ASSUME NEW s \in Schedule
        PROVE  /\ claim_due_sync(conn, s, FreshToken) \in Schedule
               /\ claim_due_sync(conn, s, FreshToken).token \in {s.token, NoLease, FreshToken}
    BY <1>2, ScheduleResults, ScheduleTokens
  <2> QED
    BY <1>3, <1>5, <2>1
<1>7. SyncNow \in Workers
  BY DEF Workers
<1> QED
  BY <1>3, <1>4, <1>6, <1>7, ClaimGround DEF start_google_drive_sync, remote

LEMMA FailedClaimGround ==
  ASSUME Ground, NEW w \in Workers, finish_claimed_error(w)
  PROVE  Ground' /\ conn'.cursor = conn.cursor /\ conn'.scanned = conn.scanned
<1>1. conn \in Connection /\ sched \in Schedule /\ worker \in [Workers -> WorkerRow]
  BY DEF Ground, Types, StoreTypes, WorkerTypes
<1>2. NoLease \in Tokens
  BY DEF NoLease, Tokens
<1> DEFINE held == assert_sync_lease_in(conn, sched, worker[w].token)
<1>3. /\ conn' \in Connection /\ conn'.cursor = conn.cursor /\ (Early' => Early)
      /\ conn'.scanned = conn.scanned
  <2>1. conn' \in {conn, require_reauthorization(conn)}
    BY DEF finish_claimed_error
  <2>2. CASE conn' = conn
    BY <1>1, <2>2 DEF Early
  <2>3. CASE conn' = require_reauthorization(conn)
    BY <1>1, <2>3, ConnectionResults DEF Early
  <2> QED
    BY <2>1, <2>2, <2>3
<1>4. sched' \in Schedule /\ sched'.token \in {sched.token, NoLease}
  <2>1. ASSUME NEW s \in Schedule
        PROVE  /\ ensure_claim_finished(w, conn, s) \in Schedule
               /\ ensure_claim_finished(w, conn, s).token \in {s.token, NoLease}
    BY <1>2, <2>1, ScheduleResults, ScheduleTokens DEF ensure_claim_finished
  <2> DEFINE failed == IF held THEN fail_sync(sched) ELSE sched
             suspended == IF held THEN suspend_sync_claimed(sched) ELSE sched
  <2>2. failed \in Schedule /\ failed.token \in {sched.token, NoLease}
    BY <1>1, <1>2, ScheduleResults, ScheduleTokens
  <2>3. suspended \in Schedule /\ suspended.token \in {sched.token, NoLease}
    BY <1>1, <1>2, ScheduleResults, ScheduleTokens
  <2>4. suspend_schedule_in(suspended) \in Schedule
        /\ suspend_schedule_in(suspended).token \in {sched.token, NoLease}
    <3> HIDE DEF suspended
    <3> QED
      BY <1>2, <2>3, ScheduleResults, ScheduleTokens
  <2>5. sched' \in {ensure_claim_finished(w, conn, failed), suspended, suspend_schedule_in(suspended), sched}
    BY DEF finish_claimed_error
  <2> HIDE DEF failed, suspended
  <2> QED
    BY <1>1, <2>1, <2>2, <2>3, <2>4, <2>5
<1>5. worker' = Finishing(w) /\ worker[w].pc = "claimed"
  BY DEF finish_claimed_error
<1>6. /\ worker' \in [Workers -> WorkerRow]
      /\ worker'[w].pc \in {"idle", "restoring"}
      /\ \A u \in Workers \ {w} : worker'[u] = worker[u]
  BY <1>1, <1>5, FinishingTypes
<1>7. \A u \in Workers : (worker'[u].pc = "running") = (worker[u].pc = "running")
  BY <1>5, <1>6
<1>8. \A u \in Workers : worker'[u].pc = "claimed" =>
        /\ worker'[u].token # NoLease
        /\ worker'[u].token = sched'.token => worker'[u].cursor = conn.cursor
  BY <1>4, <1>6 DEF Ground, Fenced
<1> QED
  BY <1>3, <1>4, <1>6, <1>7, <1>8, GroundFrame DEF finish_claimed_error, remote

LEMMA RestoreGround ==
  ASSUME Ground, restore_disabled
  PROVE  Ground'
<1>1. conn \in Connection /\ sched \in Schedule /\ worker \in [Workers -> WorkerRow]
  BY DEF Ground, Types, StoreTypes, WorkerTypes
<1>2. sched' \in Schedule /\ sched'.token = sched.token
  BY <1>1 DEF restore_disabled, Schedule
<1>3. NoClaim \in WorkerRow /\ NoClaim.pc = "idle"
  BY DEF NoClaim, WorkerRow, Tokens, NoLease
<1>4. worker[SyncNow].pc = "restoring" /\ worker' = [worker EXCEPT ![SyncNow] = NoClaim]
  BY DEF restore_disabled
<1>5. worker' \in [Workers -> WorkerRow] /\ worker'[SyncNow].pc = "idle"
      /\ \A u \in Workers \ {SyncNow} : worker'[u] = worker[u]
  BY <1>1, <1>3, <1>4 DEF Workers
<1>6. \A u \in Workers : (worker'[u].pc = "running") = (worker[u].pc = "running")
  BY <1>4, <1>5
<1>7. \A u \in Workers : worker'[u].pc = "claimed" =>
        /\ worker'[u].token # NoLease
        /\ worker'[u].token = sched'.token => worker'[u].cursor = conn.cursor
  BY <1>2, <1>5 DEF Ground, Fenced
<1> QED
  BY <1>1, <1>2, <1>5, <1>6, <1>7, GroundFrame DEF restore_disabled, remote, Early

LEMMA ExpiryGround ==
  ASSUME Ground, LeaseExpires
  PROVE  Ground'
<1>1. conn \in Connection /\ sched \in Schedule
  BY DEF Ground, Types, StoreTypes
<1>2. sched' \in Schedule /\ sched'.token = sched.token
  BY <1>1 DEF LeaseExpires, Schedule
<1> QED
  BY <1>1, <1>2, CommandGround DEF LeaseExpires, remote, Early

LEMMA CursorsExpireGround ==
  ASSUME Ground, CursorsExpire
  PROVE  Ground'
<1>1. conn \in Connection /\ sched \in Schedule
  BY DEF Ground, Types, StoreTypes
<1> QED
  BY <1>1, CommandGround DEF CursorsExpire, db, Early

-----------------------------------------------------------------------------
(* Types and the fence: the remote tree, and the end of a run *)

LEMMA RemoteGround ==
  ASSUME Ground, NEW n \in Nodes, NEW p \in Places, NEW g \in Generations, RemoteChange(n, p, g)
  PROVE  /\ Ground'
         /\ place' = [place EXCEPT ![n] = p] /\ remoteGen' = [remoteGen EXCEPT ![n] = g]
         /\ log' = Append(log, [node |-> n, place |-> p, gen |-> g])
         /\ UNCHANGED <<conn, stored, inbox, run, uncrawled, orphans, skipped>>
<1>1. /\ place' = [place EXCEPT ![n] = p] /\ remoteGen' = [remoteGen EXCEPT ![n] = g]
      /\ log' = Append(log, [node |-> n, place |-> p, gen |-> g])
      /\ UNCHANGED <<conn, sched, stored, inbox, worker, run, uncrawled, orphans, skipped>>
      /\ conn.status = "CONNECTED"
  BY DEF RemoteChange, db, history
<1>2. [node |-> n, place |-> p, gen |-> g] \in Change
  BY DEF Change
<1>3. log' \in Seq(Change) /\ Len(log') = Len(log) + 1
  BY <1>1, <1>2 DEF Ground, Types, RemoteTypes
<1>4. RemoteTypes'
  <2>1. run.cursor \in Nat /\ conn.cursor \in Nat
    BY DEF Ground, Types, StoreTypes, WorkerTypes, Run, Connection
  <2>2. conn'.cursor <= Len(log') /\ run'.cursor <= Len(log')
    BY <1>1, <1>3, <2>1 DEF Ground, Types, RemoteTypes
  <2>3. place' \in [Nodes -> Places] /\ remoteGen' \in [Nodes -> Generations]
    BY <1>1 DEF Ground, Types, RemoteTypes
  <2> QED
    BY <1>3, <2>2, <2>3 DEF RemoteTypes
<1>5. StoreTypes' /\ WorkerTypes'
  BY <1>1 DEF Ground, Types, StoreTypes, WorkerTypes
<1>6. Fenced'
  BY <1>1 DEF Ground, Fenced, Running
<1> QED
  BY <1>1, <1>4, <1>5, <1>6 DEF Ground, Types

LEMMA PhaseRunning ==
  ASSUME Ground, run.phase # "none"
  PROVE  Running /\ run.by \in Workers
BY NoRunTypes DEF Ground, Fenced, Running, Types, WorkerTypes, Run

LEMMA LeaveGround ==
  ASSUME Ground, NEW w \in Workers, run.by \in {w, Nobody},
         UNCHANGED <<place, remoteGen, log, stored, inbox>>,
         run' = NoRun, worker' = Finishing(w),
         sched' \in Schedule, conn' \in Connection, conn'.cursor \in {conn.cursor, run.cursor},
         sched'.token = NoLease \/ (sched'.token = sched.token /\ conn'.cursor = conn.cursor),
         Early' => Early
  PROVE  Ground' /\ ~Running'
<1>1. worker \in [Workers -> WorkerRow] /\ log \in Seq(Change)
      /\ conn.cursor <= Len(log) /\ run.cursor <= Len(log)
  BY DEF Ground, Types, WorkerTypes, RemoteTypes
<1>2. RemoteTypes'
  BY <1>1, NoRunTypes DEF Ground, Types, RemoteTypes
<1>3. StoreTypes'
  BY DEF Ground, Types, StoreTypes
<1>4. /\ worker' \in [Workers -> WorkerRow]
      /\ worker'[w].pc \in {"idle", "restoring"}
      /\ \A u \in Workers \ {w} : worker'[u] = worker[u]
  BY <1>1, FinishingTypes
<1>5. WorkerTypes'
  <2>1. \A u \in Workers \ {w} : worker[u].pc # "running"
    BY DEF Ground, Types, WorkerTypes, Workers, Background, SyncNow, Nobody
  <2>2. \A u \in Workers : worker'[u].pc # "running" /\ u # Nobody
    BY <1>4, <2>1 DEF Workers, Background, SyncNow, Nobody
  <2> QED
    BY <1>4, <2>2, NoRunTypes DEF WorkerTypes
<1>6. ~Running'
  BY NoRunTypes DEF Running
<1>7. Fenced'
  <2>1. ASSUME NEW u \in Workers, worker'[u].pc = "claimed"
        PROVE  /\ worker'[u].token # NoLease
               /\ worker'[u].token = sched'.token => worker'[u].cursor = conn'.cursor
    BY <1>4, <2>1 DEF Ground, Fenced
  <2>2. Early' => log' = <<>> /\ conn'.cursor = 0
    <3>1. conn'.cursor \in Nat
      BY DEF Connection
    <3> QED
      BY <1>1, <3>1 DEF Ground, Fenced, Early
  <2> QED
    BY <1>6, <2>1, <2>2 DEF Fenced, Early
<1> QED
  BY <1>2, <1>3, <1>5, <1>6, <1>7 DEF Ground, Types

\* A run that fails leaves the lease as it is, or releases it.
LEMMA FailActiveGround ==
  ASSUME Ground, Running, fail_active_sync, UNCHANGED <<place, remoteGen, log, stored, inbox>>
  PROVE  Ground' /\ ~Running' /\ run' = NoRun /\ UNCHANGED <<conn, uncrawled, orphans, skipped>>
<1>1. conn \in Connection /\ sched \in Schedule /\ run.by \in Workers
  BY DEF Ground, Types, StoreTypes, WorkerTypes, Run, Running
<1>2. NoLease \in Tokens
  BY DEF NoLease, Tokens
<1>3. sched' \in Schedule /\ sched'.token \in {sched.token, NoLease}
  <2> DEFINE failed == IF Holds THEN fail_sync(sched) ELSE sched
  <2>1. failed \in Schedule /\ failed.token \in {sched.token, NoLease}
    BY <1>1, <1>2, ScheduleResults, ScheduleTokens
  <2>2. sched' = ensure_claim_finished(run.by, conn, failed)
    BY DEF fail_active_sync
  <2> HIDE DEF failed
  <2> QED
    BY <1>2, <2>1, <2>2, ScheduleResults, ScheduleTokens DEF ensure_claim_finished
<1>4. run' = NoRun /\ worker' = Finishing(run.by) /\ UNCHANGED <<conn, uncrawled, orphans, skipped>>
  BY DEF fail_active_sync, Leave, history
<1> QED
  BY <1>1, <1>3, <1>4, LeaveGround DEF Early

LEMMA CrashGround ==
  ASSUME Ground, Crash
  PROVE  Ground' /\ ~Running'
<1>1. /\ worker' = [w \in Workers |-> NoClaim] /\ run' = NoRun
      /\ UNCHANGED <<place, remoteGen, log, conn, sched, stored, inbox>>
  BY DEF Crash, remote, db
<1>2. NoClaim \in WorkerRow /\ NoClaim.pc = "idle"
  BY DEF NoClaim, WorkerRow, Tokens, NoLease
<1>3. worker' \in [Workers -> WorkerRow] /\ \A w \in Workers : worker'[w].pc = "idle"
  BY <1>1, <1>2
<1>4. RemoteTypes' /\ StoreTypes'
  BY <1>1, NoRunTypes DEF Ground, Types, RemoteTypes, StoreTypes
<1>5. WorkerTypes'
  BY <1>1, <1>3, NoRunTypes DEF WorkerTypes, Workers, Background, SyncNow, Nobody
<1>6. ~Running'
  BY <1>1, NoRunTypes DEF Running
<1>7. Fenced'
  BY <1>1, <1>3, <1>6 DEF Ground, Fenced
<1> QED
  BY <1>4, <1>5, <1>6, <1>7 DEF Ground, Types

-----------------------------------------------------------------------------
(* Types and the fence: the steps of a run *)

LEMMA RunGround ==
  ASSUME Ground, Running, UNCHANGED <<place, remoteGen, log, conn, sched, worker>>,
         stored' \in [Nodes -> NodeRow], inbox' \in [Files -> [Generations -> ItemRow]],
         run' \in Run, run'.by = run.by, run.cursor <= run'.cursor, run'.cursor <= Len(log),
         run'.upserts \subseteq DOMAIN run'.page
  PROVE  Ground'
<1>1. RemoteTypes'
  BY DEF Ground, Types, RemoteTypes
<1>2. StoreTypes' /\ WorkerTypes'
  BY DEF Ground, Types, StoreTypes, WorkerTypes
<1>3. conn.cursor \in Nat /\ run.cursor \in Nat /\ run'.cursor \in Nat
  BY DEF Ground, Types, StoreTypes, WorkerTypes, Connection, Run
<1>4. Fenced'
  BY <1>3 DEF Ground, Fenced, Running
<1> QED
  BY <1>1, <1>2, <1>4 DEF Ground, Types

LEMMA EnterGround ==
  ASSUME Ground, NEW w \in Workers, enter_run(w)
  PROVE  /\ Ground'
         /\ UNCHANGED <<place, remoteGen, log, conn, stored, inbox, uncrawled, orphans, skipped>>
         /\ \/ run' = NoRun
            \/ /\ run'.cursor = conn.cursor /\ run'.phase = (IF conn.scanned THEN "list" ELSE "crawl")
               /\ run'.folders = {Root} /\ run'.removals = {} /\ run'.upserts = {}
<1>0. /\ UNCHANGED <<place, remoteGen, log, conn, sched, stored, inbox, uncrawled, orphans, skipped>>
      /\ ~Running /\ worker[w].pc = "claimed"
  BY DEF enter_run, remote, db, history, mutexFree, Running
<1>1. conn \in Connection /\ sched \in Schedule /\ worker \in [Workers -> WorkerRow]
  BY DEF Ground, Types, StoreTypes, WorkerTypes
<1>2. CASE ~assert_sync_lease_in(conn, sched, worker[w].token)
  <2>1. run' = NoRun /\ worker' = Finishing(w)
    BY <1>2 DEF enter_run, Leave
  <2> QED
    BY <1>0, <1>1, <2>1, LeaveGround DEF Early, Running
<1>3. CASE assert_sync_lease_in(conn, sched, worker[w].token)
  <2>1. worker[w].cursor = conn.cursor /\ worker[w].token \in Tokens
    BY <1>0, <1>1, <1>3 DEF assert_sync_lease_in, Ground, Fenced, WorkerRow
  <2> DEFINE phase == IF conn.scanned THEN "list" ELSE "crawl"
             all == ~conn.scanned
  <2>2. /\ run' = [NoRun EXCEPT
              !.by = w, !.token = worker[w].token, !.full = all,
              !.cursor = worker[w].cursor, !.phase = phase, !.folders = {Root}, !.seen = {Root}]
        /\ worker' = [worker EXCEPT ![w].pc = "running", ![w].cursor = 0]
    BY <1>3 DEF enter_run
  <2>3. phase \in Phases /\ all \in BOOLEAN /\ conn.cursor \in Nat
        /\ {Root} \in SUBSET (Folders \cup {Root})
    BY <1>1 DEF Phases, Connection
  <2>4. run' = [by |-> w, phase |-> phase, token |-> worker[w].token, full |-> all,
                cursor |-> conn.cursor, page |-> <<>>, members |-> {}, removals |-> {},
                upserts |-> {}, expanded |-> FALSE, folders |-> {Root}, seen |-> {Root}]
    <3> HIDE DEF phase, all
    <3> QED
      BY <2>1, <2>2 DEF NoRun
  <2>5. /\ run' \in Run /\ run'.by = w /\ run'.cursor = conn.cursor /\ run'.phase = phase
        /\ run'.folders = {Root} /\ run'.removals = {} /\ run'.upserts = {}
    <3>1. <<>> \in Pages
      BY NoRunTypes DEF NoRun, Run
    <3> HIDE DEF phase, all, Pages
    <3>2. run' \in Run
      BY <2>1, <2>3, <2>4, <3>1 DEF Run
    <3> QED
      BY <2>4, <3>2
  <2>6. worker' \in [Workers -> WorkerRow] /\ worker'[w].pc = "running"
        /\ \A u \in Workers \ {w} : worker'[u] = worker[u]
    <3>1. ASSUME NEW p \in {"running"}, NEW c \in Nat, NEW r \in WorkerRow
          PROVE  [r EXCEPT !.pc = p, !.cursor = c] \in WorkerRow /\ [r EXCEPT !.pc = p, !.cursor = c].pc = p
      BY DEF WorkerRow
    <3>2. worker'[w] = [worker[w] EXCEPT !.pc = "running", !.cursor = 0]
          /\ worker' = [worker EXCEPT ![w] = [worker[w] EXCEPT !.pc = "running", !.cursor = 0]]
      BY <1>1, <2>2
    <3>3. worker'[w] \in WorkerRow /\ worker'[w].pc = "running"
      BY <1>1, <3>1, <3>2
    <3> QED
      BY <1>1, <3>2, <3>3
  <2>7. RemoteTypes' /\ StoreTypes'
    BY <1>0, <2>5 DEF Ground, Types, RemoteTypes, StoreTypes
  <2>8. WorkerTypes'
    <3>1. \A u \in Workers : worker[u].pc # "running"
      BY <1>0 DEF Ground, Types, WorkerTypes, Running, Workers, Background, SyncNow, Nobody
    <3>2. \A u \in Workers : (worker'[u].pc = "running") = (u = w)
      BY <2>6, <3>1
    <3> QED
      BY <2>5, <2>6, <3>2 DEF WorkerTypes
  <2>9. Fenced'
    <3>1. w # Nobody
      BY DEF Workers, Background, SyncNow, Nobody
    <3>2. \A u \in Workers : worker'[u].pc = "claimed" => worker'[u] = worker[u]
      BY <2>6
    <3>3. conn.cursor \in Nat
      BY <1>1 DEF Connection
    <3> QED
      BY <1>0, <2>5, <3>1, <3>2, <3>3 DEF Ground, Fenced, Running
  <2> QED
    BY <1>0, <2>5, <2>7, <2>8, <2>9 DEF Ground, Types
<1> QED
  BY <1>2, <1>3

LEMMA CrawlStep ==
  ASSUME Ground, persist_crawl_page
  PROVE  /\ Ground'
         /\ UNCHANGED <<place, remoteGen, log, conn, skipped>>
         /\ run.phase = "crawl" /\ Running /\ run'.cursor = run.cursor
         /\ run'.removals = run.removals /\ run'.upserts = run.upserts
         /\ \E d \in run.folders :
              LET children == {n \in Nodes : place[n] = d} IN
              /\ \A n \in children : stored'[n] = node(d, remoteGen[n], TRUE)
              /\ \A n \in Nodes \ children : stored'[n] = stored[n]
              /\ \A f \in Files \cap children :
                   inbox'[f][remoteGen[f]].state \notin {"ABSENT", "REMOVED"}
              /\ \A f \in Files \ children : inbox'[f] = inbox[f]
              /\ uncrawled' = StillUncrawled({d})
              /\ orphans' = orphans \ children
              /\ run'.phase = "crawl" => run'.folders \subseteq (run.folders \ {d}) \cup (children \cap Folders)
              /\ run'.phase = "list" => run.folders = {d}
              /\ run'.phase = "crawl" /\ Root \notin run'.folders => d = Root \/ Root \notin run.folders
              /\ run'.phase \in {"crawl", "list"}
<1>0. /\ UNCHANGED <<place, remoteGen, log, conn, sched, worker, skipped>>
      /\ run.phase = "crawl" /\ Running
  BY PhaseRunning DEF persist_crawl_page, remote, persist
<1>1. PICK d \in run.folders :
       LET children == {n \in Nodes : place[n] = d}
           found == (children \cap Folders) \ run.seen
       IN /\ persist([n \in children |-> node(d, remoteGen[n], TRUE)])
          /\ run' = IF run.folders = {d} /\ found = {}
                    THEN [run EXCEPT !.phase = "list", !.folders = {}, !.seen = {}]
                    ELSE [run EXCEPT !.folders = (@ \ {d}) \cup found, !.seen = @ \cup found]
          /\ uncrawled' = StillUncrawled({d})
          /\ orphans' = orphans \ children
  BY DEF persist_crawl_page
<1> DEFINE children == {n \in Nodes : place[n] = d}
           found == (children \cap Folders) \ run.seen
           new == [n \in children |-> node(d, remoteGen[n], TRUE)]
<1>2. run \in Run /\ StoreTypes /\ remoteGen \in [Nodes -> Generations]
  BY DEF Ground, Types, WorkerTypes, RemoteTypes
<1>3. d \in Places
  BY <1>2 DEF Run, Places
<1>4. \A n \in children : node(d, remoteGen[n], TRUE) \in NodeRow
  BY <1>2, <1>3 DEF node, NodeRow
<1>5. new \in [children -> NodeRow] /\ children \in SUBSET Nodes
      /\ \A n \in children : new[n] = node(d, remoteGen[n], TRUE) /\ new[n].tree /\ new[n].gen = remoteGen[n]
  BY <1>4 DEF node
<1>6. stored' = discover_stored(stored, new) /\ inbox' = discover_inbox(inbox, stored, new)
  BY <1>1 DEF persist
<1> HIDE DEF new, children
<1>7. /\ stored' \in [Nodes -> NodeRow] /\ inbox' \in [Files -> [Generations -> ItemRow]]
      /\ \A n \in Nodes : stored'[n] = IF n \in children THEN new[n] ELSE stored[n]
      /\ \A f \in Files \ children : inbox'[f] = inbox[f]
      /\ \A f \in Files \cap children : new[f].tree => inbox'[f][new[f].gen].state \notin {"ABSENT", "REMOVED"}
  BY <1>2, <1>5, <1>6, DiscoverResults
<1>8. /\ run' \in Run /\ run'.by = run.by /\ run'.cursor = run.cursor
      /\ run'.removals = run.removals /\ run'.upserts = run.upserts /\ run'.page = run.page
      /\ run'.phase = "crawl" => run'.folders = (run.folders \ {d}) \cup found
      /\ run'.phase = "list" => run.folders = {d}
      /\ run'.phase \in {"crawl", "list"}
  <2>1. CASE run.folders = {d} /\ found = {}
    <3>1. run' = [run EXCEPT !.phase = "list", !.folders = {}, !.seen = {}]
      BY <1>1, <2>1 DEF children
    <3> HIDE DEF Pages, found
    <3> QED
      BY <1>2, <2>1, <3>1 DEF Run, Phases
  <2>2. CASE ~(run.folders = {d} /\ found = {})
    <3>1. run' = [run EXCEPT !.folders = (@ \ {d}) \cup found, !.seen = @ \cup found]
      BY <1>1, <2>2 DEF children
    <3>2. found \in SUBSET Folders
      OBVIOUS
    <3> HIDE DEF Pages, found
    <3> QED
      BY <1>0, <1>2, <3>1, <3>2 DEF Run, Phases
  <2> QED
    BY <2>1, <2>2
<1>9. Ground'
  <2>1. run'.upserts \subseteq DOMAIN run'.page /\ run.cursor \in Nat /\ run.cursor <= Len(log)
    BY <1>2, <1>8 DEF Ground, Types, WorkerTypes, RemoteTypes, Run
  <2> QED
    BY <1>0, <1>7, <1>8, <2>1, RunGround
<1>10. /\ \A n \in children : stored'[n] = node(d, remoteGen[n], TRUE)
       /\ \A n \in Nodes \ children : stored'[n] = stored[n]
       /\ \A f \in Files \cap children :
            inbox'[f][remoteGen[f]].state \notin {"ABSENT", "REMOVED"}
       /\ \A f \in Files \ children : inbox'[f] = inbox[f]
  BY <1>5, <1>7
<1>11. run'.phase = "crawl" => run'.folders \subseteq (run.folders \ {d}) \cup (children \cap Folders)
  BY <1>8
<1>12. run'.phase = "crawl" /\ Root \notin run'.folders => d = Root \/ Root \notin run.folders
  BY <1>8
<1> QED
  BY <1>0, <1>1, <1>8, <1>9, <1>10, <1>11, <1>12 DEF children

\* What a page says of a node: what the node is now, or what it was after the
\* last of the page's changes that names it.
LEMMA PageStates ==
  ASSUME RemoteTypes, NEW from \in Nat \ {0}, NEW to \in Nat, to <= Len(log),
         NEW current \in BOOLEAN, NEW page, page = LastStates(from, to, current)
  PROVE  /\ \A n : n \in DOMAIN page <=> \E i \in from..to : log[i].node = n
         /\ DOMAIN page \subseteq Nodes
         /\ page \in Pages
         /\ \A n \in DOMAIN page : page[n] \in PageState /\
              \E i \in from..to : /\ log[i].node = n /\ \A j \in (i + 1)..to : log[j].node # n
                                  /\ \/ page[n] = [place |-> place[n], gen |-> remoteGen[n]]
                                     \/ page[n] = [place |-> log[i].place, gen |-> log[i].gen]
<1> DEFINE ids == {log[i].node : i \in from..to}
           last(n) == CHOOSE i \in from..to : log[i].node = n /\ \A j \in (i + 1)..to : log[j].node # n
<1>1. \A i \in from..to : i \in 1..Len(log) /\ log[i] \in Change
  BY DEF RemoteTypes
<1>2. ids \subseteq Nodes
  BY <1>1 DEF Change
<1>3. page = [n \in ids |-> IF current THEN [place |-> place[n], gen |-> remoteGen[n]]
                            ELSE [place |-> log[last(n)].place, gen |-> log[last(n)].gen]]
  BY DEF LastStates
<1>4. ASSUME NEW n \in ids
      PROVE  /\ last(n) \in from..to /\ log[last(n)].node = n
             /\ \A j \in (last(n) + 1)..to : log[j].node # n
  <2> DEFINE S == {i \in from..to : log[i].node = n}
  <2>1. S # {} /\ S \in SUBSET (0..to)
    OBVIOUS
  <2>2. PICK i \in S : \A j \in S : j <= i
    <3> HIDE DEF S
    <3> QED
      BY <2>1, GreatestNumber
  <2>3. i \in from..to /\ log[i].node = n /\ \A j \in (i + 1)..to : log[j].node # n
    <3>1. \A j \in (i + 1)..to : j \in from..to /\ ~(j <= i)
      BY <2>2
    <3> QED
      BY <2>2, <3>1
  <2> QED
    BY <2>3, Zenon
<1>5. ASSUME NEW n \in ids
      PROVE  /\ page[n] \in PageState
             /\ \E i \in from..to : /\ log[i].node = n /\ \A j \in (i + 1)..to : log[j].node # n
                                    /\ \/ page[n] = [place |-> place[n], gen |-> remoteGen[n]]
                                       \/ page[n] = [place |-> log[i].place, gen |-> log[i].gen]
  <2>1. page[n] = IF current THEN [place |-> place[n], gen |-> remoteGen[n]]
                  ELSE [place |-> log[last(n)].place, gen |-> log[last(n)].gen]
    BY <1>3
  <2>2. last(n) \in from..to /\ log[last(n)].node = n /\ \A j \in (last(n) + 1)..to : log[j].node # n
    BY <1>4
  <2> HIDE DEF last
  <2>3. place[n] \in Places /\ remoteGen[n] \in Generations
    BY <1>2 DEF RemoteTypes
  <2>4. log[last(n)].place \in Places /\ log[last(n)].gen \in Generations
    BY <1>1, <2>2 DEF Change
  <2>5. page[n] \in PageState
    BY <2>1, <2>3, <2>4 DEF PageState
  <2> QED
    BY <2>1, <2>2, <2>5
<1>6. DOMAIN page = ids
  BY <1>3
<1> HIDE DEF ids
<1>7. page \in Pages
  <2>1. page = [n \in ids |-> page[n]]
    BY <1>3
  <2>2. page \in [ids -> PageState]
    BY <1>5, <2>1
  <2> QED
    BY <1>2, <2>2, Zenon DEF Pages
<1>8. \A n : n \in DOMAIN page <=> \E i \in from..to : log[i].node = n
  BY <1>6 DEF ids
<1>9. DOMAIN page \subseteq Nodes
  BY <1>2, <1>6
<1> QED
  BY <1>5, <1>6, <1>7, <1>8, <1>9, Zenon

LEMMA ListStep ==
  ASSUME Ground, list_changes
  PROVE  /\ Ground'
         /\ UNCHANGED <<place, remoteGen, log, conn, stored, inbox, uncrawled, orphans, skipped>>
         /\ run.phase = "list" /\ Running
         /\ \E to \in run.cursor..Len(log), current \in BOOLEAN :
              LET page == PageOf(to, current)
                  inside == membership(page)
              IN /\ run'.cursor = to /\ run'.page = page /\ run'.members = inside
                 /\ run'.removals = {n \in DOMAIN page :
                                       page[n].place = Gone \/ (n \in Folders /\ n \notin inside)}
                 /\ run'.upserts = {n \in DOMAIN page : page[n].place # Gone}
                 /\ run'.phase = "remove"
<1>0. /\ UNCHANGED <<place, remoteGen, log, conn, sched, worker, stored, inbox, uncrawled, orphans, skipped>>
      /\ run.phase = "list" /\ Running
  BY PhaseRunning DEF list_changes, remote, db, history
<1>1. PICK to \in run.cursor..Len(log), current \in BOOLEAN :
       LET page == PageOf(to, current)
           inside == membership(page)
       IN run' = [run EXCEPT
               !.cursor = to, !.page = page, !.members = inside,
               !.removals = {n \in DOMAIN page :
                               page[n].place = Gone \/ (n \in Folders /\ n \notin inside)},
               !.upserts = {n \in DOMAIN page : page[n].place # Gone},
               !.phase = "remove"]
  BY DEF list_changes
<1> DEFINE page == PageOf(to, current)
           inside == membership(page)
           removals == {n \in DOMAIN page : page[n].place = Gone \/ (n \in Folders /\ n \notin inside)}
           upserts == {n \in DOMAIN page : page[n].place # Gone}
<1>2. run \in Run /\ RemoteTypes /\ StoreTypes
  BY DEF Ground, Types, WorkerTypes
<1>3. run.cursor \in Nat /\ to \in Nat /\ run.cursor <= to /\ to <= Len(log) /\ Len(log) \in Nat
  <2>1. Len(log) \in Nat /\ run.cursor \in Nat
    BY <1>2 DEF RemoteTypes, Run
  <2> QED
    BY <2>1
<1>4. page \in Pages /\ DOMAIN page \subseteq Nodes
  <2>1. run.cursor + 1 \in Nat \ {0}
    BY <1>3
  <2> QED
    BY <1>2, <1>3, <2>1, PageStates DEF PageOf
<1>5. inside \subseteq DOMAIN page
  BY DEF membership
<1> HIDE DEF page, inside
<1>6. removals \subseteq Nodes /\ upserts \subseteq DOMAIN page /\ upserts \subseteq Nodes /\ inside \subseteq Nodes
  BY <1>4, <1>5
<1>7. run' = [run EXCEPT !.cursor = to, !.page = page, !.members = inside,
                         !.removals = removals, !.upserts = upserts, !.phase = "remove"]
  BY <1>1, Zenon DEF page, inside
<1> HIDE DEF removals, upserts, Pages
<1>8. /\ run'.cursor = to /\ run'.page = page /\ run'.members = inside
      /\ run'.removals = removals /\ run'.upserts = upserts
      /\ run'.phase = "remove" /\ run'.by = run.by
  BY <1>2, <1>7 DEF Run
<1>9. run' \in Run
  BY <1>2, <1>3, <1>4, <1>6, <1>7 DEF Run, Phases
<1>10. Ground'
  <2>1. stored' \in [Nodes -> NodeRow] /\ inbox' \in [Files -> [Generations -> ItemRow]]
    BY <1>0, <1>2 DEF StoreTypes
  <2> QED
    BY <1>0, <1>3, <1>6, <1>8, <1>9, <2>1, RunGround
<1>11. LET p == PageOf(to, current)
           i == membership(p)
       IN /\ run'.cursor = to /\ run'.page = p /\ run'.members = i
          /\ run'.removals = {n \in DOMAIN p : p[n].place = Gone \/ (n \in Folders /\ n \notin i)}
          /\ run'.upserts = {n \in DOMAIN p : p[n].place # Gone}
          /\ run'.phase = "remove"
  BY <1>8, Zenon DEF page, inside, removals, upserts
<1> QED
  BY <1>0, <1>10, <1>11, Zenon

LEMMA RemovalStep ==
  ASSUME Ground, persist_removal
  PROVE  /\ Ground'
         /\ UNCHANGED <<place, remoteGen, log, conn, skipped>>
         /\ run.phase = "remove" /\ Running /\ run'.cursor = run.cursor
         /\ run'.page = run.page /\ run'.upserts = run.upserts /\ run'.members = run.members
         /\ \/ /\ run.removals = {} /\ run'.removals = {} /\ run'.phase = "upsert"
               /\ UNCHANGED <<stored, inbox, uncrawled, orphans>>
            \/ /\ run'.phase = "remove"
               /\ \E n \in run.removals :
                    /\ \A m \in stored_subtree(n) : stored'[m] = [stored[m] EXCEPT !.tree = FALSE]
                    /\ \A m \in Nodes \ stored_subtree(n) : stored'[m] = stored[m]
                    /\ \A f \in Files \cap stored_subtree(n) :
                         \A g \in Generations : inbox'[f][g].state \notin Open
                    /\ \A f \in Files \ stored_subtree(n) : inbox'[f] = inbox[f]
                    /\ run'.removals = run.removals \ {n}
                    /\ uncrawled' = StillUncrawled({})
                    /\ orphans' = orphans \ stored_subtree(n)
<1>0. /\ UNCHANGED <<place, remoteGen, log, conn, sched, worker>>
      /\ run.phase = "remove" /\ Running
  BY PhaseRunning DEF persist_removal, remote
<1>1. run \in Run /\ StoreTypes /\ run.upserts \subseteq DOMAIN run.page
      /\ run.cursor <= Len(log) /\ run.cursor \in Nat
  BY DEF Ground, Types, WorkerTypes, RemoteTypes, Run
<1>2. CASE run.removals = {}
  <2>1. run' = [run EXCEPT !.phase = "upsert"] /\ UNCHANGED <<stored, inbox, uncrawled, orphans, skipped>>
    BY <1>2 DEF persist_removal, history
  <2>2. /\ run' \in Run /\ run'.by = run.by /\ run'.cursor = run.cursor /\ run'.phase = "upsert"
        /\ run'.page = run.page /\ run'.upserts = run.upserts /\ run'.members = run.members
        /\ run'.removals = {}
    <3> HIDE DEF Pages
    <3> QED
      BY <1>1, <1>2, <2>1 DEF Run, Phases
  <2>3. Ground'
    <3>1. stored' \in [Nodes -> NodeRow] /\ inbox' \in [Files -> [Generations -> ItemRow]]
      BY <1>1, <2>1 DEF StoreTypes
    <3> QED
      BY <1>0, <1>1, <2>2, <3>1, RunGround
  <2> QED
    BY <1>0, <1>2, <2>1, <2>2, <2>3
<1>3. CASE run.removals # {}
  <2>1. PICK n \in run.removals :
          /\ persist([m \in stored_subtree(n) |-> [stored[m] EXCEPT !.tree = FALSE]])
          /\ run' = [run EXCEPT !.removals = @ \ {n}]
          /\ uncrawled' = StillUncrawled({})
          /\ orphans' = orphans \ stored_subtree(n)
    BY <1>3 DEF persist_removal
  <2> DEFINE sub == stored_subtree(n)
             new == [m \in sub |-> [stored[m] EXCEPT !.tree = FALSE]]
  <2>2. n \in Nodes
    BY <1>1 DEF Run
  <2>3. sub \in SUBSET Nodes
    BY <2>2 DEF stored_subtree, Below
  <2> HIDE DEF sub
  <2>4. \A m \in sub : [stored[m] EXCEPT !.tree = FALSE] \in NodeRow /\ [stored[m] EXCEPT !.tree = FALSE].tree = FALSE
    BY <1>1, <2>3 DEF StoreTypes, NodeRow
  <2>5. new \in [sub -> NodeRow] /\ \A m \in sub : new[m] = [stored[m] EXCEPT !.tree = FALSE] /\ ~new[m].tree
    BY <2>4
  <2>6. stored' = discover_stored(stored, new) /\ inbox' = discover_inbox(inbox, stored, new) /\ skipped' = skipped
    BY <2>1 DEF persist, sub
  <2> HIDE DEF new
  <2>7. /\ stored' \in [Nodes -> NodeRow] /\ inbox' \in [Files -> [Generations -> ItemRow]]
        /\ \A m \in Nodes : stored'[m] = IF m \in sub THEN new[m] ELSE stored[m]
        /\ \A f \in Files \ sub : inbox'[f] = inbox[f]
        /\ \A f \in Files \cap sub : ~new[f].tree => \A g \in Generations : inbox'[f][g].state \notin Open
    BY <1>1, <2>3, <2>5, <2>6, DiscoverResults
  <2>8. /\ run' \in Run /\ run'.by = run.by /\ run'.cursor = run.cursor /\ run'.phase = "remove"
        /\ run'.page = run.page /\ run'.upserts = run.upserts /\ run'.members = run.members
        /\ run'.removals = run.removals \ {n}
    <3> HIDE DEF Pages
    <3> QED
      BY <1>0, <1>1, <2>1 DEF Run
  <2>9. Ground'
    BY <1>0, <1>1, <2>7, <2>8, RunGround
  <2>10. /\ \A m \in sub : stored'[m] = [stored[m] EXCEPT !.tree = FALSE]
         /\ \A m \in Nodes \ sub : stored'[m] = stored[m]
         /\ \A f \in Files \cap sub : \A g \in Generations : inbox'[f][g].state \notin Open
    BY <2>3, <2>5, <2>7
  <2> QED
    BY <1>0, <2>1, <2>6, <2>7, <2>8, <2>9, <2>10 DEF sub
<1> QED
  BY <1>2, <1>3

LEMMA UpsertStep ==
  ASSUME Ground, persist_upsert
  PROVE  /\ Ground'
         /\ UNCHANGED <<place, remoteGen, log, conn, skipped>>
         /\ run.phase = "upsert" /\ run'.phase = "upsert" /\ Running /\ run'.cursor = run.cursor
         /\ run'.removals = run.removals
         /\ \E n \in run.upserts :
              /\ stored'[n] = node(run.page[n].place, run.page[n].gen, n \in run.members)
              /\ \A m \in Nodes \ {n} : stored'[m] = stored[m]
              /\ n \in Files /\ n \notin run.members =>
                   \A g \in Generations : inbox'[n][g].state \notin Open
              /\ n \in Files /\ n \in run.members =>
                   inbox'[n][run.page[n].gen].state \notin {"ABSENT", "REMOVED"}
              /\ \A f \in Files \ {n} : inbox'[f] = inbox[f]
              /\ run'.upserts = run.upserts \ {n}
              /\ \A m \in run'.upserts : run'.page[m] = run.page[m]
              /\ run'.upserts # {} => run'.members = run.members
              /\ uncrawled' = StillUncrawled({})
              /\ orphans' = IF orphaned(n) THEN orphans \cup {n} ELSE orphans \ {n}
<1>0. /\ UNCHANGED <<place, remoteGen, log, conn, sched, worker, skipped>>
      /\ run.phase = "upsert" /\ Running
  BY PhaseRunning DEF persist_upsert, remote, persist
<1>1. run \in Run /\ StoreTypes /\ run.upserts \subseteq DOMAIN run.page
      /\ run.cursor <= Len(log) /\ run.cursor \in Nat
  BY DEF Ground, Types, WorkerTypes, RemoteTypes, Run
<1>2. PICK n \in run.upserts :
        /\ persist([m \in {n} |-> node(run.page[n].place, run.page[n].gen, n \in run.members)])
        /\ LET left == run.upserts \ {n} IN
           run' = [run EXCEPT !.upserts = left, !.expanded = @ \/ expands(n),
                              !.page = Restrict(@, left),
                              !.members = IF left = {} THEN {} ELSE @]
        /\ uncrawled' = StillUncrawled({})
        /\ orphans' = IF orphaned(n) THEN orphans \cup {n} ELSE orphans \ {n}
  BY DEF persist_upsert
<1> DEFINE in == n \in run.members
           row == node(run.page[n].place, run.page[n].gen, in)
           one == {n}
           new == [m \in one |-> row]
           left == run.upserts \ {n}
           expanded == run.expanded \/ expands(n)
           page == Restrict(run.page, left)
           members == IF left = {} THEN {} ELSE run.members
<1>3. n \in Nodes /\ left \subseteq Nodes /\ left \subseteq DOMAIN run.page
  BY <1>1 DEF Run
<1>4. PICK S \in SUBSET Nodes : run.page \in [S -> PageState]
  BY <1>1 DEF Run, Pages
<1>5. run.page[n] \in PageState
  BY <1>1, <1>4
<1>6. in \in BOOLEAN
  OBVIOUS
<1> HIDE DEF in
<1>7. row \in NodeRow /\ row.gen = run.page[n].gen /\ row.tree = in
  BY <1>5, <1>6 DEF node, NodeRow, PageState
<1> HIDE DEF row
<1>8. new \in [one -> NodeRow] /\ new[n] = row /\ one \in SUBSET Nodes /\ n \in one
  BY <1>3, <1>7
<1>9. stored' = discover_stored(stored, new) /\ inbox' = discover_inbox(inbox, stored, new)
  BY <1>2 DEF persist, row, in
<1> HIDE DEF new, one
<1>10. /\ stored' \in [Nodes -> NodeRow] /\ inbox' \in [Files -> [Generations -> ItemRow]]
       /\ \A m \in Nodes : stored'[m] = IF m \in one THEN new[m] ELSE stored[m]
       /\ \A f \in Files \ one : inbox'[f] = inbox[f]
       /\ \A f \in Files \cap one : ~new[f].tree => \A g \in Generations : inbox'[f][g].state \notin Open
       /\ \A f \in Files \cap one : new[f].tree => inbox'[f][new[f].gen].state \notin {"ABSENT", "REMOVED"}
  <2>1. StoreTypes /\ one \in SUBSET Nodes /\ new \in [one -> NodeRow]
    BY <1>1, <1>8
  <2> QED
    BY <1>9, <2>1, DiscoverResults, ZenonT(60)
<1>11. /\ page \in Pages /\ DOMAIN page = left /\ \A m \in left : page[m] = run.page[m]
  <2>1. page = [m \in left |-> run.page[m]]
    BY DEF Restrict
  <2>2. page \in [left -> PageState]
    BY <1>3, <1>4, <2>1
  <2> QED
    BY <1>3, <2>1, <2>2, Zenon DEF Pages
<1>12. members \in SUBSET Nodes /\ (left # {} => members = run.members)
  BY <1>1 DEF Run
<1>13. expanded \in BOOLEAN
  OBVIOUS
<1>14. run' = [run EXCEPT !.upserts = left, !.expanded = expanded, !.page = page, !.members = members]
  BY <1>1, <1>2 DEF Run
<1> HIDE DEF left, expanded, page, members, Pages
<1>15. /\ run' \in Run /\ run'.by = run.by /\ run'.cursor = run.cursor /\ run'.phase = "upsert"
       /\ run'.removals = run.removals /\ run'.upserts = left /\ run'.page = page
       /\ run'.members = members
  <2>1. left \in SUBSET Nodes
    BY <1>3
  <2> QED
    BY <1>0, <1>1, <1>11, <1>12, <1>13, <1>14, <2>1 DEF Run
<1>16. Ground'
  BY <1>0, <1>1, <1>10, <1>11, <1>15, RunGround
<1>17. /\ stored'[n] = node(run.page[n].place, run.page[n].gen, n \in run.members)
       /\ \A m \in Nodes \ {n} : stored'[m] = stored[m]
       /\ n \in Files /\ n \notin run.members => \A g \in Generations : inbox'[n][g].state \notin Open
       /\ n \in Files /\ n \in run.members => inbox'[n][run.page[n].gen].state \notin {"ABSENT", "REMOVED"}
  <2>1. stored'[n] = row
    BY <1>3, <1>8, <1>10 DEF one
  <2>2. n \in Files /\ ~in => \A g \in Generations : inbox'[n][g].state \notin Open
    BY <1>7, <1>8, <1>10
  <2>3. n \in Files /\ in => inbox'[n][run.page[n].gen].state \notin {"ABSENT", "REMOVED"}
    BY <1>7, <1>8, <1>10
  <2> QED
    BY <1>10, <2>1, <2>2, <2>3 DEF row, in, one
<1>18. /\ run'.upserts = run.upserts \ {n}
       /\ \A m \in run'.upserts : run'.page[m] = run.page[m]
       /\ run'.upserts # {} => run'.members = run.members
  BY <1>11, <1>12, <1>15 DEF left
<1> QED
  BY <1>0, <1>2, <1>10, <1>15, <1>16, <1>17, <1>18 DEF one

LEMMA NextPageStep ==
  ASSUME Ground, next_page
  PROVE  /\ Ground'
         /\ UNCHANGED <<place, remoteGen, log, conn, stored, inbox, uncrawled, orphans, skipped>>
         /\ run.phase = "upsert" /\ run.upserts = {} /\ Running /\ run'.cursor = run.cursor
         /\ run'.phase = "list" /\ run'.removals = run.removals /\ run'.upserts = run.upserts
<1>0. /\ UNCHANGED <<place, remoteGen, log, conn, sched, worker, stored, inbox, uncrawled, orphans, skipped>>
      /\ run.phase = "upsert" /\ run.upserts = {} /\ Running /\ run' = [run EXCEPT !.phase = "list"]
  BY PhaseRunning DEF next_page, PageDone, remote, db, history
<1>1. run \in Run /\ StoreTypes /\ run.cursor <= Len(log) /\ run.cursor \in Nat
  BY DEF Ground, Types, WorkerTypes, RemoteTypes, Run
<1>2. /\ run' \in Run /\ run'.by = run.by /\ run'.cursor = run.cursor /\ run'.phase = "list"
      /\ run'.removals = run.removals /\ run'.upserts = run.upserts
  <2> HIDE DEF Pages
  <2> QED
    BY <1>0, <1>1 DEF Run, Phases
<1>3. stored' \in [Nodes -> NodeRow] /\ inbox' \in [Files -> [Generations -> ItemRow]]
  BY <1>0, <1>1 DEF StoreTypes
<1> QED
  BY <1>0, <1>1, <1>2, <1>3, RunGround

LEMMA CompleteStep ==
  ASSUME Ground, complete_run
  PROVE  /\ Ground' /\ run' = NoRun
         /\ UNCHANGED <<place, remoteGen, log, stored, inbox, uncrawled, orphans, skipped>>
         /\ run.phase = "upsert" /\ run.upserts = {} /\ Running
         /\ conn' = conn \/ conn'.cursor = run.cursor
<1>0. /\ UNCHANGED <<place, remoteGen, log, stored, inbox>>
      /\ run.phase = "upsert" /\ run.upserts = {} /\ Running /\ run.by \in Workers
  BY PhaseRunning DEF complete_run, PageDone, remote
<1>1. conn \in Connection /\ sched \in Schedule /\ run.cursor \in Nat /\ run \in Run
  BY DEF Ground, Types, StoreTypes, WorkerTypes, Run
<1>2. CASE Holds /\ ~run.expanded
  <2>1. /\ conn' = complete_cursor(conn, run.cursor, run.full)
        /\ sched' = complete_schedule(sched) /\ run' = NoRun /\ worker' = Finishing(run.by)
        /\ UNCHANGED <<uncrawled, orphans, skipped>>
    BY <1>2 DEF complete_run, Leave, history
  <2>2. conn' \in Connection /\ conn'.cursor = run.cursor /\ conn'.status = conn.status
    <3> DEFINE scanned == conn.scanned \/ run.full
    <3>1. scanned \in BOOLEAN
      OBVIOUS
    <3>2. conn' = [conn EXCEPT !.cursor = run.cursor, !.scanned = scanned]
      BY <1>1, <2>1 DEF complete_cursor, Connection
    <3> HIDE DEF scanned
    <3> QED
      BY <1>1, <3>1, <3>2 DEF Connection
  <2>3. sched' \in Schedule /\ sched'.token = NoLease
    <3>1. NoLease \in Tokens
      BY DEF NoLease, Tokens
    <3> QED
      BY <1>1, <2>1, <3>1, ScheduleResults, ScheduleTokens
  <2> QED
    BY <1>0, <2>1, <2>2, <2>3, LeaveGround DEF Early
<1>3. CASE ~(Holds /\ ~run.expanded)
  <2>1. fail_active_sync
    BY <1>3 DEF complete_run
  <2> QED
    BY <1>0, <2>1, FailActiveGround
<1> QED
  BY <1>2, <1>3

\* The fallback to a full crawl: the run begins again at the end of the log, or
\* ends.
LEMMA ReconcileStep ==
  ASSUME Ground, require_full_reconciliation
  PROVE  /\ Ground'
         /\ UNCHANGED <<place, remoteGen, log, stored, inbox>>
         /\ conn'.cursor = conn.cursor /\ (conn'.scanned => conn.scanned)
         /\ \/ run' = NoRun /\ UNCHANGED <<uncrawled, orphans, skipped>>
            \/ /\ run'.cursor = Len(log) /\ run'.phase = "crawl"
               /\ run'.folders = {Root} /\ run'.removals = {} /\ run'.upserts = {}
               /\ orphans' = orphans /\ skipped' = (skipped \/ conn.cursor < Len(log))
               /\ uncrawled' = IF conn.cursor < Len(log) THEN {d \in Folders : stored[d].tree} ELSE uncrawled
<1>0. UNCHANGED <<place, remoteGen, log, stored, inbox>> /\ Running /\ run.by \in Workers
  BY PhaseRunning DEF require_full_reconciliation, PageDone, remote
<1>1. /\ conn \in Connection /\ sched \in Schedule /\ worker \in [Workers -> WorkerRow] /\ run \in Run
      /\ StoreTypes /\ log \in Seq(Change) /\ run.cursor <= Len(log) /\ run.cursor \in Nat
      /\ conn.cursor <= Len(log) /\ conn.cursor \in Nat /\ Len(log) \in Nat
  BY DEF Ground, Types, StoreTypes, WorkerTypes, RemoteTypes, Run, Connection
<1>2. FreshToken \in Tokens /\ FreshToken # NoLease /\ FreshToken # sched.token
      /\ \A w \in Workers : worker[w].token # FreshToken
  BY <1>1, Freshness
<1>3. NoLease \in Tokens
  BY DEF NoLease, Tokens
<1>4. CASE ~Holds
  <2>1. fail_active_sync
    BY <1>4 DEF require_full_reconciliation
  <2> QED
    BY <1>0, <2>1, FailActiveGround
<1>5. CASE Holds
  <2> DEFINE c == full_scan_required(conn)
             s == claim_due_sync(c, full_scan_released(sched), FreshToken)
  <2>1. /\ conn' = c /\ sched' = s /\ orphans' = orphans
        /\ IF s.token = FreshToken
           THEN /\ run' = [NoRun EXCEPT
                             !.by = run.by, !.token = FreshToken, !.full = TRUE,
                             !.cursor = Len(log), !.phase = "crawl",
                             !.folders = {Root}, !.seen = {Root}]
                /\ skipped' = (skipped \/ conn.cursor < Len(log))
                /\ uncrawled' = IF conn.cursor < Len(log)
                                THEN {d \in Folders : stored[d].tree} ELSE uncrawled
                /\ worker' = worker
           ELSE Leave(run.by) /\ UNCHANGED <<uncrawled, skipped>>
    BY <1>5 DEF require_full_reconciliation
  <2>2. /\ c \in Connection /\ c.cursor = conn.cursor /\ c.scanned = FALSE /\ c.status = conn.status
    BY <1>1, ConnectionResults
  <2>3. s \in Schedule /\ s.token \in {NoLease, FreshToken}
    <3>1. full_scan_released(sched) \in Schedule /\ full_scan_released(sched).token = NoLease
      BY <1>1, <1>3, ScheduleResults, ScheduleTokens
    <3>2. ASSUME NEW r \in Schedule
          PROVE  claim_due_sync(c, r, FreshToken) \in Schedule
                 /\ claim_due_sync(c, r, FreshToken).token \in {r.token, NoLease, FreshToken}
      BY <1>2, ScheduleResults, ScheduleTokens
    <3> QED
      BY <3>1, <3>2
  <2> HIDE DEF c, s
  <2>4. CASE s.token # FreshToken
    <3>1. run' = NoRun /\ worker' = Finishing(run.by) /\ UNCHANGED <<uncrawled, orphans, skipped>>
      BY <2>1, <2>4 DEF Leave
    <3>2. Ground'
      BY <1>0, <2>1, <2>2, <2>3, <2>4, <3>1, LeaveGround DEF Early
    <3> QED
      BY <1>0, <2>1, <2>2, <3>1, <3>2
  <2>5. CASE s.token = FreshToken
    <3>1. run' = [by |-> run.by, phase |-> "crawl", token |-> FreshToken, full |-> TRUE,
                  cursor |-> Len(log), page |-> <<>>, members |-> {}, removals |-> {},
                  upserts |-> {}, expanded |-> FALSE, folders |-> {Root}, seen |-> {Root}]
      BY <2>1, <2>5 DEF NoRun
    <3>2. run' \in Run
      <4>1. <<>> \in Pages
        BY NoRunTypes DEF NoRun, Run
      <4> HIDE DEF Pages
      <4> QED
        BY <1>0, <1>1, <1>2, <3>1, <4>1 DEF Run, Phases
    <3>3. /\ run'.by = run.by /\ run'.cursor = Len(log) /\ run'.phase = "crawl"
          /\ run'.folders = {Root} /\ run'.removals = {} /\ run'.upserts = {}
      BY <3>1
    <3>4. worker' = worker
      BY <2>1, <2>5
    <3>5. RemoteTypes'
      BY <1>0, <1>1, <2>1, <2>2, <3>3 DEF Ground, Types, RemoteTypes
    <3>6. StoreTypes'
      BY <1>0, <1>1, <2>1, <2>2, <2>3 DEF StoreTypes
    <3>7. WorkerTypes'
      BY <3>2, <3>3, <3>4 DEF Ground, Types, WorkerTypes
    <3>8. Fenced'
      <4>1. \A w \in Workers : worker'[w].token # sched'.token
        BY <1>2, <2>1, <2>5, <3>4
      <4>2. \A w \in Workers : worker'[w].pc = "claimed" => worker'[w].token # NoLease
        BY <3>4 DEF Ground, Fenced
      <4>3. Running' /\ conn'.cursor <= run'.cursor
        BY <1>0, <1>1, <2>1, <2>2, <3>3 DEF Running
      <4>4. conn'.status \in {"NONE", "AUTHORIZING", "SELECTING_FOLDER"} => log' = <<>> /\ conn'.cursor = 0
        BY <1>0, <2>1, <2>2 DEF Ground, Fenced
      <4> QED
        BY <4>1, <4>2, <4>3, <4>4 DEF Fenced
    <3>9. Ground'
      BY <3>5, <3>6, <3>7, <3>8 DEF Ground, Types
    <3> QED
      BY <1>0, <2>1, <2>2, <2>5, <3>3, <3>9
  <2> QED
    BY <2>4, <2>5
<1> QED
  BY <1>4, <1>5

-----------------------------------------------------------------------------
(* The mirror: what the stored rows say of the remote tree                   *)
(*                                                                           *)
(* Up to a cursor a node is quiet when no later change names it.  Everything *)
(* below speaks of quiet nodes, so that a later change never hurts it.       *)

Quiet(n, c) == \A i \in 1..Len(log) : i > c => log[i].node # n

\* Folders in the stored tree whose children a crawl has listed.
Listed == {d \in Folders : stored[d].tree /\ d \notin uncrawled}

\* A node is stored as it is now, in the tree, with an Inbox row for its generation.
Right(n) ==
  /\ stored[n].known /\ stored[n].tree
  /\ stored[n].parent = place[n] /\ stored[n].gen = remoteGen[n]
  /\ n \in Files => inbox[n][remoteGen[n]].state \notin {"ABSENT", "REMOVED"}

Covered(n, root) == place[n] \in Listed \/ (place[n] = Root /\ root)
Hangs(n) == node_in_tree(stored[n].parent) \/ n \in orphans

\* Ids of the page a run has not stored yet, and whether it has listed the root.
Pending == run.removals \cup run.upserts
RootListed == run.phase = "crawl" => Root \notin run.folders

\* The log ends with what is.
LogTells ==
  \A i \in 1..Len(log) : (\A j \in 1..Len(log) : j > i => log[j].node # log[i].node) =>
    log[i].place = place[log[i].node] /\ log[i].gen = remoteGen[log[i].node]

\* Only stored nodes are in the tree, and nothing outside it can be reviewed.
TreeKnown == \A n \in Nodes : stored[n].tree => stored[n].known
OpenInTree ==
  \A f \in Files : ~stored[f].tree => \A g \in Generations : inbox[f][g].state \notin Open

\* Up to the published cursor: what lies in a listed folder is stored right, and
\* what is stored in the tree is stored where it is, below a folder of the tree.
StoredComplete ==
  \A n \in Nodes : Quiet(n, conn.cursor) /\ Covered(n, conn.scanned) => Right(n)
StoredSound ==
  ~skipped => \A n \in Nodes : Quiet(n, conn.cursor) /\ stored[n].tree =>
    stored[n].parent = place[n] /\ Hangs(n)

\* Up to the run's cursor the same holds of what the run's page no longer names.
RunComplete ==
  Running => \A n \in Nodes \ Pending : Quiet(n, run.cursor) /\ Covered(n, RootListed) => Right(n)
RunSound ==
  Running /\ ~skipped => \A n \in Nodes \ Pending : Quiet(n, run.cursor) /\ stored[n].tree =>
    stored[n].parent = place[n] /\ (Hangs(n) \/ stored[n].parent \in run.upserts \cap run.members)

\* A crawl lists folders of the tree.
CrawlInTree == run.phase = "crawl" => \A d \in run.folders : d = Root \/ stored[d].tree

\* The page being applied.  It names changed nodes only, tells what they are now
\* if nothing later does, and its members are closed under its parents; a folder
\* that is no member has left the tree before the upserts begin.
PageChanged == \A n \in Pending : ~Quiet(n, conn.cursor)
PagePhases ==
  /\ run.phase \notin {"remove", "upsert"} => Pending = {}
  /\ run.phase = "upsert" => run.removals = {}
PageTells ==
  /\ \A n \in run.upserts : Quiet(n, run.cursor) =>
       run.page[n].place = place[n] /\ run.page[n].gen = remoteGen[n]
  /\ \A n \in run.removals \ run.upserts : Quiet(n, run.cursor) => place[n] = Gone
PageMembers ==
  /\ \A n \in run.upserts : LET p == run.page[n].place IN
       /\ node_in_tree(p) /\ p \notin Pending => n \in run.members
       /\ p \in run.upserts => (n \in run.members) = (p \in run.members)
  /\ \A d \in run.upserts \cap Folders : d \notin run.members => d \in run.removals \/ ~stored[d].tree
PageInv == PageChanged /\ PagePhases /\ PageTells /\ PageMembers

Remotely == Acyclic(place) /\ LogTells
Stored == TreeKnown /\ OpenInTree /\ StoredComplete /\ StoredSound
InRun == RunComplete /\ RunSound /\ CrawlInTree /\ PageInv
Mirror == Remotely /\ Stored /\ InRun

LEMMA NothingRuns ==
  ASSUME run = NoRun
  PROVE  InRun
<1>1. ~Running /\ Pending = {} /\ run.upserts = {} /\ run.removals = {} /\ run.phase = "none"
  BY NoRunTypes DEF Running, Pending
<1> QED
  BY <1>1 DEF InRun, RunComplete, RunSound, CrawlInTree, PageInv, PageChanged, PagePhases,
     PageTells, PageMembers

LEMMA NothingRunsNext ==
  ASSUME run' = NoRun
  PROVE  InRun'
<1>1. ~Running' /\ Pending' = {} /\ run'.upserts = {} /\ run'.removals = {} /\ run'.phase = "none"
  BY NoRunTypes DEF Running, Pending
<1> QED
  BY <1>1 DEF InRun, RunComplete, RunSound, CrawlInTree, PageInv, PageChanged, PagePhases,
     PageTells, PageMembers

LEMMA MirrorInit == Init => Mirror
<1> SUFFICES ASSUME Init PROVE Mirror
  OBVIOUS
<1>1. Acyclic(place)
  BY DEF Init
<1>2. LogTells
  BY DEF Init, LogTells
<1>3. \A n \in Nodes : ~stored[n].tree
  BY DEF Init, UnknownNode
<1>4. OpenInTree
  BY DEF Init, OpenInTree, NoItem, Open, Reviewable
<1>5. Listed = {} /\ conn.scanned = FALSE
  BY <1>3 DEF Init, Listed, NoConnection, Nodes
<1>6. InRun
  BY NothingRuns DEF Init
<1> QED
  BY <1>1, <1>2, <1>3, <1>4, <1>5, <1>6 DEF Mirror, Remotely, Stored, TreeKnown, StoredComplete,
     StoredSound, Covered

\* A step that leaves the rows of the tree and the published cursor alone, and
\* the run too, or ends it.
LEMMA MirrorFrame ==
  ASSUME Mirror,
         UNCHANGED <<place, remoteGen, log, stored, inbox, uncrawled, orphans, skipped>>,
         conn'.cursor = conn.cursor, conn'.scanned => conn.scanned,
         run' = run \/ run' = NoRun
  PROVE  Mirror'
<1>1. Remotely'
  BY DEF Mirror, Remotely, Acyclic, LogTells
<1>2. TreeKnown' /\ OpenInTree'
  BY DEF Mirror, Stored, TreeKnown, OpenInTree
<1>3. StoredComplete'
  <2> SUFFICES ASSUME NEW n \in Nodes, Quiet(n, conn.cursor)', Covered(n, conn.scanned)'
               PROVE  Right(n)'
    BY DEF StoredComplete
  <2>1. Quiet(n, conn.cursor) /\ Covered(n, conn.scanned)
    BY DEF Quiet, Covered, Listed
  <2>2. Right(n)
    BY <2>1 DEF Mirror, Stored, StoredComplete
  <2> QED
    BY <2>2 DEF Right
<1>4. StoredSound'
  <2> SUFFICES ASSUME NEW n \in Nodes, ~skipped', Quiet(n, conn.cursor)', stored'[n].tree
               PROVE  stored'[n].parent = place'[n] /\ Hangs(n)'
    BY DEF StoredSound
  <2>1. Quiet(n, conn.cursor)
    BY DEF Quiet
  <2>2. stored[n].parent = place[n] /\ Hangs(n)
    BY <2>1 DEF Mirror, Stored, StoredSound
  <2> QED
    BY <2>2 DEF Hangs, node_in_tree
<1>5. InRun'
  <2>1. CASE run' = NoRun
    BY <2>1, NothingRunsNext
  <2>2. CASE run' = run
    <3>1. CrawlInTree' /\ PageInv'
      <4>1. PageChanged'
        BY <2>2 DEF Mirror, InRun, PageInv, PageChanged, Quiet, Pending
      <4> QED
        BY <2>2, <4>1 DEF Mirror, InRun, CrawlInTree, PageInv, PagePhases, PageTells, PageMembers, Quiet,
           Pending, node_in_tree
    <3>2. RunComplete'
      BY <2>2 DEF Mirror, InRun, RunComplete, Running, Pending, Quiet, Covered, Listed, RootListed, Right
    <3>3. RunSound'
      BY <2>2 DEF Mirror, InRun, RunSound, Running, Pending, Quiet, Hangs, node_in_tree
    <3> QED
      BY <3>1, <3>2, <3>3 DEF InRun
  <2> QED
    BY <2>1, <2>2
<1> QED
  BY <1>1, <1>2, <1>3, <1>4, <1>5 DEF Mirror, Stored

-----------------------------------------------------------------------------
(* The remote tree changes *)

LEMMA QuietBefore ==
  ASSUME log \in Seq(Change), NEW e \in Change, log' = Append(log, e),
         NEW c \in Nat, c <= Len(log), NEW m,
         \A i \in 1..Len(log') : i > c => log'[i].node # m
  PROVE  m # e.node /\ Quiet(m, c)
<1>1. Len(log') = Len(log) + 1 /\ Len(log) \in Nat
  OBVIOUS
<1>2. log'[Len(log) + 1] = e
  OBVIOUS
<1>3. m # e.node
  BY <1>1, <1>2
<1>4. \A i \in 1..Len(log) : log'[i] = log[i]
  OBVIOUS
<1>5. Quiet(m, c)
  BY <1>1, <1>4 DEF Quiet
<1> QED
  BY <1>3, <1>5

\* Moving a node to a place that is not below it closes no cycle.
LEMMA MoveAcyclic ==
  ASSUME Acyclic(place), place \in [Nodes -> Places], NEW n \in Nodes, NEW p \in Places,
         p \in Folders => p = place[n] \/ (p # n /\ p \notin Below(place, n)),
         place' = [place EXCEPT ![n] = p]
  PROVE  Acyclic(place)'
<1> SUFFICES ASSUME NEW U \in SUBSET Folders, \A d \in U : place'[d] \in U, U # {}
             PROVE  FALSE
  BY Zenon DEF Acyclic
<1>0. U \subseteq Nodes
  BY DEF Nodes
<1>1. CASE p = place[n] \/ n \notin U
  <2>1. \A d \in U : place[d] \in U
    BY <1>0, <1>1
  <2> QED
    BY <2>1 DEF Acyclic
<1>2. CASE p # place[n] /\ n \in U
  <2> DEFINE V == {d \in U : d # n /\ d \notin Below(place, n)}
  <2>1. place'[n] = p
    OBVIOUS
  <2>2. p \in U /\ p \in Folders
    BY <1>2, <2>1
  <2>3. p \in V
    BY <1>2, <2>2
  <2>4. ASSUME NEW d \in V
        PROVE  place[d] \in V
    <3>1. d \in U /\ d # n /\ d \in Nodes /\ d \notin Below(place, n)
      BY <1>0
    <3>2. place[d] = place'[d] /\ place[d] \in U /\ place[d] \in Folders
      BY <3>1
    <3>3. place[d] # n /\ place[d] \notin Below(place, n)
      BY <3>1, <3>2, BelowStep
    <3> QED
      BY <3>2, <3>3
  <2>5. V \in SUBSET Folders
    OBVIOUS
  <2> HIDE DEF V
  <2> QED
    BY <2>3, <2>4, <2>5 DEF Acyclic
<1> QED
  BY <1>1, <1>2

LEMMA RemoteMirror ==
  ASSUME Ground, Mirror, NEW n \in Nodes, NEW p \in Places, NEW g \in Generations,
         p \in Folders => p = place[n] \/ (p # n /\ p \notin Below(place, n)),
         RemoteChange(n, p, g)
  PROVE  Mirror'
<1>1. /\ place' = [place EXCEPT ![n] = p] /\ remoteGen' = [remoteGen EXCEPT ![n] = g]
      /\ log' = Append(log, [node |-> n, place |-> p, gen |-> g])
      /\ UNCHANGED <<conn, stored, inbox, run, uncrawled, orphans, skipped>>
  BY RemoteGround
<1> DEFINE e == [node |-> n, place |-> p, gen |-> g]
<1>2. /\ place \in [Nodes -> Places] /\ remoteGen \in [Nodes -> Generations] /\ log \in Seq(Change)
      /\ conn.cursor \in Nat /\ run.cursor \in Nat /\ conn.cursor <= Len(log) /\ run.cursor <= Len(log)
      /\ Len(log) \in Nat /\ run.removals \subseteq Nodes /\ run.upserts \subseteq Nodes
  BY DEF Ground, Types, RemoteTypes, StoreTypes, WorkerTypes, Connection, Run
<1>3. e \in Change /\ e.node = n /\ e.place = p /\ e.gen = g
  BY DEF Change
<1>4. \A m \in Nodes \ {n} : place'[m] = place[m] /\ remoteGen'[m] = remoteGen[m]
  BY <1>1, <1>2
<1>5. place'[n] = p /\ remoteGen'[n] = g
  BY <1>1, <1>2
<1> HIDE DEF e
<1>6. log' = Append(log, e)
  BY <1>1 DEF e
<1>7. \A m : Quiet(m, conn.cursor)' => m # n /\ Quiet(m, conn.cursor)
  BY <1>1, <1>2, <1>3, <1>6, QuietBefore DEF Quiet
<1>8. \A m : Quiet(m, run.cursor)' => m # n /\ Quiet(m, run.cursor)
  BY <1>1, <1>2, <1>3, <1>6, QuietBefore DEF Quiet
<1>9. Acyclic(place)'
  BY <1>1, <1>2, MoveAcyclic DEF Mirror, Remotely
<1>10. LogTells'
  <2> SUFFICES ASSUME NEW i \in 1..Len(log'), \A j \in 1..Len(log') : j > i => log'[j].node # log'[i].node
               PROVE  log'[i].place = place'[log'[i].node] /\ log'[i].gen = remoteGen'[log'[i].node]
    BY DEF LogTells
  <2>1. Len(log') = Len(log) + 1 /\ log'[Len(log) + 1] = e /\ \A j \in 1..Len(log) : log'[j] = log[j]
    BY <1>2, <1>3, <1>6
  <2>2. CASE i = Len(log) + 1
    BY <1>3, <1>5, <2>1, <2>2
  <2>3. CASE i # Len(log) + 1
    <3>1. i \in 1..Len(log) /\ Len(log) + 1 > i
      BY <1>2, <2>1, <2>3
    <3>2. log[i].node # n /\ log[i].node \in Nodes
      <4>1. Len(log) + 1 \in 1..Len(log')
        BY <1>2, <2>1
      <4>2. log'[Len(log) + 1].node # log'[i].node
        BY <3>1, <4>1
      <4>3. log[i] \in Change
        BY <1>2, <3>1
      <4> QED
        BY <1>3, <2>1, <3>1, <4>2, <4>3 DEF Change
    <3>3. \A j \in 1..Len(log) : j > i => log[j].node # log[i].node
      BY <2>1, <3>1
    <3>4. log[i].place = place[log[i].node] /\ log[i].gen = remoteGen[log[i].node]
      BY <3>1, <3>3 DEF Mirror, Remotely, LogTells
    <3> QED
      BY <1>4, <2>1, <3>1, <3>2, <3>4
  <2> QED
    BY <2>2, <2>3
<1>11. TreeKnown' /\ OpenInTree'
  BY <1>1 DEF Mirror, Stored, TreeKnown, OpenInTree
<1>12. StoredComplete'
  <2> SUFFICES ASSUME NEW m \in Nodes, Quiet(m, conn.cursor)', Covered(m, conn.scanned)'
               PROVE  Right(m)'
    BY DEF StoredComplete
  <2>1. m # n /\ Quiet(m, conn.cursor)
    BY <1>7
  <2>2. Covered(m, conn.scanned)
    BY <1>1, <1>4, <2>1 DEF Covered, Listed
  <2>3. Right(m)
    BY <2>1, <2>2 DEF Mirror, Stored, StoredComplete
  <2> QED
    BY <1>1, <1>4, <2>1, <2>3 DEF Right
<1>13. StoredSound'
  <2> SUFFICES ASSUME NEW m \in Nodes, ~skipped', Quiet(m, conn.cursor)', stored'[m].tree
               PROVE  stored'[m].parent = place'[m] /\ Hangs(m)'
    BY DEF StoredSound
  <2>1. m # n /\ Quiet(m, conn.cursor)
    BY <1>7
  <2>2. stored[m].parent = place[m] /\ Hangs(m)
    BY <1>1, <2>1 DEF Mirror, Stored, StoredSound
  <2> QED
    BY <1>1, <1>4, <2>1, <2>2 DEF Hangs, node_in_tree
<1>14. RunComplete'
  <2> SUFFICES ASSUME Running', NEW m \in (Nodes \ Pending)', Quiet(m, run.cursor)', Covered(m, RootListed)'
               PROVE  Right(m)'
    BY DEF RunComplete
  <2>1. m \in Nodes \ Pending /\ m # n /\ Quiet(m, run.cursor) /\ Running
    BY <1>1, <1>8 DEF Pending, Running
  <2>2. Covered(m, RootListed)
    BY <1>1, <1>4, <2>1 DEF Covered, Listed, RootListed
  <2>3. Right(m)
    BY <2>1, <2>2 DEF Mirror, InRun, RunComplete
  <2> QED
    BY <1>1, <1>4, <2>1, <2>3 DEF Right
<1>15. RunSound'
  <2> SUFFICES ASSUME Running', ~skipped', NEW m \in (Nodes \ Pending)', Quiet(m, run.cursor)', stored'[m].tree
               PROVE  stored'[m].parent = place'[m] /\ (Hangs(m)' \/ stored'[m].parent \in (run.upserts \cap run.members)')
    BY DEF RunSound
  <2>1. m \in Nodes \ Pending /\ m # n /\ Quiet(m, run.cursor) /\ Running /\ ~skipped /\ stored[m].tree
    BY <1>1, <1>8 DEF Pending, Running
  <2>2. stored[m].parent = place[m] /\ (Hangs(m) \/ stored[m].parent \in run.upserts \cap run.members)
    BY <2>1 DEF Mirror, InRun, RunSound
  <2> QED
    BY <1>1, <1>4, <2>1, <2>2 DEF Hangs, node_in_tree
<1>16. CrawlInTree'
  BY <1>1 DEF Mirror, InRun, CrawlInTree
<1>17. PageInv'
  <2>1. PageChanged'
    BY <1>1, <1>7 DEF Mirror, InRun, PageInv, PageChanged, Pending
  <2>2. PagePhases' /\ PageMembers'
    BY <1>1 DEF Mirror, InRun, PageInv, PagePhases, PageMembers, Pending, node_in_tree
  <2>3. PageTells'
    <3>1. ASSUME NEW m \in run'.upserts, Quiet(m, run.cursor)'
          PROVE  run'.page[m].place = place'[m] /\ run'.page[m].gen = remoteGen'[m]
      <4>1. m # n /\ Quiet(m, run.cursor) /\ m \in run.upserts /\ m \in Nodes
        BY <1>1, <1>2, <1>8, <3>1
      <4>2. run.page[m].place = place[m] /\ run.page[m].gen = remoteGen[m]
        BY <4>1 DEF Mirror, InRun, PageInv, PageTells
      <4> QED
        BY <1>1, <1>4, <4>1, <4>2
    <3>2. ASSUME NEW m \in run'.removals \ run'.upserts, Quiet(m, run.cursor)'
          PROVE  place'[m] = Gone
      <4>1. m # n /\ Quiet(m, run.cursor) /\ m \in run.removals \ run.upserts /\ m \in Nodes
        BY <1>1, <1>2, <1>8, <3>2
      <4>2. place[m] = Gone
        BY <4>1 DEF Mirror, InRun, PageInv, PageTells
      <4> QED
        BY <1>4, <4>1, <4>2
    <3> QED
      BY <3>1, <3>2 DEF PageTells
  <2> QED
    BY <2>1, <2>2, <2>3 DEF PageInv
<1> QED
  BY <1>9, <1>10, <1>11, <1>12, <1>13, <1>14, <1>15, <1>16, <1>17
     DEF Mirror, Remotely, Stored, InRun

-----------------------------------------------------------------------------
(* A run begins, or begins again at the end of the log *)

LEMMA EnterMirror ==
  ASSUME Ground, Mirror, NEW w \in Workers, enter_run(w)
  PROVE  Mirror'
<1>1. /\ UNCHANGED <<place, remoteGen, log, conn, stored, inbox, uncrawled, orphans, skipped>>
      /\ \/ run' = NoRun
         \/ /\ run'.cursor = conn.cursor /\ run'.phase = (IF conn.scanned THEN "list" ELSE "crawl")
            /\ run'.folders = {Root} /\ run'.removals = {} /\ run'.upserts = {}
  BY EnterGround
<1>2. CASE run' = NoRun
  BY <1>1, <1>2, MirrorFrame
<1>3. CASE /\ run'.cursor = conn.cursor /\ run'.phase = (IF conn.scanned THEN "list" ELSE "crawl")
           /\ run'.folders = {Root} /\ run'.removals = {} /\ run'.upserts = {}
  <2>1. Remotely'
    BY <1>1 DEF Mirror, Remotely, Acyclic, LogTells
  <2>2. TreeKnown' /\ OpenInTree' /\ StoredComplete' /\ StoredSound'
    <3>1. TreeKnown' /\ OpenInTree'
      BY <1>1 DEF Mirror, Stored, TreeKnown, OpenInTree
    <3>2. StoredComplete'
      BY <1>1 DEF Mirror, Stored, StoredComplete, Quiet, Covered, Listed, Right
    <3>3. StoredSound'
      BY <1>1 DEF Mirror, Stored, StoredSound, Quiet, Hangs, node_in_tree
    <3> QED
      BY <3>1, <3>2, <3>3
  <2>3. Pending' = {} /\ (RootListed' => conn.scanned)
    BY <1>3 DEF Pending, RootListed
  <2>4. RunComplete'
    <3> SUFFICES ASSUME NEW n \in Nodes, Quiet(n, run.cursor)', Covered(n, RootListed)'
                 PROVE  Right(n)'
      BY DEF RunComplete
    <3>1. Quiet(n, conn.cursor) /\ Covered(n, conn.scanned)
      BY <1>1, <1>3, <2>3 DEF Quiet, Covered, Listed
    <3>2. Right(n)
      BY <3>1 DEF Mirror, Stored, StoredComplete
    <3> QED
      BY <1>1, <3>2 DEF Right
  <2>5. RunSound'
    <3> SUFFICES ASSUME ~skipped', NEW n \in Nodes, Quiet(n, run.cursor)', stored'[n].tree
                 PROVE  stored'[n].parent = place'[n] /\ Hangs(n)'
      BY DEF RunSound
    <3>1. Quiet(n, conn.cursor)
      BY <1>1, <1>3 DEF Quiet
    <3>2. stored[n].parent = place[n] /\ Hangs(n)
      BY <1>1, <3>1 DEF Mirror, Stored, StoredSound
    <3> QED
      BY <1>1, <3>2 DEF Hangs, node_in_tree
  <2>6. CrawlInTree'
    BY <1>3 DEF CrawlInTree
  <2>7. PageInv'
    BY <1>3, <2>3 DEF PageInv, PageChanged, PagePhases, PageTells, PageMembers
  <2> QED
    BY <2>1, <2>2, <2>4, <2>5, <2>6, <2>7 DEF Mirror, Stored, InRun
<1> QED
  BY <1>1, <1>2, <1>3

LEMMA ReconcileMirror ==
  ASSUME Ground, Mirror, require_full_reconciliation
  PROVE  Mirror'
<1>1. /\ UNCHANGED <<place, remoteGen, log, stored, inbox>>
      /\ conn'.cursor = conn.cursor /\ (conn'.scanned => conn.scanned)
      /\ \/ run' = NoRun /\ UNCHANGED <<uncrawled, orphans, skipped>>
         \/ /\ run'.cursor = Len(log) /\ run'.phase = "crawl"
            /\ run'.folders = {Root} /\ run'.removals = {} /\ run'.upserts = {}
            /\ orphans' = orphans /\ skipped' = (skipped \/ conn.cursor < Len(log))
            /\ uncrawled' = IF conn.cursor < Len(log) THEN {d \in Folders : stored[d].tree} ELSE uncrawled
  BY ReconcileStep
<1>2. CASE run' = NoRun /\ UNCHANGED <<uncrawled, orphans, skipped>>
  BY <1>1, <1>2, MirrorFrame
<1>3. CASE /\ run'.cursor = Len(log) /\ run'.phase = "crawl"
           /\ run'.folders = {Root} /\ run'.removals = {} /\ run'.upserts = {}
           /\ orphans' = orphans /\ skipped' = (skipped \/ conn.cursor < Len(log))
           /\ uncrawled' = IF conn.cursor < Len(log) THEN {d \in Folders : stored[d].tree} ELSE uncrawled
  <2>0. conn.cursor <= Len(log) /\ conn.cursor \in Nat /\ Len(log) \in Nat
    BY DEF Ground, Types, RemoteTypes, StoreTypes, Connection
  <2>1. Remotely'
    BY <1>1 DEF Mirror, Remotely, Acyclic, LogTells
  <2>2. TreeKnown' /\ OpenInTree'
    BY <1>1 DEF Mirror, Stored, TreeKnown, OpenInTree
  \* Listed only shrinks: either nothing was skipped, or nothing counts as listed.
  <2>3. \A d \in Listed' : d \in Listed /\ conn.cursor = Len(log)
    BY <1>1, <1>3, <2>0 DEF Listed
  <2>4. StoredComplete'
    <3> SUFFICES ASSUME NEW n \in Nodes, Quiet(n, conn.cursor)', Covered(n, conn.scanned)'
                 PROVE  Right(n)'
      BY DEF StoredComplete
    <3>1. Quiet(n, conn.cursor) /\ Covered(n, conn.scanned)
      BY <1>1, <2>3 DEF Quiet, Covered
    <3>2. Right(n)
      BY <3>1 DEF Mirror, Stored, StoredComplete
    <3> QED
      BY <1>1, <3>2 DEF Right
  <2>5. ASSUME ~skipped', NEW n \in Nodes, Quiet(n, conn.cursor), stored'[n].tree
        PROVE  stored'[n].parent = place'[n] /\ Hangs(n)'
    <3>1. stored[n].parent = place[n] /\ Hangs(n)
      BY <1>1, <1>3, <2>5 DEF Mirror, Stored, StoredSound
    <3> QED
      BY <1>1, <1>3, <3>1 DEF Hangs, node_in_tree
  <2>6. StoredSound'
    BY <1>1, <2>5 DEF StoredSound, Quiet
  <2>7. Pending' = {} /\ ~RootListed'
    BY <1>3 DEF Pending, RootListed
  <2>8. RunComplete'
    <3> SUFFICES ASSUME NEW n \in Nodes, Quiet(n, run.cursor)', Covered(n, RootListed)'
                 PROVE  Right(n)'
      BY DEF RunComplete
    <3>1. place[n] \in Listed /\ conn.cursor = Len(log)
      BY <1>1, <2>3, <2>7 DEF Covered
    <3>2. Quiet(n, conn.cursor) /\ Covered(n, conn.scanned)
      BY <1>1, <1>3, <3>1 DEF Quiet, Covered
    <3>3. Right(n)
      BY <3>2 DEF Mirror, Stored, StoredComplete
    <3> QED
      BY <1>1, <3>3 DEF Right
  <2>9. RunSound'
    <3> SUFFICES ASSUME ~skipped', NEW n \in Nodes, Quiet(n, run.cursor)', stored'[n].tree
                 PROVE  stored'[n].parent = place'[n] /\ Hangs(n)'
      BY DEF RunSound
    <3>1. conn.cursor = Len(log)
      <4>1. ~(conn.cursor < Len(log))
        BY <1>3, Zenon
      <4> QED
        BY <2>0, <4>1
    <3>2. Quiet(n, conn.cursor)
      BY <1>1, <1>3, <3>1 DEF Quiet
    <3> QED
      BY <2>5, <3>2
  <2>10. CrawlInTree'
    BY <1>3 DEF CrawlInTree
  <2>11. PageInv'
    BY <1>3, <2>7 DEF PageInv, PageChanged, PagePhases, PageTells, PageMembers
  <2> QED
    BY <2>1, <2>2, <2>4, <2>6, <2>8, <2>9, <2>10, <2>11 DEF Mirror, Stored, InRun
<1> QED
  BY <1>1, <1>2, <1>3

-----------------------------------------------------------------------------
(* A crawl lists a folder *)

\* Folders enter the tree uncrawled: only the one just listed may count as listed now.
LEMMA ListedAfter ==
  ASSUME stored \in [Nodes -> NodeRow], NEW L, uncrawled' = StillUncrawled(L), NEW d \in Listed'
  PROVE  d \in Folders /\ (d \in Listed \/ d \in L)
BY DEF Listed, StillUncrawled, NodeRow, Nodes

LEMMA CrawlMirror ==
  ASSUME Ground, Mirror, persist_crawl_page
  PROVE  Mirror'
<1>1. /\ UNCHANGED <<place, remoteGen, log, conn, skipped>>
      /\ run.phase = "crawl" /\ Running /\ run'.cursor = run.cursor
      /\ run'.removals = run.removals /\ run'.upserts = run.upserts
  BY CrawlStep
<1>2. PICK d \in run.folders :
        LET children == {n \in Nodes : place[n] = d} IN
        /\ \A n \in children : stored'[n] = node(d, remoteGen[n], TRUE)
        /\ \A n \in Nodes \ children : stored'[n] = stored[n]
        /\ \A f \in Files \cap children :
             inbox'[f][remoteGen[f]].state \notin {"ABSENT", "REMOVED"}
        /\ \A f \in Files \ children : inbox'[f] = inbox[f]
        /\ uncrawled' = StillUncrawled({d})
        /\ orphans' = orphans \ children
        /\ run'.phase = "crawl" => run'.folders \subseteq (run.folders \ {d}) \cup (children \cap Folders)
        /\ run'.phase = "list" => run.folders = {d}
        /\ run'.phase = "crawl" /\ Root \notin run'.folders => d = Root \/ Root \notin run.folders
        /\ run'.phase \in {"crawl", "list"}
  BY CrawlStep
<1> DEFINE children == {n \in Nodes : place[n] = d}
<1>3. /\ \A n \in children : stored'[n] = node(d, remoteGen[n], TRUE)
      /\ \A n \in Nodes \ children : stored'[n] = stored[n]
      /\ \A f \in Files \cap children :
           inbox'[f][remoteGen[f]].state \notin {"ABSENT", "REMOVED"}
      /\ \A f \in Files \ children : inbox'[f] = inbox[f]
      /\ uncrawled' = StillUncrawled({d})
      /\ orphans' = orphans \ children
      /\ run'.phase = "crawl" => run'.folders \subseteq (run.folders \ {d}) \cup (children \cap Folders)
      /\ run'.phase = "list" => run.folders = {d}
      /\ run'.phase = "crawl" /\ Root \notin run'.folders => d = Root \/ Root \notin run.folders
      /\ run'.phase \in {"crawl", "list"}
  BY <1>2
<1>4. \A n \in children : n \in Nodes /\ place[n] = d
  OBVIOUS
<1>5. \A n \in Nodes : n \notin children => place[n] # d
  OBVIOUS
<1> HIDE DEF children
<1>6. Pending = {} /\ stored \in [Nodes -> NodeRow] /\ (d = Root \/ (d \in Folders /\ stored[d].tree))
      /\ run.removals = {} /\ run.upserts = {}
  BY <1>1 DEF Mirror, InRun, PageInv, PagePhases, CrawlInTree, Ground, Types, StoreTypes, WorkerTypes,
     Pending, Run
\* Every child is right after the transaction.
<1>7. ASSUME NEW n \in children
      PROVE  Right(n)' /\ stored'[n].tree /\ stored'[n].parent = d
  <2>1. stored'[n] = [known |-> TRUE, parent |-> d, gen |-> remoteGen[n], tree |-> TRUE]
    BY <1>3, <1>7 DEF node
  <2>2. n \in Files => inbox'[n][remoteGen[n]].state \notin {"ABSENT", "REMOVED"}
    BY <1>3, <1>7
  <2>3. place'[n] = d /\ remoteGen'[n] = remoteGen[n]
    BY <1>1, <1>4, <1>7
  <2> QED
    BY <2>1, <2>2, <2>3 DEF Right
<1>8. ASSUME NEW n \in Nodes, Right(n)
      PROVE  Right(n)'
  BY <1>1, <1>3, <1>7, <1>8 DEF Right
<1>9. \A e \in Listed' : e \in Folders /\ (e \in Listed \/ e = d)
  BY <1>3, <1>6, ListedAfter
<1>10. \A n \in Nodes : stored[n].tree => stored'[n].tree
  BY <1>3, <1>7
<1>11. node_in_tree(d)'
  BY <1>6, <1>10 DEF node_in_tree, Nodes
<1>12. ASSUME NEW n \in Nodes, n \notin children, stored[n].parent = place[n] /\ Hangs(n)
       PROVE  stored'[n].parent = place'[n] /\ Hangs(n)'
  BY <1>1, <1>3, <1>10, <1>12 DEF Hangs, node_in_tree, Nodes
<1>13. ASSUME NEW n \in children
       PROVE  stored'[n].parent = place'[n] /\ Hangs(n)'
  BY <1>1, <1>4, <1>7, <1>11, <1>13 DEF Hangs
<1>14. Remotely'
  BY <1>1 DEF Mirror, Remotely, Acyclic, LogTells
<1>15. TreeKnown'
  BY <1>3, <1>7 DEF Mirror, Stored, TreeKnown, Right
<1>16. OpenInTree'
  BY <1>3, <1>7 DEF Mirror, Stored, OpenInTree, Nodes
<1>17. StoredComplete'
  <2> SUFFICES ASSUME NEW n \in Nodes, Quiet(n, conn.cursor)', Covered(n, conn.scanned)'
               PROVE  Right(n)'
    BY DEF StoredComplete
  <2>1. CASE n \in children
    BY <1>7, <2>1
  <2>2. CASE n \notin children
    <3>1. Quiet(n, conn.cursor) /\ Covered(n, conn.scanned)
      BY <1>1, <1>5, <1>9, <2>2 DEF Quiet, Covered
    <3> QED
      BY <1>8, <3>1 DEF Mirror, Stored, StoredComplete
  <2> QED
    BY <2>1, <2>2
<1>18. StoredSound'
  <2> SUFFICES ASSUME ~skipped', NEW n \in Nodes, Quiet(n, conn.cursor)', stored'[n].tree
               PROVE  stored'[n].parent = place'[n] /\ Hangs(n)'
    BY DEF StoredSound
  <2>1. CASE n \in children
    BY <1>13, <2>1
  <2>2. CASE n \notin children
    <3>1. Quiet(n, conn.cursor) /\ stored[n].tree /\ ~skipped
      BY <1>1, <1>3, <2>2 DEF Quiet
    <3>2. stored[n].parent = place[n] /\ Hangs(n)
      BY <3>1 DEF Mirror, Stored, StoredSound
    <3> QED
      BY <1>12, <2>2, <3>2
  <2> QED
    BY <2>1, <2>2
<1>19. Pending' = {}
  BY <1>1, <1>6 DEF Pending
<1>20. RunComplete'
  <2> SUFFICES ASSUME NEW n \in Nodes, Quiet(n, run.cursor)', Covered(n, RootListed)'
               PROVE  Right(n)'
    BY DEF RunComplete
  <2>1. CASE n \in children
    BY <1>7, <2>1
  <2>2. CASE n \notin children
    <3>1. RootListed' => d = Root \/ RootListed
      BY <1>1, <1>3 DEF RootListed
    <3>2. Quiet(n, run.cursor) /\ Covered(n, RootListed)
      BY <1>1, <1>5, <1>9, <2>2, <3>1 DEF Quiet, Covered
    <3> QED
      BY <1>1, <1>6, <1>8, <3>2 DEF Mirror, InRun, RunComplete
  <2> QED
    BY <2>1, <2>2
<1>21. RunSound'
  <2> SUFFICES ASSUME ~skipped', NEW n \in Nodes, Quiet(n, run.cursor)', stored'[n].tree
               PROVE  stored'[n].parent = place'[n] /\ Hangs(n)'
    BY DEF RunSound
  <2>1. CASE n \in children
    BY <1>13, <2>1
  <2>2. CASE n \notin children
    <3>1. Quiet(n, run.cursor) /\ stored[n].tree /\ ~skipped
      BY <1>1, <1>3, <2>2 DEF Quiet
    <3>2. stored[n].parent = place[n] /\ Hangs(n)
      BY <1>1, <1>6, <3>1 DEF Mirror, InRun, RunSound
    <3> QED
      BY <1>12, <2>2, <3>2
  <2> QED
    BY <2>1, <2>2
<1>22. CrawlInTree'
  <2> SUFFICES ASSUME run'.phase = "crawl", NEW e \in run'.folders, e # Root
               PROVE  stored'[e].tree
    BY DEF CrawlInTree
  <2>1. e \in run.folders \/ e \in children
    BY <1>3
  <2>2. CASE e \in children
    BY <1>7, <2>2
  <2>3. CASE e \in run.folders
    <3>1. stored[e].tree /\ e \in Nodes
      BY <1>1, <2>3 DEF Mirror, InRun, CrawlInTree, Ground, Types, WorkerTypes, Run, Nodes
    <3> QED
      BY <1>10, <3>1
  <2> QED
    BY <2>1, <2>2, <2>3
<1>23. PageInv'
  BY <1>1, <1>3, <1>6, <1>19 DEF PageInv, PageChanged, PagePhases, PageTells, PageMembers
<1> QED
  BY <1>14, <1>15, <1>16, <1>17, <1>18, <1>20, <1>21, <1>22, <1>23 DEF Mirror, Stored, InRun

-----------------------------------------------------------------------------
(* A page is read *)

\* The members are the least set closed under the parents of the page.
LEMMA MembershipClosed ==
  ASSUME NEW page, NEW n \in DOMAIN page
  PROVE  LET p == page[n].place IN
         /\ p = Root \/ p \in membership(page) \/ (p \notin DOMAIN page /\ node_in_tree(p)) =>
              n \in membership(page)
         /\ n \in membership(page) /\ p \in DOMAIN page /\ Root \notin DOMAIN page => p \in membership(page)
<1> DEFINE reaches(m, S) ==
             page[m].place = Root \/ page[m].place \in S
             \/ (page[m].place \notin DOMAIN page /\ node_in_tree(page[m].place))
           closed(S) == \A m \in DOMAIN page : reaches(m, S) => m \in S
           M == membership(page)
<1>1. M = {m \in DOMAIN page : \A S \in SUBSET DOMAIN page : closed(S) => m \in S}
  BY DEF membership
<1>2. ASSUME NEW m \in DOMAIN page, reaches(m, M)
      PROVE  m \in M
  <2> SUFFICES ASSUME NEW S \in SUBSET DOMAIN page, closed(S) PROVE m \in S
    BY <1>1
  <2>1. M \subseteq S
    BY <1>1
  <2>2. reaches(m, S)
    <3> HIDE DEF M
    <3> QED
      BY <1>2, <2>1
  <2> QED
    BY <2>2
<1>3. ASSUME n \in M, page[n].place \in DOMAIN page, Root \notin DOMAIN page
      PROVE  page[n].place \in M
  <2> DEFINE S == {m \in M : page[m].place \in DOMAIN page => page[m].place \in M}
  <2>1. closed(S)
    <3> SUFFICES ASSUME NEW m \in DOMAIN page, reaches(m, S) PROVE m \in S
      OBVIOUS
    <3>1. reaches(m, M)
      <4> HIDE DEF M
      <4> QED
        OBVIOUS
    <3>2. m \in M
      BY <1>2, <3>1
    <3>3. page[m].place \in DOMAIN page => page[m].place \in M
      <4> HIDE DEF M
      <4> QED
        BY <1>3
    <3> QED
      BY <3>2, <3>3
  <2>2. S \in SUBSET DOMAIN page
    BY <1>1
  <2>3. n \in S
    <3> HIDE DEF S
    <3> QED
      BY <1>1, <1>3, <2>1, <2>2
  <2> QED
    BY <1>3, <2>3
<1> HIDE DEF M
<1>4. page[n].place = Root \/ page[n].place \in M
        \/ (page[n].place \notin DOMAIN page /\ node_in_tree(page[n].place)) => n \in M
  BY <1>2
<1> QED
  BY <1>3, <1>4 DEF M

LEMMA ListMirror ==
  ASSUME Ground, Mirror, list_changes
  PROVE  Mirror'
<1>1. /\ UNCHANGED <<place, remoteGen, log, conn, stored, inbox, uncrawled, orphans, skipped>>
      /\ run.phase = "list" /\ Running
  BY ListStep
<1>2. PICK to \in run.cursor..Len(log), current \in BOOLEAN :
        LET page == PageOf(to, current)
            inside == membership(page)
        IN /\ run'.cursor = to /\ run'.page = page /\ run'.members = inside
           /\ run'.removals = {n \in DOMAIN page :
                                 page[n].place = Gone \/ (n \in Folders /\ n \notin inside)}
           /\ run'.upserts = {n \in DOMAIN page : page[n].place # Gone}
           /\ run'.phase = "remove"
  BY ListStep
<1> DEFINE page == PageOf(to, current)
           inside == membership(page)
<1>3. /\ run'.cursor = to /\ run'.page = page /\ run'.members = inside
      /\ run'.removals = {n \in DOMAIN page : page[n].place = Gone \/ (n \in Folders /\ n \notin inside)}
      /\ run'.upserts = {n \in DOMAIN page : page[n].place # Gone}
      /\ run'.phase = "remove"
  BY <1>2
<1>4. /\ run.cursor \in Nat /\ Len(log) \in Nat /\ to \in Nat /\ run.cursor <= to /\ to <= Len(log)
      /\ RemoteTypes /\ conn.cursor \in Nat /\ conn.cursor <= run.cursor
  <2>1. RemoteTypes /\ conn.cursor \in Nat /\ run.cursor \in Nat /\ Len(log) \in Nat
        /\ conn.cursor <= run.cursor
    BY <1>1 DEF Ground, Types, RemoteTypes, StoreTypes, WorkerTypes, Connection, Run, Fenced
  <2> QED
    BY <2>1
<1>5. /\ \A n : n \in DOMAIN page <=> \E i \in (run.cursor + 1)..to : log[i].node = n
      /\ DOMAIN page \subseteq Nodes
      /\ \A n \in DOMAIN page :
           \E i \in (run.cursor + 1)..to :
             /\ log[i].node = n /\ \A j \in (i + 1)..to : log[j].node # n
             /\ \/ page[n] = [place |-> place[n], gen |-> remoteGen[n]]
                \/ page[n] = [place |-> log[i].place, gen |-> log[i].gen]
  <2> DEFINE from == run.cursor + 1
  <2>1. from \in Nat \ {0}
    BY <1>4
  <2>2. page = LastStates(from, to, current)
    BY DEF PageOf
  <2> HIDE DEF from, page
  <2>3. /\ to <= Len(log) /\ to \in Nat /\ RemoteTypes /\ current \in BOOLEAN
        /\ from \in Nat \ {0} /\ page = LastStates(from, to, current)
    BY <1>4, <2>1, <2>2
  <2>4. /\ \A n : n \in DOMAIN page <=> \E i \in from..to : log[i].node = n
        /\ DOMAIN page \subseteq Nodes
        /\ \A n \in DOMAIN page :
             \E i \in from..to : /\ log[i].node = n /\ \A j \in (i + 1)..to : log[j].node # n
                               /\ \/ page[n] = [place |-> place[n], gen |-> remoteGen[n]]
                                  \/ page[n] = [place |-> log[i].place, gen |-> log[i].gen]
    BY <2>3, PageStates, SMTT(30)
  <2> QED
    BY <2>4 DEF from
<1>6. Root \notin DOMAIN page
  BY <1>5, PlaceAssumption
<1>7. inside \subseteq DOMAIN page
  BY DEF membership
<1>8. \A n \in DOMAIN page : LET p == page[n].place IN
        /\ p = Root \/ p \in inside \/ (p \notin DOMAIN page /\ node_in_tree(p)) => n \in inside
        /\ n \in inside /\ p \in DOMAIN page => p \in inside
  BY <1>6, MembershipClosed
<1> HIDE DEF page, inside
<1>9. Pending' = DOMAIN page
  BY <1>3 DEF Pending
<1>10. Pending = {}
  BY <1>1 DEF Mirror, InRun, PageInv, PagePhases
\* What is quiet after the page and not on it was quiet before.
<1>11. ASSUME NEW n \in Nodes \ DOMAIN page, Quiet(n, to)
       PROVE  Quiet(n, run.cursor)
  <2> SUFFICES ASSUME NEW i \in 1..Len(log), i > run.cursor PROVE log[i].node # n
    BY DEF Quiet
  <2>1. CASE i > to
    BY <1>11, <2>1 DEF Quiet
  <2>2. CASE ~(i > to)
    <3>1. i \in (run.cursor + 1)..to
      BY <1>4, <2>2
    <3> QED
      BY <1>5, <3>1
  <2> QED
    BY <2>1, <2>2
\* What is quiet after the page is told by it as it is.
<1>12. ASSUME NEW n \in DOMAIN page, Quiet(n, to)
       PROVE  page[n].place = place[n] /\ page[n].gen = remoteGen[n]
  <2>1. PICK i \in (run.cursor + 1)..to :
          /\ log[i].node = n /\ \A j \in (i + 1)..to : log[j].node # n
          /\ \/ page[n] = [place |-> place[n], gen |-> remoteGen[n]]
             \/ page[n] = [place |-> log[i].place, gen |-> log[i].gen]
    BY <1>5
  <2>2. i \in 1..Len(log)
    BY <1>4
  <2>3. \A j \in 1..Len(log) : j > i => log[j].node # log[i].node
    <3> SUFFICES ASSUME NEW j \in 1..Len(log), j > i PROVE log[j].node # n
      BY <2>1
    <3>1. CASE j > to
      BY <1>12, <3>1 DEF Quiet
    <3>2. CASE ~(j > to)
      <4>1. j \in (i + 1)..to
        BY <1>4, <2>2, <3>2
      <4> QED
        BY <2>1, <4>1
    <3> QED
      BY <3>1, <3>2
  <2>4. log[i].place = place[n] /\ log[i].gen = remoteGen[n]
    BY <2>1, <2>2, <2>3 DEF Mirror, Remotely, LogTells
  <2> QED
    BY <2>1, <2>4
<1>13. Remotely'
  BY <1>1 DEF Mirror, Remotely, Acyclic, LogTells
<1>14. TreeKnown' /\ OpenInTree'
  BY <1>1 DEF Mirror, Stored, TreeKnown, OpenInTree
<1>15. StoredComplete'
  BY <1>1 DEF Mirror, Stored, StoredComplete, Quiet, Covered, Listed, Right
<1>16. StoredSound'
  BY <1>1 DEF Mirror, Stored, StoredSound, Quiet, Hangs, node_in_tree
<1>17. RunComplete'
  <2> SUFFICES ASSUME NEW n \in (Nodes \ Pending)', Quiet(n, run.cursor)', Covered(n, RootListed)'
               PROVE  Right(n)'
    BY DEF RunComplete
  <2>1. n \in Nodes \ DOMAIN page /\ Quiet(n, to)
    BY <1>1, <1>3, <1>9 DEF Quiet
  <2>2. Quiet(n, run.cursor)
    BY <1>11, <2>1
  <2>3. Covered(n, RootListed)
    BY <1>1 DEF Covered, Listed, RootListed
  <2>4. Right(n)
    BY <1>1, <1>10, <2>1, <2>2, <2>3 DEF Mirror, InRun, RunComplete
  <2> QED
    BY <1>1, <2>4 DEF Right
<1>18. RunSound'
  <2> SUFFICES ASSUME ~skipped', NEW n \in (Nodes \ Pending)', Quiet(n, run.cursor)', stored'[n].tree
               PROVE  stored'[n].parent = place'[n] /\ Hangs(n)'
    BY DEF RunSound
  <2>1. n \in Nodes \ DOMAIN page /\ Quiet(n, to)
    BY <1>1, <1>3, <1>9 DEF Quiet
  <2>2. Quiet(n, run.cursor)
    BY <1>11, <2>1
  <2>3. run.upserts = {}
    BY <1>10 DEF Pending
  <2>4. stored[n].parent = place[n] /\ Hangs(n)
    BY <1>1, <1>10, <2>1, <2>2, <2>3 DEF Mirror, InRun, RunSound
  <2> QED
    BY <1>1, <2>4 DEF Hangs, node_in_tree
<1>19. CrawlInTree'
  BY <1>3 DEF CrawlInTree
<1>20. PageChanged'
  <2> SUFFICES ASSUME NEW n \in DOMAIN page PROVE ~Quiet(n, conn.cursor)'
    BY <1>9 DEF PageChanged
  <2>1. PICK i \in (run.cursor + 1)..to : log[i].node = n
    BY <1>5
  <2>2. i \in 1..Len(log) /\ i > conn.cursor
    BY <1>4
  <2> QED
    BY <1>1, <2>1, <2>2 DEF Quiet
<1>21. PagePhases'
  BY <1>3 DEF PagePhases
<1>22. PageTells'
  <2>1. ASSUME NEW n \in run'.upserts, Quiet(n, run.cursor)'
        PROVE  run'.page[n].place = place'[n] /\ run'.page[n].gen = remoteGen'[n]
    <3>1. n \in DOMAIN page /\ Quiet(n, to)
      BY <1>1, <1>3, <2>1 DEF Quiet
    <3> QED
      BY <1>1, <1>3, <1>12, <3>1
  <2>2. ASSUME NEW n \in run'.removals \ run'.upserts, Quiet(n, run.cursor)'
        PROVE  place'[n] = Gone
    <3>1. n \in DOMAIN page /\ Quiet(n, to) /\ page[n].place = Gone
      BY <1>1, <1>3, <2>2 DEF Quiet
    <3> QED
      BY <1>1, <1>12, <3>1
  <2> QED
    BY <2>1, <2>2 DEF PageTells
<1>23. PageMembers'
  <2>1. ASSUME NEW n \in run'.upserts, NEW p, p = run'.page[n].place
        PROVE  /\ (p = Root \/ (p \in Folders /\ stored'[p].tree)) /\ p \notin Pending' => n \in run'.members
               /\ p \in run'.upserts => (n \in run'.members) = (p \in run'.members)
    <3>1. n \in DOMAIN page /\ p = page[n].place
      BY <1>3, <2>1
    <3>2. (p = Root \/ (p \in Folders /\ stored'[p].tree)) => node_in_tree(p)
      BY <1>1 DEF node_in_tree
    <3>3. /\ p = Root \/ p \in inside \/ (p \notin DOMAIN page /\ node_in_tree(p)) => n \in inside
          /\ n \in inside /\ p \in DOMAIN page => p \in inside
      BY <1>8, <3>1
    <3>4. p \in run'.upserts => p \in DOMAIN page
      BY <1>3
    <3> QED
      BY <1>3, <1>9, <3>2, <3>3, <3>4
  <2>2. \A d \in run'.upserts \cap Folders : d \notin run'.members => d \in run'.removals
    BY <1>3
  <2> QED
    BY <2>1, <2>2 DEF PageMembers, node_in_tree
<1> QED
  BY <1>13, <1>14, <1>15, <1>16, <1>17, <1>18, <1>19, <1>20, <1>21, <1>22, <1>23
     DEF Mirror, Stored, InRun, PageInv

-----------------------------------------------------------------------------
(* A page is applied: removals, then upserts *)

\* What lies below a folder lies directly below it, or below a folder below it.
LEMMA BelowParent ==
  ASSUME NEW parents, NEW top, NEW n \in Below(parents, top)
  PROVE  parents[n] = top \/ parents[n] \in Folders \cap Below(parents, top)
<1> DEFINE S == Folders \cap Below(parents, top)
<1>1. ASSUME NEW d \in Folders, parents[d] \in S \cup {top}
      PROVE  d \in S
  <2>1. d \in Below(parents, top)
    BY <1>1, BelowStep DEF Nodes
  <2> QED
    BY <2>1
<1>2. S \in SUBSET Folders
  OBVIOUS
<1> HIDE DEF S
<1>3. parents[n] \in S \cup {top}
  BY <1>1, <1>2, BelowLeast
<1> QED
  BY <1>3 DEF S

LEMMA RemovalMirror ==
  ASSUME Ground, Mirror, persist_removal
  PROVE  Mirror'
<1>1. /\ UNCHANGED <<place, remoteGen, log, conn, skipped>>
      /\ run.phase = "remove" /\ Running /\ run'.cursor = run.cursor
      /\ run'.page = run.page /\ run'.upserts = run.upserts /\ run'.members = run.members
      /\ \/ /\ run.removals = {} /\ run'.removals = {} /\ run'.phase = "upsert"
            /\ UNCHANGED <<stored, inbox, uncrawled, orphans>>
         \/ /\ run'.phase = "remove"
            /\ \E n \in run.removals :
                 /\ \A m \in stored_subtree(n) : stored'[m] = [stored[m] EXCEPT !.tree = FALSE]
                 /\ \A m \in Nodes \ stored_subtree(n) : stored'[m] = stored[m]
                 /\ \A f \in Files \cap stored_subtree(n) :
                      \A g \in Generations : inbox'[f][g].state \notin Open
                 /\ \A f \in Files \ stored_subtree(n) : inbox'[f] = inbox[f]
                 /\ run'.removals = run.removals \ {n}
                 /\ uncrawled' = StillUncrawled({})
                 /\ orphans' = orphans \ stored_subtree(n)
  BY RemovalStep
<1>2. Remotely'
  BY <1>1 DEF Mirror, Remotely, Acyclic, LogTells
<1>3. RootListed' /\ RootListed /\ CrawlInTree'
  BY <1>1 DEF RootListed, CrawlInTree
<1>4. CASE /\ run.removals = {} /\ run'.removals = {} /\ run'.phase = "upsert"
           /\ UNCHANGED <<stored, inbox, uncrawled, orphans>>
  <2>1. TreeKnown' /\ OpenInTree'
    BY <1>4 DEF Mirror, Stored, TreeKnown, OpenInTree
  <2>2. StoredComplete' /\ StoredSound'
    <3>1. StoredComplete'
      BY <1>1, <1>4 DEF Mirror, Stored, StoredComplete, Quiet, Covered, Listed, Right
    <3>2. StoredSound'
      BY <1>1, <1>4 DEF Mirror, Stored, StoredSound, Quiet, Hangs, node_in_tree
    <3> QED
      BY <3>1, <3>2
  <2>3. Pending' = Pending
    BY <1>1, <1>4 DEF Pending
  <2>4. RunComplete'
    <3> SUFFICES ASSUME NEW n \in Nodes \ Pending, Quiet(n, run.cursor)', Covered(n, RootListed)'
                 PROVE  Right(n)'
      BY <2>3 DEF RunComplete
    <3>1. Quiet(n, run.cursor) /\ Covered(n, RootListed)
      BY <1>1, <1>3, <1>4 DEF Quiet, Covered, Listed
    <3>2. Right(n)
      BY <1>1, <3>1 DEF Mirror, InRun, RunComplete
    <3> QED
      BY <1>1, <1>4, <3>2 DEF Right
  <2>5. RunSound'
    <3> SUFFICES ASSUME ~skipped', NEW n \in Nodes \ Pending, Quiet(n, run.cursor)', stored'[n].tree
                 PROVE  stored'[n].parent = place'[n]
                        /\ (Hangs(n)' \/ stored'[n].parent \in (run.upserts \cap run.members)')
      BY <2>3 DEF RunSound
    <3>1. Quiet(n, run.cursor)
      BY <1>1 DEF Quiet
    <3>2. stored[n].parent = place[n] /\ (Hangs(n) \/ stored[n].parent \in run.upserts \cap run.members)
      BY <1>1, <1>4, <3>1 DEF Mirror, InRun, RunSound
    <3> QED
      BY <1>1, <1>4, <3>2 DEF Hangs, node_in_tree
  <2>6. PageChanged' /\ PageTells'
    BY <1>1, <1>4, <2>3 DEF Mirror, InRun, PageInv, PageChanged, PageTells, Quiet
  <2>7. PagePhases'
    BY <1>4 DEF PagePhases
  <2>8. PageMembers'
    BY <1>1, <1>4, <2>3 DEF Mirror, InRun, PageInv, PageMembers, node_in_tree
  <2> QED
    BY <1>2, <1>3, <2>1, <2>2, <2>4, <2>5, <2>6, <2>7, <2>8 DEF Mirror, Stored, InRun, PageInv
<1>5. CASE /\ run'.phase = "remove"
           /\ \E n \in run.removals :
                /\ \A m \in stored_subtree(n) : stored'[m] = [stored[m] EXCEPT !.tree = FALSE]
                /\ \A m \in Nodes \ stored_subtree(n) : stored'[m] = stored[m]
                /\ \A f \in Files \cap stored_subtree(n) :
                     \A g \in Generations : inbox'[f][g].state \notin Open
                /\ \A f \in Files \ stored_subtree(n) : inbox'[f] = inbox[f]
                /\ run'.removals = run.removals \ {n}
                /\ uncrawled' = StillUncrawled({})
                /\ orphans' = orphans \ stored_subtree(n)
  <2>0. PICK n \in run.removals :
          /\ \A m \in stored_subtree(n) : stored'[m] = [stored[m] EXCEPT !.tree = FALSE]
          /\ \A m \in Nodes \ stored_subtree(n) : stored'[m] = stored[m]
          /\ \A f \in Files \cap stored_subtree(n) :
               \A g \in Generations : inbox'[f][g].state \notin Open
          /\ \A f \in Files \ stored_subtree(n) : inbox'[f] = inbox[f]
          /\ run'.removals = run.removals \ {n}
          /\ uncrawled' = StillUncrawled({})
          /\ orphans' = orphans \ stored_subtree(n)
    BY <1>5
  <2> DEFINE sub == stored_subtree(n)
  <2>1. /\ \A m \in sub : stored'[m] = [stored[m] EXCEPT !.tree = FALSE]
        /\ \A m \in Nodes \ sub : stored'[m] = stored[m]
        /\ \A f \in Files \cap sub : \A g \in Generations : inbox'[f][g].state \notin Open
        /\ \A f \in Files \ sub : inbox'[f] = inbox[f]
        /\ run'.removals = run.removals \ {n}
        /\ uncrawled' = StillUncrawled({})
        /\ orphans' = orphans \ sub
    BY <2>0
  <2>2. stored \in [Nodes -> NodeRow] /\ n \in Nodes /\ run.removals \subseteq Nodes /\ run.upserts \subseteq Nodes
    BY DEF Ground, Types, StoreTypes, WorkerTypes, Run
  <2>3. \A m \in Nodes : StoredParents[m] = stored[m].parent
    BY DEF StoredParents
  <2>4. sub \subseteq Nodes /\ (sub = {} \/ n \in sub) /\ (stored[n].known => n \in sub)
    BY <2>2 DEF stored_subtree, Below
  \* The subtree is closed under stored children, and its nodes have their
  \* parents in it.
  <2>5. ASSUME NEW m \in Nodes, stored[m].parent \in sub \cap Folders
        PROVE  m \in sub
    <3>1. sub = {n} \cup Below(StoredParents, n)
      BY <2>5 DEF stored_subtree
    <3>2. StoredParents[m] = n \/ StoredParents[m] \in Folders \cap Below(StoredParents, n)
      BY <2>3, <2>5, <3>1
    <3>3. m \in Below(StoredParents, n)
      <4> HIDE DEF sub
      <4> QED
        BY <3>2, BelowStep
    <3> QED
      BY <3>1, <3>3
  <2>6. ASSUME NEW m \in sub, m # n
        PROVE  stored[m].parent \in sub
    <3>1. sub = {n} \cup Below(StoredParents, n)
      BY <2>6 DEF stored_subtree
    <3>2. m \in Below(StoredParents, n) /\ m \in Nodes
      BY <2>4, <2>6, <3>1
    <3>3. StoredParents[m] = n \/ StoredParents[m] \in Folders \cap Below(StoredParents, n)
      <4> HIDE DEF sub
      <4> QED
        BY <3>2, BelowParent
    <3> QED
      BY <2>3, <3>1, <3>2, <3>3
  <2> HIDE DEF sub
  <2>7. \A m \in sub : /\ stored'[m].tree = FALSE /\ stored'[m].known = stored[m].known
                       /\ stored'[m].parent = stored[m].parent
    <3>1. ASSUME NEW r \in NodeRow
          PROVE  /\ [r EXCEPT !.tree = FALSE].tree = FALSE /\ [r EXCEPT !.tree = FALSE].known = r.known
                 /\ [r EXCEPT !.tree = FALSE].parent = r.parent
      BY DEF NodeRow
    <3> SUFFICES ASSUME NEW m \in sub
                 PROVE  /\ stored'[m].tree = FALSE /\ stored'[m].known = stored[m].known
                        /\ stored'[m].parent = stored[m].parent
      OBVIOUS
    <3>2. stored[m] \in NodeRow
      BY <2>2, <2>4
    <3>3. stored'[m] = [stored[m] EXCEPT !.tree = FALSE]
      BY <2>1
    <3> QED
      BY <3>1, <3>2, <3>3
  <2>8. \A m \in Nodes : stored'[m].tree => m \notin sub /\ stored[m].tree /\ stored'[m] = stored[m]
    BY <2>1, <2>7
  <2>9. ~stored'[n].tree
    BY <2>2, <2>4, <2>8 DEF Mirror, Stored, TreeKnown
  <2>10. \A d \in Listed' : d \in Folders /\ d \in Listed /\ stored'[d].tree
    BY <2>1, <2>2, ListedAfter DEF Listed
  <2>11. Root \notin Nodes /\ Gone \notin Folders /\ Gone # Root
    BY PlaceAssumption DEF Nodes, Gone, Root
  \* A node that was right and lies in a folder listed still, or in the root, stays right.
  <2>12. ASSUME NEW m \in Nodes, m # n, Right(m), place[m] = Root \/ place[m] \in Listed'
         PROVE  Right(m)'
    <3>1. m \notin sub
      <4>1. SUFFICES ASSUME m \in sub PROVE FALSE
        OBVIOUS
      <4>2. place[m] \in sub
        BY <2>6, <2>12, <4>1 DEF Right
      <4> QED
        BY <2>4, <2>7, <2>10, <2>11, <2>12, <4>2
    <3> QED
      BY <1>1, <2>1, <2>12, <3>1 DEF Right
  <2>13. ASSUME NEW m \in Nodes, stored'[m].tree
         PROVE  /\ m # n /\ stored[m].tree /\ stored'[m].parent = stored[m].parent
                /\ Hangs(m) => Hangs(m)'
    <3>1. m # n /\ stored[m].tree /\ stored'[m] = stored[m] /\ m \notin sub
      BY <2>8, <2>9, <2>13
    <3>2. ASSUME node_in_tree(stored[m].parent)
          PROVE  node_in_tree(stored[m].parent)'
      <4>1. CASE stored[m].parent = Root
        BY <3>1, <4>1 DEF node_in_tree
      <4>2. CASE stored[m].parent \in Folders /\ stored[stored[m].parent].tree
        <5>1. stored[m].parent \notin sub /\ stored[m].parent \in Nodes
          BY <2>5, <3>1, <4>2 DEF Nodes
        <5>2. stored'[stored[m].parent] = stored[stored[m].parent]
          BY <2>1, <5>1
        <5> QED
          BY <3>1, <4>2, <5>2 DEF node_in_tree
      <4> QED
        BY <3>2, <4>1, <4>2 DEF node_in_tree
    <3>3. m \in orphans => m \in orphans'
      BY <2>1, <3>1
    <3> QED
      BY <3>1, <3>2, <3>3 DEF Hangs
  <2>14. TreeKnown'
    BY <2>8 DEF Mirror, Stored, TreeKnown
  <2>15. OpenInTree'
    <3> SUFFICES ASSUME NEW f \in Files, ~stored'[f].tree, NEW g \in Generations
                 PROVE  inbox'[f][g].state \notin Open
      BY DEF OpenInTree
    <3>1. CASE f \in sub
      BY <2>1, <3>1
    <3>2. CASE f \notin sub
      BY <2>1, <3>2 DEF Mirror, Stored, OpenInTree, Nodes
    <3> QED
      BY <3>1, <3>2
  <2>16. n \in Pending /\ (\A m \in Pending' : m \in Pending) /\ (\A m \in Nodes : m \notin Pending' => m \notin Pending \/ m = n)
    BY <1>1, <2>1 DEF Pending
  <2>17. ~Quiet(n, conn.cursor)
    BY <2>16 DEF Mirror, InRun, PageInv, PageChanged
  <2>18. StoredComplete'
    <3> SUFFICES ASSUME NEW m \in Nodes, Quiet(m, conn.cursor)', Covered(m, conn.scanned)'
                 PROVE  Right(m)'
      BY DEF StoredComplete
    <3>1. m # n /\ Quiet(m, conn.cursor) /\ Covered(m, conn.scanned) /\ (place[m] = Root \/ place[m] \in Listed')
      BY <1>1, <2>10, <2>17 DEF Quiet, Covered
    <3>2. Right(m)
      BY <3>1 DEF Mirror, Stored, StoredComplete
    <3> QED
      BY <2>12, <3>1, <3>2
  <2>19. StoredSound'
    <3> SUFFICES ASSUME ~skipped', NEW m \in Nodes, Quiet(m, conn.cursor)', stored'[m].tree
                 PROVE  stored'[m].parent = place'[m] /\ Hangs(m)'
      BY DEF StoredSound
    <3>1. Quiet(m, conn.cursor) /\ stored[m].tree
      BY <1>1, <2>13 DEF Quiet
    <3>2. stored[m].parent = place[m] /\ Hangs(m)
      BY <1>1, <3>1 DEF Mirror, Stored, StoredSound
    <3> QED
      BY <1>1, <2>13, <3>2
  <2>20. RunComplete'
    <3> SUFFICES ASSUME NEW m \in (Nodes \ Pending)', Quiet(m, run.cursor)', Covered(m, RootListed)'
                 PROVE  Right(m)'
      BY DEF RunComplete
    <3>1. m \in Nodes /\ Quiet(m, run.cursor) /\ Covered(m, RootListed) /\ (place[m] = Root \/ place[m] \in Listed')
      BY <1>1, <1>3, <2>10 DEF Quiet, Covered
    <3>2. CASE m = n
      <4>1. n \in run.removals \ run.upserts
        BY <1>1, <3>2 DEF Pending
      <4>2. place[n] = Gone
        BY <3>1, <3>2, <4>1 DEF Mirror, InRun, PageInv, PageTells
      <4> QED
        BY <2>10, <2>11, <3>1, <3>2, <4>2
    <3>3. CASE m # n
      <4>1. m \notin Pending
        BY <2>16, <3>1, <3>3
      <4>2. Right(m)
        BY <1>1, <3>1, <4>1 DEF Mirror, InRun, RunComplete
      <4> QED
        BY <2>12, <3>1, <3>3, <4>2
    <3> QED
      BY <3>2, <3>3
  <2>21. RunSound'
    <3> SUFFICES ASSUME ~skipped', NEW m \in (Nodes \ Pending)', Quiet(m, run.cursor)', stored'[m].tree
                 PROVE  stored'[m].parent = place'[m]
                        /\ (Hangs(m)' \/ stored'[m].parent \in (run.upserts \cap run.members)')
      BY DEF RunSound
    <3>1. m \in Nodes \ Pending /\ Quiet(m, run.cursor) /\ stored[m].tree
      BY <1>1, <2>13, <2>16 DEF Quiet
    <3>2. stored[m].parent = place[m] /\ (Hangs(m) \/ stored[m].parent \in run.upserts \cap run.members)
      BY <1>1, <3>1 DEF Mirror, InRun, RunSound
    <3> QED
      BY <1>1, <2>13, <3>2
  <2>22. PageChanged'
    BY <1>1, <2>16 DEF Mirror, InRun, PageInv, PageChanged, Quiet
  <2>23. PagePhases'
    BY <1>5 DEF PagePhases
  <2>24. PageTells'
    BY <1>1, <2>1 DEF Mirror, InRun, PageInv, PageTells, Quiet
  <2>25. PageMembers'
    <3>1. ASSUME NEW m \in run'.upserts, NEW p, p = run'.page[m].place
          PROVE  /\ (p = Root \/ (p \in Folders /\ stored'[p].tree)) /\ p \notin Pending' => m \in run'.members
                 /\ p \in run'.upserts => (m \in run'.members) = (p \in run'.members)
      <4>1. m \in run.upserts /\ p = run.page[m].place
        BY <1>1, <3>1
      <4>2. /\ node_in_tree(p) /\ p \notin Pending => m \in run.members
            /\ p \in run.upserts => (m \in run.members) = (p \in run.members)
        BY <4>1 DEF Mirror, InRun, PageInv, PageMembers
      <4>3. ASSUME p = Root \/ (p \in Folders /\ stored'[p].tree), p \notin Pending'
            PROVE  node_in_tree(p) /\ p \notin Pending
        <5>1. CASE p = Root
          BY <2>2, <2>11, <5>1 DEF node_in_tree, Pending
        <5>2. CASE p \in Folders /\ stored'[p].tree
          BY <2>8, <2>9, <2>16, <4>3, <5>2 DEF node_in_tree, Nodes
        <5> QED
          BY <4>3, <5>1, <5>2
      <4> QED
        BY <1>1, <4>2, <4>3
    <3>2. \A d \in run'.upserts \cap Folders : d \notin run'.members => d \in run'.removals \/ ~stored'[d].tree
      <4> SUFFICES ASSUME NEW d \in run.upserts \cap Folders, d \notin run.members, stored'[d].tree
                   PROVE  d \in run'.removals
        BY <1>1
      <4>1. d \in Nodes /\ d # n /\ stored[d].tree
        BY <2>2, <2>8, <2>9
      <4> QED
        BY <2>1, <4>1 DEF Mirror, InRun, PageInv, PageMembers
    <3> QED
      BY <3>1, <3>2 DEF PageMembers, node_in_tree
  <2> QED
    BY <1>2, <1>3, <2>14, <2>15, <2>18, <2>19, <2>20, <2>21, <2>22, <2>23, <2>24, <2>25
       DEF Mirror, Stored, InRun, PageInv
<1> QED
  BY <1>1, <1>4, <1>5

LEMMA UpsertMirror ==
  ASSUME Ground, Mirror, persist_upsert
  PROVE  Mirror'
<1>1. /\ UNCHANGED <<place, remoteGen, log, conn, skipped>>
      /\ run.phase = "upsert" /\ run'.phase = "upsert" /\ Running /\ run'.cursor = run.cursor
      /\ run'.removals = run.removals
  BY UpsertStep
<1>2. PICK n \in run.upserts :
        /\ stored'[n] = node(run.page[n].place, run.page[n].gen, n \in run.members)
        /\ \A m \in Nodes \ {n} : stored'[m] = stored[m]
        /\ n \in Files /\ n \notin run.members => \A g \in Generations : inbox'[n][g].state \notin Open
        /\ n \in Files /\ n \in run.members =>
             inbox'[n][run.page[n].gen].state \notin {"ABSENT", "REMOVED"}
        /\ \A f \in Files \ {n} : inbox'[f] = inbox[f]
        /\ run'.upserts = run.upserts \ {n}
        /\ \A m \in run'.upserts : run'.page[m] = run.page[m]
        /\ run'.upserts # {} => run'.members = run.members
        /\ uncrawled' = StillUncrawled({})
        /\ orphans' = IF orphaned(n) THEN orphans \cup {n} ELSE orphans \ {n}
  BY UpsertStep
<1> DEFINE p == run.page[n].place
<1>3. /\ stored \in [Nodes -> NodeRow] /\ run.upserts \subseteq Nodes /\ n \in Nodes
      /\ p \in Places
  <2>1. stored \in [Nodes -> NodeRow] /\ run.upserts \subseteq Nodes /\ run.upserts \subseteq DOMAIN run.page
        /\ run.page \in Pages
    BY DEF Ground, Types, StoreTypes, WorkerTypes, Run
  <2>2. run.page[n] \in PageState
    BY <2>1 DEF Pages
  <2> QED
    BY <2>1, <2>2 DEF PageState
<1>4. run.removals = {} /\ Pending = run.upserts /\ Pending' = run'.upserts /\ n \in Pending
      /\ RootListed /\ RootListed'
  BY <1>1 DEF Mirror, InRun, PageInv, PagePhases, Pending, RootListed
<1>5. /\ stored'[n].known /\ stored'[n].parent = p /\ stored'[n].gen = run.page[n].gen
      /\ stored'[n].tree = (n \in run.members)
  BY <1>2 DEF node
<1>6. ~Quiet(n, conn.cursor)
  BY <1>4 DEF Mirror, InRun, PageInv, PageChanged
<1>7. /\ node_in_tree(p) /\ p \notin Pending => n \in run.members
      /\ p \in run.upserts => (n \in run.members) = (p \in run.members)
  BY DEF Mirror, InRun, PageInv, PageMembers
<1>8. Quiet(n, run.cursor) => p = place[n] /\ run.page[n].gen = remoteGen[n]
  BY DEF Mirror, InRun, PageInv, PageTells
<1> HIDE DEF p
\* A folder that the removals left in the tree is a member of the page.
<1>9. \A d \in run.upserts \cap Folders : stored[d].tree => d \in run.members
  BY <1>4 DEF Mirror, InRun, PageInv, PageMembers
<1>10. \A d \in Folders : stored[d].tree => stored'[d].tree
  BY <1>2, <1>5, <1>9 DEF Nodes
<1>11. \A d \in Listed' : d \in Folders /\ d \in Listed /\ stored'[d].tree
  BY <1>2, <1>3, ListedAfter DEF Listed
<1>12. Root \notin Nodes /\ (\A m \in Nodes : m \in Places \cup {"none"} => m \in Folders)
  BY PlaceAssumption DEF Places, UnknownNode
<1>13. \A m \in Nodes \ {n} : Right(m) => Right(m)'
  BY <1>1, <1>2 DEF Right
<1>14. \A m \in Nodes \ {n} : Hangs(m) => Hangs(m)'
  BY <1>2, <1>10 DEF Hangs, node_in_tree
<1>15. Remotely'
  BY <1>1 DEF Mirror, Remotely, Acyclic, LogTells
<1>16. TreeKnown'
  BY <1>2, <1>5 DEF Mirror, Stored, TreeKnown
<1>17. OpenInTree'
  <2> SUFFICES ASSUME NEW f \in Files, ~stored'[f].tree, NEW g \in Generations
               PROVE  inbox'[f][g].state \notin Open
    BY DEF OpenInTree
  <2>1. CASE f = n
    BY <1>2, <1>5, <2>1
  <2>2. CASE f # n
    BY <1>2, <2>2 DEF Mirror, Stored, OpenInTree, Nodes
  <2> QED
    BY <2>1, <2>2
<1>18. StoredComplete'
  <2> SUFFICES ASSUME NEW m \in Nodes, Quiet(m, conn.cursor)', Covered(m, conn.scanned)'
               PROVE  Right(m)'
    BY DEF StoredComplete
  <2>1. m # n /\ Quiet(m, conn.cursor) /\ Covered(m, conn.scanned)
    BY <1>1, <1>6, <1>11 DEF Quiet, Covered
  <2>2. Right(m)
    BY <2>1 DEF Mirror, Stored, StoredComplete
  <2> QED
    BY <1>13, <2>1, <2>2
<1>19. StoredSound'
  <2> SUFFICES ASSUME ~skipped', NEW m \in Nodes, Quiet(m, conn.cursor)', stored'[m].tree
               PROVE  stored'[m].parent = place'[m] /\ Hangs(m)'
    BY DEF StoredSound
  <2>1. m # n /\ Quiet(m, conn.cursor) /\ stored'[m] = stored[m]
    BY <1>1, <1>2, <1>6 DEF Quiet
  <2>2. stored[m].parent = place[m] /\ Hangs(m)
    BY <1>1, <2>1 DEF Mirror, Stored, StoredSound
  <2> QED
    BY <1>1, <1>14, <2>1, <2>2
<1>20. RunComplete'
  <2> SUFFICES ASSUME NEW m \in (Nodes \ Pending)', Quiet(m, run.cursor)', Covered(m, RootListed)'
               PROVE  Right(m)'
    BY DEF RunComplete
  <2>1. m \in Nodes /\ Quiet(m, run.cursor) /\ (place[m] = Root \/ place[m] \in Listed')
    BY <1>1 DEF Quiet, Covered
  <2>2. CASE m # n
    <3>1. m \notin Pending /\ Covered(m, RootListed)
      BY <1>2, <1>4, <1>11, <2>1, <2>2 DEF Covered
    <3>2. Right(m)
      BY <1>1, <2>1, <3>1 DEF Mirror, InRun, RunComplete
    <3> QED
      BY <1>13, <2>1, <2>2, <3>2
  <2>3. CASE m = n
    <3>1. p = place[n] /\ run.page[n].gen = remoteGen[n]
      BY <1>8, <2>1, <2>3
    <3>2. n \in run.members
      <4>1. CASE p = Root
        BY <1>3, <1>4, <1>7, <1>12, <4>1 DEF node_in_tree
      <4>2. CASE p \in Listed' /\ p = n
        BY <1>5, <1>11, <4>2
      <4>3. CASE p \in Listed' /\ p # n
        <5>1. p \in Folders /\ stored[p].tree
          BY <1>11, <4>3 DEF Listed
        <5> QED
          BY <1>4, <1>7, <1>9, <5>1 DEF node_in_tree
      <4> QED
        BY <2>1, <2>3, <3>1, <4>1, <4>2, <4>3
    <3> QED
      BY <1>1, <1>2, <1>5, <2>3, <3>1, <3>2 DEF Right
  <2> QED
    BY <2>2, <2>3
<1>21. RunSound'
  <2> SUFFICES ASSUME ~skipped', NEW m \in (Nodes \ Pending)', Quiet(m, run.cursor)', stored'[m].tree
               PROVE  stored'[m].parent = place'[m]
                      /\ (Hangs(m)' \/ stored'[m].parent \in (run.upserts \cap run.members)')
    BY DEF RunSound
  <2>1. m \in Nodes /\ Quiet(m, run.cursor)
    BY <1>1 DEF Quiet
  <2>2. \A q \in run.upserts \cap run.members : q # n => q \in run'.upserts \cap run'.members
    BY <1>2
  <2>3. ASSUME n \in run.members, n \in Places \cup {"none"}
        PROVE  n \in Folders /\ stored'[n].tree
    BY <1>3, <1>5, <1>12, <2>3
  <2>4. CASE m # n
    <3>1. m \notin Pending /\ stored'[m] = stored[m]
      BY <1>2, <1>4, <2>1, <2>4
    <3>2. stored[m].parent = place[m] /\ (Hangs(m) \/ stored[m].parent \in run.upserts \cap run.members)
      BY <1>1, <2>1, <3>1 DEF Mirror, InRun, RunSound
    <3>3. stored[m].parent \in Places \cup {"none"}
      BY <1>3, <2>1 DEF NodeRow
    <3>4. CASE stored[m].parent = n /\ n \in run.members
      BY <1>1, <2>3, <3>1, <3>2, <3>3, <3>4 DEF Hangs, node_in_tree
    <3> QED
      BY <1>1, <1>14, <2>1, <2>2, <2>4, <3>1, <3>2, <3>4
  <2>5. CASE m = n
    <3>1. n \in run.members /\ p = place[n]
      BY <1>5, <1>8, <2>1, <2>5
    <3>2. CASE orphaned(n)
      BY <1>1, <1>2, <1>5, <2>5, <3>1, <3>2 DEF Hangs
    <3>3. CASE node_in_tree(p)
      <4>1. p = Root \/ (p \in Folders /\ stored'[p].tree)
        BY <1>10, <3>3 DEF node_in_tree
      <4> QED
        BY <1>1, <1>5, <2>5, <3>1, <4>1 DEF Hangs, node_in_tree
    <3>4. CASE p \in run.upserts /\ p = n
      BY <1>1, <1>3, <1>5, <2>3, <2>5, <3>1, <3>4 DEF Hangs, node_in_tree
    <3>5. CASE p \in run.upserts /\ p # n
      BY <1>1, <1>5, <1>7, <2>2, <2>5, <3>1, <3>5
    <3> QED
      BY <3>1, <3>2, <3>3, <3>4, <3>5 DEF orphaned, p
  <2> QED
    BY <2>4, <2>5
<1>22. CrawlInTree' /\ PageChanged' /\ PagePhases'
  BY <1>1, <1>2, <1>4 DEF CrawlInTree, Mirror, InRun, PageInv, PageChanged, PagePhases, Quiet
<1>23. PageTells'
  BY <1>1, <1>2, <1>4 DEF Mirror, InRun, PageInv, PageTells, Quiet
<1>24. PageMembers'
  <2>1. ASSUME NEW m \in run'.upserts, NEW q, q = run'.page[m].place
        PROVE  /\ (q = Root \/ (q \in Folders /\ stored'[q].tree)) /\ q \notin Pending' => m \in run'.members
               /\ q \in run'.upserts => (m \in run'.members) = (q \in run'.members)
    <3>1. m \in run.upserts /\ q = run.page[m].place /\ run'.members = run.members
      BY <1>2, <2>1
    <3>2. /\ node_in_tree(q) /\ q \notin Pending => m \in run.members
          /\ q \in run.upserts => (m \in run.members) = (q \in run.members)
      BY <3>1 DEF Mirror, InRun, PageInv, PageMembers
    <3>3. CASE q = n
      BY <1>2, <1>3, <1>5, <1>12, <3>1, <3>2, <3>3
    <3>4. CASE q # n
      BY <1>2, <1>4, <3>1, <3>2, <3>4 DEF node_in_tree, Nodes
    <3> QED
      BY <3>3, <3>4
  <2>2. \A d \in run'.upserts \cap Folders : d \notin run'.members => d \in run'.removals \/ ~stored'[d].tree
    BY <1>2, <1>3, <1>9
  <2> QED
    BY <2>1, <2>2 DEF PageMembers, node_in_tree
<1> QED
  BY <1>15, <1>16, <1>17, <1>18, <1>19, <1>20, <1>21, <1>22, <1>23, <1>24
     DEF Mirror, Stored, InRun, PageInv

-----------------------------------------------------------------------------
(* A page, or the run, ends *)

LEMMA NextPageMirror ==
  ASSUME Ground, Mirror, next_page
  PROVE  Mirror'
<1>1. /\ UNCHANGED <<place, remoteGen, log, conn, stored, inbox, uncrawled, orphans, skipped>>
      /\ run.phase = "upsert" /\ run.upserts = {} /\ Running /\ run'.cursor = run.cursor
      /\ run'.phase = "list" /\ run'.removals = run.removals /\ run'.upserts = run.upserts
  BY NextPageStep
<1>2. Pending = {} /\ Pending' = {} /\ run'.upserts = {} /\ run'.removals = {} /\ RootListed
  BY <1>1 DEF Mirror, InRun, PageInv, PagePhases, Pending, RootListed
<1>3. Remotely'
  BY <1>1 DEF Mirror, Remotely, Acyclic, LogTells
<1>4. TreeKnown' /\ OpenInTree'
  BY <1>1 DEF Mirror, Stored, TreeKnown, OpenInTree
<1>5. StoredComplete'
  BY <1>1 DEF Mirror, Stored, StoredComplete, Quiet, Covered, Listed, Right
<1>6. StoredSound'
  BY <1>1 DEF Mirror, Stored, StoredSound, Quiet, Hangs, node_in_tree
<1>7. RunComplete'
  <2> SUFFICES ASSUME NEW n \in Nodes, Quiet(n, run.cursor)', Covered(n, RootListed)'
               PROVE  Right(n)'
    BY DEF RunComplete
  <2>1. Quiet(n, run.cursor) /\ Covered(n, RootListed)
    BY <1>1, <1>2 DEF Quiet, Covered, Listed
  <2>2. Right(n)
    BY <1>1, <1>2, <2>1 DEF Mirror, InRun, RunComplete
  <2> QED
    BY <1>1, <2>2 DEF Right
<1>8. RunSound'
  <2> SUFFICES ASSUME ~skipped', NEW n \in Nodes, Quiet(n, run.cursor)', stored'[n].tree
               PROVE  stored'[n].parent = place'[n] /\ Hangs(n)'
    BY DEF RunSound
  <2>1. Quiet(n, run.cursor)
    BY <1>1 DEF Quiet
  <2>2. stored[n].parent = place[n] /\ Hangs(n)
    BY <1>1, <1>2, <2>1 DEF Mirror, InRun, RunSound
  <2> QED
    BY <1>1, <2>2 DEF Hangs, node_in_tree
<1>9. CrawlInTree'
  BY <1>1 DEF CrawlInTree
<1>10. PageInv'
  BY <1>2 DEF PageInv, PageChanged, PagePhases, PageTells, PageMembers
<1> QED
  BY <1>3, <1>4, <1>5, <1>6, <1>7, <1>8, <1>9, <1>10 DEF Mirror, Stored, InRun

\* Publishing the cursor turns what holds up to the run's cursor into what holds
\* up to the published one.
LEMMA CompleteMirror ==
  ASSUME Ground, Mirror, complete_run
  PROVE  Mirror'
<1>1. /\ run' = NoRun
      /\ UNCHANGED <<place, remoteGen, log, stored, inbox, uncrawled, orphans, skipped>>
      /\ run.phase = "upsert" /\ run.upserts = {} /\ Running
      /\ conn' = conn \/ conn'.cursor = run.cursor
  BY CompleteStep
<1>2. CASE conn' = conn
  BY <1>1, <1>2, MirrorFrame
<1>3. CASE conn'.cursor = run.cursor
  <2>1. Pending = {} /\ RootListed
    BY <1>1 DEF Mirror, InRun, PageInv, PagePhases, Pending, RootListed
  <2>2. Remotely'
    BY <1>1 DEF Mirror, Remotely, Acyclic, LogTells
  <2>3. TreeKnown' /\ OpenInTree'
    BY <1>1 DEF Mirror, Stored, TreeKnown, OpenInTree
  <2>4. StoredComplete'
    <3> SUFFICES ASSUME NEW n \in Nodes, Quiet(n, conn.cursor)', Covered(n, conn.scanned)'
                 PROVE  Right(n)'
      BY DEF StoredComplete
    <3>1. Quiet(n, run.cursor) /\ Covered(n, RootListed)
      BY <1>1, <1>3, <2>1 DEF Quiet, Covered, Listed
    <3>2. Right(n)
      BY <1>1, <2>1, <3>1 DEF Mirror, InRun, RunComplete
    <3> QED
      BY <1>1, <3>2 DEF Right
  <2>5. StoredSound'
    <3> SUFFICES ASSUME ~skipped', NEW n \in Nodes, Quiet(n, conn.cursor)', stored'[n].tree
                 PROVE  stored'[n].parent = place'[n] /\ Hangs(n)'
      BY DEF StoredSound
    <3>1. Quiet(n, run.cursor)
      BY <1>1, <1>3 DEF Quiet
    <3>2. stored[n].parent = place[n] /\ Hangs(n)
      BY <1>1, <2>1, <3>1 DEF Mirror, InRun, RunSound
    <3> QED
      BY <1>1, <3>2 DEF Hangs, node_in_tree
  <2> QED
    BY <1>1, <2>2, <2>3, <2>4, <2>5, NothingRunsNext DEF Mirror, Stored
<1> QED
  BY <1>1, <1>2, <1>3

-----------------------------------------------------------------------------
(* Every step *)

LEMMA RemoteSteps ==
  ASSUME Ground, Mirror, Remote
  PROVE  Ground' /\ Mirror'
<1>1. place \in [Nodes -> Places] /\ remoteGen \in [Nodes -> Generations]
  BY DEF Ground, Types, RemoteTypes
<1>2. CASE \E n \in Nodes, p \in Places : RemoteMove(n, p)
  <2>1. PICK n \in Nodes, p \in Places : RemoteMove(n, p)
    BY <1>2
  <2>2. remoteGen[n] \in Generations
    BY <1>1
  <2> QED
    BY <2>1, <2>2, RemoteGround, RemoteMirror DEF RemoteMove
<1>3. CASE \E f \in Files : RemoteEdit(f)
  <2>1. PICK f \in Files : RemoteEdit(f)
    BY <1>3
  <2>2. f \in Nodes /\ place[f] \in Places /\ remoteGen[f] + 1 \in Generations
    BY <1>1, <2>1, StoreAssumption DEF RemoteEdit, Nodes, Generations
  <2>3. RemoteChange(f, place[f], remoteGen[f] + 1)
    BY <2>1 DEF RemoteEdit
  <2>4. Ground'
    BY <2>2, <2>3, RemoteGround
  <2>5. Mirror'
    BY <2>2, <2>3, RemoteMirror
  <2> QED
    BY <2>4, <2>5
<1>4. CASE CursorsExpire
  <2>1. UNCHANGED <<place, remoteGen, log, stored, inbox, uncrawled, orphans, skipped, conn, run>>
    BY <1>4 DEF CursorsExpire, db, history
  <2> QED
    BY <1>4, <2>1, CursorsExpireGround, MirrorFrame
<1> QED
  BY <1>2, <1>3, <1>4 DEF Remote

LEMMA UserSteps ==
  ASSUME Ground, Mirror, User
  PROVE  Ground' /\ Mirror'
<1>1. conn \in Connection
  BY DEF Ground, Types, StoreTypes
<1>2. CASE google_drive_connect
  <2>1. UNCHANGED <<place, remoteGen, log, stored, inbox, uncrawled, orphans, skipped, run>>
    BY <1>2 DEF google_drive_connect, remote, history
  <2>2. conn'.cursor = conn.cursor /\ (conn'.scanned => conn.scanned)
    <3>1. CASE conn.status = "NONE" /\ conn' = begin_connection(conn)
      <4>1. conn.cursor = 0
        BY <3>1 DEF Ground, Fenced
      <4> QED
        BY <1>1, <3>1, <4>1, ConnectionResults
    <3>2. CASE conn' = mark_authorized(conn)
      BY <1>1, <3>2, ConnectionResults
    <3> QED
      BY <1>2, <3>1, <3>2 DEF google_drive_connect
  <2> QED
    BY <1>2, <2>1, <2>2, ConnectGround, MirrorFrame
<1>3. CASE google_drive_folder_bind
  <2>1. UNCHANGED <<place, remoteGen, log, stored, inbox, uncrawled, orphans, skipped, run>>
    BY <1>3 DEF google_drive_folder_bind, remote, history
  <2> QED
    BY <1>3, <2>1, BindGround, MirrorFrame
<1>4. CASE \E enabled \in BOOLEAN : google_drive_schedule_update(enabled)
  <2>1. UNCHANGED <<place, remoteGen, log, stored, inbox, uncrawled, orphans, skipped, run, conn>>
    BY <1>4 DEF google_drive_schedule_update, remote, history
  <2> QED
    BY <1>4, <2>1, ScheduleUpdateGround, MirrorFrame
<1>5. CASE google_drive_disconnect
  <2>1. UNCHANGED <<place, remoteGen, log, stored, inbox, uncrawled, orphans, skipped, run>>
    BY <1>5 DEF google_drive_disconnect, remote, history
  <2>2. conn'.cursor = conn.cursor /\ conn'.scanned = conn.scanned
    BY <1>1, <1>5, ConnectionResults DEF google_drive_disconnect
  <2> QED
    BY <1>5, <2>1, <2>2, DisconnectGround, MirrorFrame
<1>6. CASE start_google_drive_sync
  <2>1. UNCHANGED <<place, remoteGen, log, stored, inbox, uncrawled, orphans, skipped, run, conn>>
    BY <1>6 DEF start_google_drive_sync, remote, history
  <2> QED
    BY <1>6, <2>1, StartSyncGround, MirrorFrame
<1> QED
  BY <1>2, <1>3, <1>4, <1>5, <1>6 DEF User

\* A run that fails, for whatever reason, leaves the rows to the next one.
LEMMA FailedRunSteps ==
  ASSUME Ground, Mirror, run_fails \/ drain_cursor_expired
  PROVE  Ground' /\ Mirror'
<1>1. /\ fail_active_sync /\ UNCHANGED <<place, remoteGen, log, stored, inbox>>
      /\ run.phase # "none"
  BY DEF run_fails, drain_cursor_expired, remote
<1>2. Ground' /\ run' = NoRun /\ UNCHANGED <<conn, uncrawled, orphans, skipped>>
  BY <1>1, PhaseRunning, FailActiveGround
<1> QED
  BY <1>1, <1>2, MirrorFrame

LEMMA SyncSteps ==
  ASSUME Ground, Mirror, Sync
  PROVE  Ground' /\ Mirror'
<1>1. CASE run_worker
  <2>1. UNCHANGED <<place, remoteGen, log, stored, inbox, uncrawled, orphans, skipped, run, conn>>
    BY <1>1 DEF run_worker, remote, history
  <2> QED
    BY <1>1, <2>1, RunWorkerGround, MirrorFrame
<1>2. CASE \E w \in Workers : finish_claimed_error(w)
  <2>1. UNCHANGED <<place, remoteGen, log, stored, inbox, uncrawled, orphans, skipped, run>>
    BY <1>2 DEF finish_claimed_error, remote, history
  <2> QED
    BY <1>2, <2>1, FailedClaimGround, MirrorFrame
<1>3. CASE \E w \in Workers : enter_run(w)
  BY <1>3, EnterGround, EnterMirror
<1>4. CASE run_fails \/ drain_cursor_expired
  BY <1>4, FailedRunSteps
<1>5. CASE persist_crawl_page
  BY <1>5, CrawlStep, CrawlMirror
<1>6. CASE list_changes
  BY <1>6, ListStep, ListMirror
<1>7. CASE persist_removal
  BY <1>7, RemovalStep, RemovalMirror
<1>8. CASE persist_upsert
  BY <1>8, UpsertStep, UpsertMirror
<1>9. CASE next_page
  BY <1>9, NextPageStep, NextPageMirror
<1>10. CASE require_full_reconciliation
  BY <1>10, ReconcileStep, ReconcileMirror
<1>11. CASE complete_run
  BY <1>11, CompleteStep, CompleteMirror
<1>12. CASE restore_disabled
  <2>1. UNCHANGED <<place, remoteGen, log, stored, inbox, uncrawled, orphans, skipped, run, conn>>
    BY <1>12 DEF restore_disabled, remote, history
  <2> QED
    BY <1>12, <2>1, RestoreGround, MirrorFrame
<1> QED
  BY <1>1, <1>2, <1>3, <1>4, <1>5, <1>6, <1>7, <1>8, <1>9, <1>10, <1>11, <1>12 DEF Sync

LEMMA TimeSteps ==
  ASSUME Ground, Mirror, LeaseExpires \/ Crash
  PROVE  Ground' /\ Mirror'
<1>1. CASE LeaseExpires
  <2>1. UNCHANGED <<place, remoteGen, log, stored, inbox, uncrawled, orphans, skipped, run, conn>>
    BY <1>1 DEF LeaseExpires, remote, history
  <2> QED
    BY <1>1, <2>1, ExpiryGround, MirrorFrame
<1>2. CASE Crash
  <2>1. UNCHANGED <<place, remoteGen, log, stored, inbox, uncrawled, orphans, skipped, conn>> /\ run' = NoRun
    BY <1>2 DEF Crash, remote, db, history
  <2> QED
    BY <1>2, <2>1, CrashGround, MirrorFrame
<1> QED
  BY <1>1, <1>2

LEMMA StutteringSteps ==
  ASSUME Ground, Mirror, UNCHANGED vars
  PROVE  Ground' /\ Mirror'
<1>1. UNCHANGED <<place, remoteGen, log, stored, inbox, uncrawled, orphans, skipped, run, conn, sched, worker>>
  BY DEF vars
<1>2. Mirror'
  BY <1>1, MirrorFrame
<1>3. Ground'
  <2>1. conn \in Connection /\ sched \in Schedule
    BY DEF Ground, Types, StoreTypes
  <2> QED
    BY <1>1, <2>1, CommandGround DEF Early
<1> QED
  BY <1>2, <1>3

LEMMA Invariant == Spec => [](Ground /\ Mirror)
<1>1. Init => Ground /\ Mirror
  BY GroundInit, MirrorInit
<1>2. ASSUME Ground /\ Mirror, [Next]_vars
      PROVE  Ground' /\ Mirror'
  BY <1>2, RemoteSteps, UserSteps, SyncSteps, TimeSteps, StutteringSteps DEF Next
<1> QED
  BY <1>1, <1>2, PTL DEF Spec

-----------------------------------------------------------------------------
(* What it amounts to *)

\* Every row and program counter is one the tables and the code can hold, and a
\* run inside the mutex belongs to the worker that entered it: whatever the
\* remote tree does, whoever claims, and however a run ends.
THEOREM DriveTypes == Spec => []TypeOK
<1>1. Ground => TypeOK
  <2> SUFFICES ASSUME Ground PROVE TypeOK
    OBVIOUS
  <2>1. place \in [Nodes -> Places] /\ remoteGen \in [Nodes -> Generations]
    BY DEF Ground, Types, RemoteTypes
  <2>2. \A i \in 1..Len(log) : log[i] \in [node: Nodes, place: Places, gen: Generations]
    <3>1. log \in Seq(Change)
      BY DEF Ground, Types, RemoteTypes
    <3>2. \A i \in 1..Len(log) : log[i] \in Change
      BY <3>1
    <3> QED
      BY <3>2 DEF Change
  <2>3. conn.cursor \in 0..Len(log)
    BY DEF Ground, Types, RemoteTypes, StoreTypes, Connection
  <2>4. stored \in [Nodes -> [known: BOOLEAN, parent: Places \cup {"none"}, gen: Generations, tree: BOOLEAN]]
    BY DEF Ground, Types, StoreTypes, NodeRow
  <2>5. ASSUME NEW f \in Files, NEW g \in Generations
        PROVE  inbox[f][g].state \in {"ABSENT", "DISCOVERED", "REMOVED"}
    <3>1. inbox[f][g] \in ItemRow
      BY DEF Ground, Types, StoreTypes
    <3> QED
      BY <3>1 DEF ItemRow
  <2>6. \A w \in Workers : (worker[w].pc = "running") = (run.by = w)
    BY DEF Ground, Types, WorkerTypes
  <2> QED
    BY <2>1, <2>2, <2>3, <2>4, <2>5, <2>6 DEF TypeOK
<1> QED
  BY <1>1, Invariant, PTL

\* A published cursor covers every change before it: at the end of the log each
\* file of the remote tree, unless it lies below a folder nobody listed, is stored
\* in the tree with its generation and offered for review.  The folders listed,
\* with what lies below the ones that were not, are closed under the remote tree.
THEOREM NothingMissedAlways == Spec => []NothingMissed
<1>1. Ground /\ Mirror => NothingMissed
  <2> SUFFICES ASSUME Ground, Mirror, Settled, NEW f \in Files, RemotelyInTree(f),
                      \A d \in uncrawled : f \notin Below(place, d)
               PROVE  Right(f)
    BY DEF NothingMissed, Right
  <2>1. \A n \in Nodes : place[n] = Root \/ place[n] \in Listed => Right(n)
    <3>1. \A n \in Nodes : Quiet(n, conn.cursor)
      BY DEF Settled, Quiet
    <3> QED
      BY <3>1 DEF Settled, Covered, Mirror, Stored, StoredComplete
  <2> DEFINE hidden(n) == \E u \in uncrawled : n = u \/ n \in Below(place, u)
             S == {d \in Folders : d \in Listed \/ hidden(d)}
  <2>2. ASSUME NEW d \in Folders, place[d] \in S \cup {Root}
        PROVE  d \in S
    <3>1. CASE place[d] = Root \/ place[d] \in Listed
      BY <2>1, <3>1 DEF Right, Listed, Nodes
    <3>2. CASE place[d] \in Folders /\ hidden(place[d])
      <4>1. PICK u \in uncrawled : place[d] = u \/ place[d] \in Below(place, u)
        BY <3>2
      <4>2. d \in Below(place, u)
        BY <3>2, <4>1, BelowStep DEF Nodes
      <4> QED
        BY <4>2
    <3> QED
      BY <2>2, <3>1, <3>2
  <2>3. place[f] \in S \cup {Root}
    <3>1. S \in SUBSET Folders /\ f \in Below(place, Root)
      BY DEF RemotelyInTree
    <3> HIDE DEF S
    <3> QED
      BY <2>2, <3>1, BelowLeast
  <2>4. ~(place[f] \in Folders /\ hidden(place[f]))
    <3> SUFFICES ASSUME place[f] \in Folders, NEW u \in uncrawled,
                        place[f] = u \/ place[f] \in Below(place, u)
                 PROVE  FALSE
      OBVIOUS
    <3>1. f \in Below(place, u)
      BY BelowStep DEF Nodes
    <3> QED
      BY <3>1
  <2>5. place[f] = Root \/ place[f] \in Listed
    BY <2>3, <2>4
  <2> QED
    BY <2>1, <2>5 DEF Nodes
<1> QED
  BY <1>1, Invariant, PTL

\* Nothing that left the remote tree stays in the stored one, or on offer, at the
\* end of the log.  A ghost hangs from a folder of the stored tree that is a ghost
\* too; the remote tree has no folder below itself, so there is none.
THEOREM NoGhostsAlways == Spec => []NoGhosts
<1>1. Ground /\ Mirror => NoGhosts
  <2> SUFFICES ASSUME Ground, Mirror, Settled, ~skipped, NEW f \in Files, ~RemotelyInTree(f),
                      \A n \in orphans : f # n /\ f \notin Below(StoredParents, n)
               PROVE  ~stored[f].tree
    BY DEF NoGhosts, Mirror, Stored, OpenInTree
  <2> DEFINE ghost(m) == /\ stored[m].tree /\ m \notin Below(place, Root)
                         /\ \A n \in orphans : m # n /\ m \notin Below(StoredParents, n)
             U == {d \in Folders : ghost(d)}
  <2>1. ASSUME NEW m \in Nodes, ghost(m)
        PROVE  place[m] \in U
    <3>1. Quiet(m, conn.cursor)
      BY DEF Settled, Quiet
    <3>2. stored[m].parent = place[m] /\ node_in_tree(place[m])
      BY <2>1, <3>1 DEF Mirror, Stored, StoredSound, Hangs
    <3>3. place[m] # Root
      BY <2>1, BelowStep
    <3>4. place[m] \in Folders /\ stored[place[m]].tree
      BY <3>2, <3>3 DEF node_in_tree
    <3>5. place[m] \notin Below(place, Root)
      BY <2>1, <3>4, BelowStep
    <3>6. ASSUME NEW n \in orphans
          PROVE  place[m] # n /\ place[m] \notin Below(StoredParents, n)
      <4>1. StoredParents[m] = place[m]
        BY <3>2 DEF StoredParents
      <4>2. m \notin Below(StoredParents, n)
        BY <2>1
      <4> QED
        BY <3>4, <4>1, <4>2, BelowStep
    <3> QED
      BY <3>4, <3>5, <3>6
  <2>2. U = {}
    <3>1. U \in SUBSET Folders /\ \A d \in U : place[d] \in U
      BY <2>1 DEF Nodes
    <3> HIDE DEF U
    <3> QED
      BY <3>1 DEF Mirror, Remotely, Acyclic
  <2>3. ~ghost(f)
    <3> HIDE DEF U
    <3> QED
      BY <2>1, <2>2 DEF Nodes
  <2> QED
    BY <2>3 DEF RemotelyInTree
<1> QED
  BY <1>1, Invariant, PTL
=============================================================================
