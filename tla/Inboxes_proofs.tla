---------------------------- MODULE Inboxes_proofs ----------------------------
(*****************************************************************************)
(* Proofs about the inboxes of MCInboxes: receiving family artifacts for     *)
(* any number of publications, any page size of the relay and any number     *)
(* of faults, the Google Drive inbox for any number of generations,          *)
(* attempts, remote changes and faults, watched folders for any finite       *)
(* set of generations, and the three inboxes together.                       *)
(*****************************************************************************)
EXTENDS MCInboxes, Numbers_proofs, FiniteSetTheorems

\* What the proofs ask of the constants.
Setting == MaxPublications \in Nat /\ PublicationPage \in Nat \ {0}

-----------------------------------------------------------------------------
(* Least and greatest numbers *)

LEMMA MaxIsGreatest ==
  ASSUME NEW n \in Nat, NEW S \in SUBSET (0..n), S # {}
  PROVE  Max(S) \in S /\ \A y \in S : y <= Max(S)
<1>1. \E x \in S : \A y \in S : x >= y
  BY GreatestNumber
<1>2. Max(S) \in S /\ \A y \in S : Max(S) >= y
  BY <1>1 DEF Max
<1> QED
  BY <1>2

-----------------------------------------------------------------------------
(* The relay's pages *)

LEMMA PageOf ==
  ASSUME Setting, numbered \in 0..MaxPublications, NEW after \in 0..numbered
  PROVE  /\ PublicationsAfter(after) \subseteq Publications
         /\ NextCursor(after) \in 0..numbered
         /\ \A p \in Publications \ ours :
              after < p /\ p <= NextCursor(after) => p \in PublicationsAfter(after)
<1> DEFINE M == Matching(after)
           P == PublicationsAfter(after)
           Below(p) == {q \in M : q < p}
<1>1. numbered \in Nat /\ after \in Nat /\ M \subseteq 1..numbered /\ P \subseteq M
  BY DEF Setting, Matching, PublicationsAfter
<1>2. P = {p \in M : Cardinality(Below(p)) < PublicationPage}
  BY DEF PublicationsAfter
<1>3. IsFiniteSet(M)
  <2>1. IsFiniteSet(1..numbered)
    BY <1>1, FS_Interval
  <2> QED
    BY <1>1, <2>1, FS_Subset
<1>4. \A p \in M : \A q \in M : p <= q =>
        /\ Cardinality(Below(p)) \in Nat /\ Cardinality(Below(q)) \in Nat
        /\ Cardinality(Below(p)) <= Cardinality(Below(q))
  <2> SUFFICES ASSUME NEW p \in M, NEW q \in M, p <= q
               PROVE  /\ Cardinality(Below(p)) \in Nat /\ Cardinality(Below(q)) \in Nat
                      /\ Cardinality(Below(p)) <= Cardinality(Below(q))
    OBVIOUS
  <2>1. Below(p) \in SUBSET Below(q) /\ Below(q) \in SUBSET M
    BY <1>1
  <2> HIDE DEF Below, M
  <2>2. IsFiniteSet(Below(q)) /\ IsFiniteSet(Below(p))
    BY <1>3, <2>1, FS_Subset
  <2> QED
    BY <2>1, <2>2, FS_Subset, FS_CardinalityType
\* The page is a prefix of what matches.
<1>5. ASSUME NEW p \in P, NEW q \in M, q <= p
      PROVE  q \in P
  <2> HIDE DEF Below
  <2> QED
    BY <1>1, <1>2, <1>4, <1>5 DEF Setting
<1>6. P # M => Cardinality(P) = PublicationPage
  <2> SUFFICES ASSUME P # M
               PROVE  Cardinality(P) = PublicationPage
    OBVIOUS
  <2> HIDE DEF M, P
  <2>1. PICK first \in M \ P : \A q \in M \ P : first <= q
    <3>1. M \ P # {}
      BY <1>1
    <3>2. M \ P \in SUBSET Nat
      BY <1>1
    <3> QED
      BY <3>1, <3>2, LeastNumber
  <2>2. P = Below(first)
    <3>1. \A q \in M : q < first => q \in P
      BY <1>1, <2>1
    <3>2. \A q \in P : q < first
      BY <1>1, <1>5, <2>1
    <3> QED
      BY <1>1, <3>1, <3>2
  <2>3. Cardinality(P) >= PublicationPage /\ Cardinality(P) \in Nat
    <3>1. Cardinality(Below(first)) \in Nat
      BY <1>1, <1>4, <2>1
    <3>2. ~(Cardinality(Below(first)) < PublicationPage)
      BY <1>2, <2>1
    <3> QED
      BY <2>2, <3>1, <3>2 DEF Setting
  <2>4. P \in SUBSET (0..numbered) /\ P # {}
    <3>1. P # {}
      BY <2>3, FS_EmptySet DEF Setting
    <3> QED
      BY <1>1, <3>1
  <2>5. PICK last \in P : \A q \in P : q <= last
    BY <1>1, <2>4, GreatestNumber
  <2>6. Cardinality(P) = Cardinality(Below(last)) + 1
    <3>1. P = Below(last) \cup {last} /\ last \notin Below(last)
      <4>1. \A q \in P : q = last \/ (q \in M /\ q < last)
        BY <1>1, <2>5
      <4>2. \A q \in M : q < last => q \in P
        BY <1>1, <1>5
      <4>3. last \in Nat
        BY <1>1
      <4>4. ~(last < last)
        BY <4>3
      <4>5. \A q : q \in P <=> q \in Below(last) \cup {last}
        BY <4>1, <4>2, Zenon
      <4>6. last \notin Below(last)
        BY <4>4, Zenon
      <4> HIDE DEF Below
      <4> QED
        BY <4>5, <4>6
    <3>2. IsFiniteSet(Below(last))
      <4>1. Below(last) \in SUBSET M
        OBVIOUS
      <4> QED
        BY <1>3, <4>1, FS_Subset
    <3> HIDE DEF Below
    <3> QED
      BY <3>1, <3>2, FS_AddElement
  <2>7. Cardinality(Below(last)) < PublicationPage /\ Cardinality(Below(last)) \in Nat
    BY <1>1, <1>2, <1>4, <2>5
  <2> HIDE DEF Below
  <2> QED
    BY <2>3, <2>6, <2>7 DEF Setting
<1>7. CASE Cardinality(P) = PublicationPage
  <2>1. P \in SUBSET (0..numbered) /\ P # {}
    <3>1. P # {}
      BY <1>7, FS_EmptySet DEF Setting
    <3> QED
      BY <1>1, <3>1
  <2>2. Max(P) \in P /\ NextCursor(after) = Max(P)
    <3>1. Max(P) \in P
      BY <1>1, <2>1, MaxIsGreatest
    <3> QED
      BY <1>7, <3>1 DEF NextCursor
  <2>3. ASSUME NEW p \in Publications \ ours, after < p, p <= NextCursor(after)
        PROVE  p \in P
    <3>1. p \in M
      BY <1>1, <2>2, <2>3 DEF Matching, Publications, Setting
    <3> HIDE DEF M, P
    <3> QED
      BY <1>5, <2>2, <2>3, <3>1
  <2> QED
    BY <1>1, <2>2, <2>3 DEF Publications, Setting
<1>8. CASE Cardinality(P) # PublicationPage
  <2>1. NextCursor(after) = numbered
    BY <1>1, <1>8 DEF NextCursor
  <2>2. P = M
    BY <1>6, <1>8
  <2> QED
    BY <1>1, <2>1, <2>2 DEF Publications, Setting, Matching
<1> QED
  BY <1>7, <1>8

-----------------------------------------------------------------------------
(* The inductive invariant *)

InboundStates ==
  {"ABSENT", "AVAILABLE", "WAITING_FOR_REVIEW", "READY_TO_APPLY", "APPLIED",
   "REJECTED_INVALID", "AUDIENCE_DENIED"}
SetStates == {"none", "REVIEW_REQUIRED", "READY", "APPLIED"}
Connections ==
  [state : {"CONNECTED", "DISCONNECTED", "NETWORK_UNAVAILABLE", "AUTH_EXPIRED"}, cursor : Nat]
Schedules ==
  [enabled : BOOLEAN, intake : BOOLEAN, token : 0..2, live : BOOLEAN, terminal : BOOLEAN]
Runs ==
  [pc : {"idle", "load", "members", "list", "register", "candidate", "stage",
         "done", "failed", "cancelled"},
   token : 0..2, after : Nat, page : SUBSET Publications, next : Nat, candidate : Nat]
Refreshes == [pc : {"idle", "register"}, page : SUBSET Publications, next : Nat]

RelayOK == ours \in SUBSET Publications /\ numbered \in 0..MaxPublications
CursorOK == connection \in Connections /\ connection.cursor <= numbered
ScheduleOK == schedule \in Schedules /\ (schedule.live => schedule.token # 0)
WorkOK == worker \in Runs /\ panel \in Refreshes

RowsOK ==
  /\ inbound \in [Publications -> InboundStates]
  /\ snapshots \in [Publications -> SetStates]
  /\ applied \in Nat
  /\ \A p \in Publications : snapshots[p] # "none" => inbound[p] # "ABSENT"

\* Every publication of another device up to next is on the page or has a row.
Covered(page, next) ==
  /\ next <= numbered
  /\ \A p \in Publications \ ours : p <= next => p \in page \/ inbound[p] # "ABSENT"

\* What the worker and the panel listed, before they register it.  The cursor
\* only grows, so the one a run read at its start is behind it.
PagesOK ==
  /\ worker.after <= connection.cursor
  /\ worker.pc = "register" => Covered(worker.page, worker.next)
  /\ panel.pc = "register" => Covered(panel.page, panel.next)

Types == RelayOK /\ CursorOK /\ ScheduleOK /\ WorkOK /\ RowsOK

DiscoveryInv == Types /\ PagesOK /\ NothingUnregistered

-----------------------------------------------------------------------------
(* What a step may do to the types *)

LEMMA ScheduleStep ==
  ASSUME Types, ReceiveNext
  PROVE  ScheduleOK'
<1>1. schedule \in Schedules /\ (schedule.live => schedule.token # 0)
  BY DEF Types, ScheduleOK
<1>2. CASE schedule' = schedule
  BY <1>1, <1>2 DEF ScheduleOK
<1>3. CASE schedule' = disabled
  BY <1>3 DEF ScheduleOK, Schedules, disabled
<1>4. ASSUME NEW intake \in BOOLEAN,
             schedule' = [enabled |-> TRUE, intake |-> intake, token |-> 0, live |-> FALSE,
                          terminal |-> FALSE]
      PROVE  ScheduleOK'
  BY <1>4 DEF ScheduleOK, Schedules
<1>5. ASSUME NEW t \in 1..2, schedule' = [schedule EXCEPT !.token = t, !.live = TRUE]
      PROVE  ScheduleOK'
  <2>1. schedule' = [enabled |-> schedule.enabled, intake |-> schedule.intake, token |-> t,
                     live |-> TRUE, terminal |-> schedule.terminal]
    BY <1>1, <1>5 DEF Schedules
  <2> QED
    BY <1>1, <2>1 DEF ScheduleOK, Schedules
<1>6. CASE schedule' = recover_expired_lease(schedule)
  BY <1>1, <1>6 DEF ScheduleOK, Schedules, recover_expired_lease
<1>7. ASSUME NEW terminal \in BOOLEAN, schedule' = released(schedule, terminal)
      PROVE  ScheduleOK'
  <2>1. schedule' = [enabled |-> schedule.enabled, intake |-> schedule.intake, token |-> 0,
                     live |-> FALSE, terminal |-> terminal]
    BY <1>1, <1>7 DEF Schedules, released
  <2> QED
    BY <1>1, <2>1 DEF ScheduleOK, Schedules
<1>8. CASE schedule' = [schedule EXCEPT !.live = FALSE]
  BY <1>1, <1>8 DEF ScheduleOK, Schedules
<1>9. \/ schedule' \in {schedule, disabled, recover_expired_lease(schedule),
                        [schedule EXCEPT !.live = FALSE]}
      \/ \E intake \in BOOLEAN :
           schedule' = [enabled |-> TRUE, intake |-> intake, token |-> 0, live |-> FALSE,
                        terminal |-> FALSE]
      \/ \E t \in 1..2 : schedule' = [schedule EXCEPT !.token = t, !.live = TRUE]
      \/ \E terminal \in BOOLEAN : schedule' = released(schedule, terminal)
  <2>1. CASE claim_due
    <3>1. (IF worker.token = 1 THEN 2 ELSE 1) \in 1..2
      OBVIOUS
    <3> QED
      BY <2>1, <3>1 DEF claim_due
  <2>2. ASSUME NEW outcome \in Outcomes, finish_claimed(outcome)
        PROVE  schedule' = schedule \/ \E terminal \in BOOLEAN : schedule' = released(schedule, terminal)
    <3>1. (outcome = "terminal") \in BOOLEAN
      OBVIOUS
    <3> QED
      BY <2>2, <3>1 DEF finish_claimed
  <2> QED
    BY <2>1, <2>2
    DEF ReceiveNext, RunNext, load_connection_context, validate_and_refresh_claimed,
        list_publications, register_publication_metadata_claimed, oldest_encrypted_available,
        stage_claimed, reject_claimed, request_fails, relay_numbers, disable,
        family_delivery_disconnect, family_delivery_connection_save, schedule_status, configure_with_intake,
        resolve_ui_review, discard_ui_review, apply_ui_review, stage_inbound, panel_refresh,
        panel_register, DiscoveryLeaseExpires, ReceiveCrash, Stops
<1> QED
  BY <1>2, <1>3, <1>4, <1>5, <1>6, <1>7, <1>8, <1>9

\* The relay's numbering and the stored cursor only grow, and no row disappears.
Grows ==
  /\ UNCHANGED ours
  /\ numbered' \in numbered..MaxPublications
  /\ connection' \in Connections
  /\ connection.cursor <= connection'.cursor
  /\ \A p \in Publications : inbound[p] # "ABSENT" => inbound'[p] # "ABSENT"

Steady == UNCHANGED <<ours, numbered, connection, inbound>>

LEMMA SteadyGrows ==
  ASSUME Setting, Types, Steady
  PROVE  Grows
BY DEF Setting, Types, RelayOK, CursorOK, Connections, Steady, Grows

\* Rows and cursor as a registration leaves them.
LEMMA Registration ==
  ASSUME Setting, Types, NEW page \in SUBSET Publications, NEW next \in 0..numbered, NEW ok \in BOOLEAN,
         register_inbound(page, next, ok)
  PROVE  /\ connection' \in Connections
         /\ connection'.cursor \in {connection.cursor, next}
         /\ connection.cursor <= connection'.cursor
         /\ inbound' \in [Publications -> InboundStates]
         /\ \A p \in Publications : inbound[p] # "ABSENT" => inbound'[p] # "ABSENT"
         /\ ok => \A p \in page : inbound'[p] # "ABSENT"
         /\ ~ok => connection' = connection
<1>1. connection \in Connections /\ connection.cursor \in 0..numbered /\ numbered \in Nat
  BY DEF Setting, Types, RelayOK, CursorOK, Connections
<1>2. /\ Max({connection.cursor, next}) \in {connection.cursor, next}
      /\ connection.cursor <= Max({connection.cursor, next})
  <2>1. {connection.cursor, next} \in SUBSET (0..numbered)
    BY <1>1
  <2> HIDE DEF Types
  <2> QED
    BY <1>1, <2>1, MaxIsGreatest
<1> DEFINE cursor == Max({connection.cursor, next})
<1>3. connection' = connection \/ connection' = [state |-> "CONNECTED", cursor |-> cursor]
  BY DEF register_inbound
<1>4. ~ok => connection' = connection
  BY DEF register_inbound
<1> HIDE DEF cursor
<1>5. /\ connection' \in Connections
      /\ connection'.cursor \in {connection.cursor, next}
      /\ connection.cursor <= connection'.cursor
  BY <1>1, <1>2, <1>3 DEF Connections, cursor
<1>6. /\ inbound' \in [Publications -> InboundStates]
      /\ \A p \in Publications : inbound[p] # "ABSENT" => inbound'[p] # "ABSENT"
      /\ ok => \A p \in page : inbound'[p] # "ABSENT"
  BY DEF register_inbound, Registered, Types, RowsOK, InboundStates
<1> QED
  BY <1>4, <1>5, <1>6

LEMMA IdleWork == NoWork \in Runs /\ NoWork.pc = "idle" /\ NoWork.after = 0
                  /\ NoRefresh \in Refreshes /\ NoRefresh.pc = "idle"
BY DEF NoWork, Runs, NoRefresh, Refreshes

\* Where a step of the run takes the worker, and what it does to the rest of it.
LEMMA WorkerStep ==
  ASSUME Setting, Types, PagesOK, ReceiveNext
  PROVE  /\ worker' \in Runs
         /\ worker'.after \in {worker.after, 0, connection.cursor}
         /\ worker'.pc = "register" =>
              \/ worker' = worker
              \/ /\ worker'.page = PublicationsAfter(worker.after)
                 /\ worker'.next = NextCursor(worker.after)
                 /\ Steady
<1>1. worker \in Runs /\ worker.after \in 0..numbered /\ connection.cursor \in Nat
      /\ numbered \in Nat /\ numbered \in 0..MaxPublications
  BY DEF Setting, Types, RelayOK, WorkOK, CursorOK, PagesOK, Runs, Connections
<1>2. CASE worker' = worker
  BY <1>1, <1>2
<1>3. CASE worker' = NoWork
  BY <1>3, IdleWork
<1>4. ASSUME NEW t \in 0..2, worker' = [NoWork EXCEPT !.token = t]
      PROVE  worker' \in Runs /\ worker'.pc = "idle" /\ worker'.after = 0
  <2>1. worker' = [pc |-> "idle", token |-> t, after |-> 0, page |-> {}, next |-> 0, candidate |-> 0]
    BY <1>4 DEF NoWork
  <2> QED
    BY <2>1 DEF Runs
<1>5. ASSUME NEW t \in 0..2, worker' = [NoWork EXCEPT !.pc = "load", !.token = t]
      PROVE  worker' \in Runs /\ worker'.pc = "load" /\ worker'.after = 0
  <2>1. worker' = [pc |-> "load", token |-> t, after |-> 0, page |-> {}, next |-> 0, candidate |-> 0]
    BY <1>5 DEF NoWork
  <2> QED
    BY <2>1 DEF Runs
<1>6. ASSUME NEW pc \in {"list", "candidate", "done", "failed", "cancelled"},
             worker' = [worker EXCEPT !.pc = pc]
      PROVE  worker' \in Runs /\ worker'.pc = pc /\ worker'.after = worker.after
  BY <1>1, <1>6 DEF Runs
<1>7. ASSUME NEW pc \in {"members", "failed"},
             worker' = [worker EXCEPT !.pc = pc, !.after = connection.cursor]
      PROVE  worker' \in Runs /\ worker'.pc = pc /\ worker'.after = connection.cursor
  BY <1>1, <1>7 DEF Runs
<1>8. ASSUME Available # {}, worker' = [worker EXCEPT !.pc = "stage", !.candidate = Min(Available)]
      PROVE  worker' \in Runs /\ worker'.pc = "stage" /\ worker'.after = worker.after
  <2>1. Available \in SUBSET Nat
    BY DEF Available, Publications, Setting
  <2>2. Min(Available) \in Nat
    BY <1>8, <2>1, LeastNumber DEF Min
  <2> DEFINE c == Min(Available)
  <2> HIDE DEF c
  <2>3. worker' = [worker EXCEPT !.pc = "stage", !.candidate = c] /\ c \in Nat
    BY <1>8, <2>2 DEF c
  <2> QED
    BY <1>1, <2>3 DEF Runs
<1>9. ASSUME worker' = [worker EXCEPT !.pc = "register", !.page = PublicationsAfter(worker.after),
                                      !.next = NextCursor(worker.after)]
      PROVE  /\ worker' \in Runs /\ worker'.after = worker.after
             /\ worker'.page = PublicationsAfter(worker.after)
             /\ worker'.next = NextCursor(worker.after)
  <2> DEFINE page == PublicationsAfter(worker.after)
             next == NextCursor(worker.after)
  <2>1. page \in SUBSET Publications /\ next \in Nat
    BY <1>1, PageOf
  <2> HIDE DEF page, next
  <2>2. worker' = [worker EXCEPT !.pc = "register", !.page = page, !.next = next]
    BY <1>9 DEF page, next
  <2>3. worker' \in Runs /\ worker'.after = worker.after /\ worker'.page = page /\ worker'.next = next
    BY <1>1, <2>1, <2>2 DEF Runs
  <2> QED
    BY <2>3 DEF page, next
<1>10. \/ worker' \in {worker, NoWork}
       \/ \E t \in 0..2 : worker' = [NoWork EXCEPT !.token = t]
       \/ \E t \in 0..2 : worker' = [NoWork EXCEPT !.pc = "load", !.token = t]
       \/ \E pc \in {"list", "candidate", "done", "failed", "cancelled"} :
            worker' = [worker EXCEPT !.pc = pc]
       \/ \E pc \in {"members", "failed"} :
            worker' = [worker EXCEPT !.pc = pc, !.after = connection.cursor]
       \/ Available # {} /\ worker' = [worker EXCEPT !.pc = "stage", !.candidate = Min(Available)]
       \/ /\ worker' = [worker EXCEPT !.pc = "register", !.page = PublicationsAfter(worker.after),
                                      !.next = NextCursor(worker.after)]
          /\ Steady
  <2>1. worker.token \in 0..2
    BY <1>1 DEF Runs
  <2>2. CASE claim_due
    <3>1. (IF worker.token = 1 THEN 2 ELSE 1) \in 0..2
      OBVIOUS
    <3> QED
      BY <2>2, <3>1 DEF claim_due
  <2>3. CASE load_connection_context
    BY <2>3 DEF load_connection_context, RunStep
  <2>4. CASE list_publications
    BY <2>4 DEF list_publications, RunStep, Steady, relayVars
  <2>5. CASE oldest_encrypted_available
    BY <2>5 DEF oldest_encrypted_available, RunStep
  <2>6. ASSUME NEW outcome \in Outcomes, finish_claimed(outcome)
        PROVE  \E t \in 0..2 : worker' = [NoWork EXCEPT !.token = t]
    BY <2>1, <2>6 DEF finish_claimed
  <2>7. CASE \/ validate_and_refresh_claimed \/ stage_claimed \/ reject_claimed \/ request_fails
             \/ \E ok \in BOOLEAN : register_publication_metadata_claimed(ok)
    BY <2>7
    DEF validate_and_refresh_claimed, stage_claimed, reject_claimed, request_fails,
        register_publication_metadata_claimed, RunStep
  <2>8. CASE \/ relay_numbers \/ disable \/ family_delivery_disconnect \/ family_delivery_connection_save
             \/ schedule_status \/ panel_refresh \/ panel_register \/ DiscoveryLeaseExpires
             \/ ReceiveCrash \/ \E intake \in BOOLEAN : configure_with_intake(intake)
    BY <2>8
    DEF relay_numbers, disable, family_delivery_disconnect, family_delivery_connection_save, schedule_status,
        panel_refresh, panel_register, DiscoveryLeaseExpires, ReceiveCrash, Stops,
        configure_with_intake
  <2>9. ASSUME NEW p \in Publications, NEW crashed \in BOOLEAN,
               \/ resolve_ui_review(p) \/ discard_ui_review(p) \/ apply_ui_review(p, crashed)
               \/ \E s \in Active : stage_inbound(p, s, crashed)
        PROVE  worker' \in {worker, NoWork}
    BY <2>9 DEF resolve_ui_review, discard_ui_review, apply_ui_review, stage_inbound, Stops
  <2> QED
    BY <2>2, <2>3, <2>4, <2>5, <2>6, <2>7, <2>8, <2>9 DEF ReceiveNext, RunNext
<1> QED
  BY <1>2, <1>3, <1>4, <1>5, <1>6, <1>7, <1>8, <1>9, <1>10, IdleWork

\* A registration by the worker or the panel that takes place.
Registers(page, next) ==
  /\ UNCHANGED relayVars
  /\ \E ok \in BOOLEAN : register_inbound(page, next, ok)

\* Rows change, and none disappears, while relay and connection stay.
Reviews ==
  /\ UNCHANGED <<ours, numbered, connection>>
  /\ \A p \in Publications : inbound[p] # "ABSENT" => inbound'[p] # "ABSENT"

\* Settings and failures change the connection's state only.
Reconnects ==
  /\ UNCHANGED <<ours, numbered, inbound>>
  /\ \E s \in {"CONNECTED", "DISCONNECTED", "NETWORK_UNAVAILABLE", "AUTH_EXPIRED"} :
       connection' = [connection EXCEPT !.state = s]

\* What a step does to relay, connection and rows.
LEMMA DataStep ==
  ASSUME Types, ReceiveNext
  PROVE  \/ Steady
         \/ relay_numbers
         \/ Reviews
         \/ Reconnects
         \/ worker.pc = "register" /\ Registers(worker.page, worker.next)
         \/ panel.pc = "register" /\ Registers(panel.page, panel.next)
<1>1. inbound \in [Publications -> InboundStates]
  BY DEF Types, RowsOK
<1>2. CASE \/ relay_numbers \/ disable \/ schedule_status \/ DiscoveryLeaseExpires \/ ReceiveCrash
           \/ \E intake \in BOOLEAN : configure_with_intake(intake)
  BY <1>2
  DEF relay_numbers, disable, schedule_status, DiscoveryLeaseExpires, ReceiveCrash,
      configure_with_intake, Steady, relayVars
<1>3. CASE claim_due \/ load_connection_context \/ list_publications \/ oldest_encrypted_available
           \/ request_fails
  BY <1>3
  DEF claim_due, load_connection_context, list_publications, oldest_encrypted_available,
      request_fails, Steady, relayVars
<1>4. CASE validate_and_refresh_claimed \/ family_delivery_disconnect \/ family_delivery_connection_save \/ panel_refresh
  BY <1>4
  DEF validate_and_refresh_claimed, family_delivery_disconnect, family_delivery_connection_save, panel_refresh,
      Steady, Reconnects, relayVars
<1>5. ASSUME NEW outcome \in Outcomes, finish_claimed(outcome)
      PROVE  Steady \/ Reconnects
  BY <1>5 DEF finish_claimed, Steady, Reconnects, relayVars
<1>6. ASSUME NEW ok \in BOOLEAN, register_publication_metadata_claimed(ok)
      PROVE  Steady \/ (worker.pc = "register" /\ Registers(worker.page, worker.next))
  BY <1>6
  DEF register_publication_metadata_claimed, RunStep, Registers, Steady, relayVars
<1>7. CASE panel_register
  BY <1>7 DEF panel_register, Registers, Steady, relayVars
<1>8. CASE stage_claimed \/ reject_claimed
  BY <1>1, <1>8 DEF stage_claimed, reject_claimed, Reviews, relayVars
<1>9. ASSUME NEW p \in Publications, resolve_ui_review(p) \/ discard_ui_review(p)
      PROVE  Reviews
  BY <1>1, <1>9 DEF resolve_ui_review, discard_ui_review, Reviews, relayVars
<1>10. ASSUME NEW p \in Publications, NEW crashed \in BOOLEAN,
              apply_ui_review(p, crashed) \/ \E s \in Active : stage_inbound(p, s, crashed)
       PROVE  Reviews
  BY <1>1, <1>10 DEF apply_ui_review, stage_inbound, InboundFor, Reviews, relayVars
<1> QED
  BY <1>2, <1>3, <1>4, <1>5, <1>6, <1>7, <1>8, <1>9, <1>10 DEF ReceiveNext, RunNext

LEMMA RegistersStep ==
  ASSUME Setting, Types, NothingUnregistered, NEW page \in SUBSET Publications, NEW next,
         next \in Nat, Covered(page, next), Registers(page, next)
  PROVE  Grows /\ CursorOK' /\ NothingUnregistered'
<1>1. PICK ok \in BOOLEAN : register_inbound(page, next, ok)
  BY DEF Registers
<1>2. next \in 0..numbered /\ numbered \in Nat /\ numbered <= MaxPublications
  BY DEF Covered, Types, RelayOK, Setting
<1>3. /\ connection' \in Connections
      /\ connection'.cursor \in {connection.cursor, next}
      /\ connection.cursor <= connection'.cursor
      /\ \A p \in Publications : inbound[p] # "ABSENT" => inbound'[p] # "ABSENT"
      /\ ok => \A p \in page : inbound'[p] # "ABSENT"
      /\ ~ok => connection' = connection
  BY <1>1, <1>2, Registration
<1>4. UNCHANGED <<ours, numbered>>
  BY DEF Registers, relayVars
<1>5. Grows /\ CursorOK'
  BY <1>2, <1>3, <1>4 DEF Grows, CursorOK, Types, Setting
<1>6. ASSUME NEW p \in Publications \ ours, p <= connection'.cursor
      PROVE  inbound'[p] # "ABSENT"
  <2>1. CASE p <= connection.cursor
    BY <1>3, <2>1 DEF NothingUnregistered
  <2>2. CASE ~(p <= connection.cursor)
    <3>1. ok /\ p <= next
      BY <1>3, <1>6, <2>2
    <3> QED
      BY <1>3, <3>1 DEF Covered
  <2> QED
    BY <2>1, <2>2
<1> QED
  BY <1>4, <1>5, <1>6 DEF NothingUnregistered

LEMMA DiscoveryStep ==
  ASSUME Setting, DiscoveryInv, ReceiveNext
  PROVE  Grows /\ RelayOK' /\ CursorOK' /\ NothingUnregistered'
<1> USE DEF DiscoveryInv
<1>1. /\ connection \in Connections /\ connection.cursor \in 0..numbered
      /\ numbered \in 0..MaxPublications /\ ours \in SUBSET Publications
  BY DEF Setting, Types, RelayOK, CursorOK, Connections
<1>2. CASE Steady
  BY <1>2, SteadyGrows DEF Steady, Types, RelayOK, CursorOK, NothingUnregistered
<1>3. CASE relay_numbers
  BY <1>1, <1>3
  DEF relay_numbers, Grows, Types, RelayOK, CursorOK, NothingUnregistered, Setting, Connections
<1>4. CASE Reviews
  BY <1>1, <1>4
  DEF Reviews, Grows, Types, RelayOK, CursorOK, NothingUnregistered, Setting, Connections
<1>5. CASE Reconnects
  <2>1. connection' \in Connections /\ connection'.cursor = connection.cursor
    BY <1>1, <1>5 DEF Reconnects, Connections
  <2> QED
    BY <1>1, <1>5, <2>1
    DEF Reconnects, Grows, Types, RelayOK, CursorOK, NothingUnregistered, Setting
<1>6. ASSUME worker.pc = "register", Registers(worker.page, worker.next)
      PROVE  Grows /\ RelayOK' /\ CursorOK' /\ NothingUnregistered'
  <2>1. worker.page \in SUBSET Publications /\ worker.next \in Nat /\ Covered(worker.page, worker.next)
    BY <1>6 DEF Types, WorkOK, Runs, PagesOK
  <2>2. Grows /\ CursorOK' /\ NothingUnregistered'
    BY <1>6, <2>1, RegistersStep
  <2> QED
    BY <1>6, <2>2 DEF Registers, relayVars, Types, RelayOK
<1>7. ASSUME panel.pc = "register", Registers(panel.page, panel.next)
      PROVE  Grows /\ RelayOK' /\ CursorOK' /\ NothingUnregistered'
  <2>1. panel.page \in SUBSET Publications /\ panel.next \in Nat /\ Covered(panel.page, panel.next)
    BY <1>7 DEF Types, WorkOK, Refreshes, PagesOK
  <2>2. Grows /\ CursorOK' /\ NothingUnregistered'
    BY <1>7, <2>1, RegistersStep
  <2> QED
    BY <1>7, <2>2 DEF Registers, relayVars, Types, RelayOK
<1> QED
  BY <1>2, <1>3, <1>4, <1>5, <1>6, <1>7, DataStep

LEMMA PanelStep ==
  ASSUME Setting, Types, ReceiveNext
  PROVE  /\ panel' \in Refreshes
         /\ panel'.pc = "register" =>
              \/ panel' = panel
              \/ /\ panel'.page = PublicationsAfter(connection.cursor)
                 /\ panel'.next = NextCursor(connection.cursor)
                 /\ UNCHANGED <<ours, numbered, inbound>>
<1>1. panel \in Refreshes /\ connection.cursor \in 0..numbered /\ numbered \in 0..MaxPublications
      /\ numbered \in Nat
  BY DEF Setting, Types, RelayOK, WorkOK, CursorOK, Connections
<1>2. CASE panel_refresh
  <2> DEFINE page == PublicationsAfter(connection.cursor)
             next == NextCursor(connection.cursor)
  <2>1. page \in SUBSET Publications /\ next \in Nat
    BY <1>1, PageOf
  <2>2. panel' = [pc |-> "register", page |-> page, next |-> next]
        /\ UNCHANGED <<ours, numbered, inbound>>
    BY <1>2 DEF panel_refresh, relayVars
  <2> HIDE DEF page, next
  <2>3. panel' \in Refreshes /\ panel'.page = page /\ panel'.next = next
    BY <2>1, <2>2 DEF Refreshes
  <2> QED
    BY <2>2, <2>3 DEF page, next
<1>3. panel' \in {panel, NoRefresh} \/ panel_refresh
  BY DEF ReceiveNext, RunNext, claim_due, load_connection_context, validate_and_refresh_claimed,
         list_publications, register_publication_metadata_claimed, oldest_encrypted_available,
         stage_claimed, finish_claimed, reject_claimed, request_fails, relay_numbers, disable,
         family_delivery_disconnect, family_delivery_connection_save, schedule_status, configure_with_intake,
         resolve_ui_review, discard_ui_review, apply_ui_review, stage_inbound,
         panel_register, DiscoveryLeaseExpires, ReceiveCrash, Stops
<1> QED
  BY <1>1, <1>2, <1>3, IdleWork

LEMMA CoveredStays ==
  ASSUME Setting, RelayOK, Grows, NEW page, NEW next \in Nat, Covered(page, next)
  PROVE  /\ next <= numbered'
         /\ \A p \in Publications \ ours' : p <= next => p \in page \/ inbound'[p] # "ABSENT"
BY DEF Setting, RelayOK, Grows, Covered

\* What a page listed after the stored cursor, or before it, covers.
LEMMA ListedIsCovered ==
  ASSUME Setting, DiscoveryInv, NEW after \in Nat, after <= connection.cursor
  PROVE  Covered(PublicationsAfter(after), NextCursor(after))
<1>1. after \in 0..numbered /\ numbered \in 0..MaxPublications /\ numbered \in Nat
      /\ connection.cursor \in Nat
  BY DEF Setting, DiscoveryInv, Types, RelayOK, CursorOK, Connections
<1>2. \A p \in Publications \ ours : p <= after => inbound[p] # "ABSENT"
  BY <1>1 DEF DiscoveryInv, NothingUnregistered, Publications, Setting
<1> QED
  BY <1>1, <1>2, PageOf DEF Covered, Publications, Setting

LEMMA PagesStep ==
  ASSUME Setting, DiscoveryInv, ReceiveNext
  PROVE  PagesOK'
<1>1. /\ RelayOK /\ Grows /\ connection.cursor \in Nat /\ connection'.cursor \in Nat
      /\ worker.after \in Nat /\ worker.after <= connection.cursor
      /\ connection.cursor <= connection'.cursor
      /\ worker.next \in Nat /\ panel.next \in Nat
  BY DiscoveryStep
  DEF DiscoveryInv, Types, CursorOK, WorkOK, PagesOK, Connections, Runs, Refreshes, Grows
<1>2. /\ worker'.after \in {worker.after, 0, connection.cursor}
      /\ worker'.pc = "register" =>
           \/ worker' = worker
           \/ /\ worker'.page = PublicationsAfter(worker.after)
              /\ worker'.next = NextCursor(worker.after)
              /\ Steady
  BY WorkerStep DEF DiscoveryInv
<1>3. worker'.after <= connection'.cursor
  BY <1>1, <1>2
<1>4. ASSUME worker'.pc = "register"
      PROVE  Covered(worker.page, worker.next)' 
  <2>1. CASE worker' = worker
    <3>1. Covered(worker.page, worker.next)
      BY <1>4, <2>1 DEF DiscoveryInv, PagesOK
    <3>2. /\ worker.next <= numbered'
          /\ \A p \in Publications \ ours' :
               p <= worker.next => p \in worker.page \/ inbound'[p] # "ABSENT"
      BY <1>1, <3>1, CoveredStays
    <3> QED
      BY <2>1, <3>2 DEF Covered
  <2>2. CASE /\ worker'.page = PublicationsAfter(worker.after)
             /\ worker'.next = NextCursor(worker.after)
             /\ Steady
    <3>1. Covered(PublicationsAfter(worker.after), NextCursor(worker.after))
      BY <1>1, ListedIsCovered
    <3> QED
      BY <2>2, <3>1 DEF Covered, Steady
  <2> QED
    BY <1>2, <1>4, <2>1, <2>2
<1>5. ASSUME panel'.pc = "register"
      PROVE  Covered(panel.page, panel.next)'
  <2>1. CASE panel' = panel
    <3>1. Covered(panel.page, panel.next)
      BY <1>5, <2>1 DEF DiscoveryInv, PagesOK
    <3>2. /\ panel.next <= numbered'
          /\ \A p \in Publications \ ours' :
               p <= panel.next => p \in panel.page \/ inbound'[p] # "ABSENT"
      BY <1>1, <3>1, CoveredStays
    <3> QED
      BY <2>1, <3>2 DEF Covered
  <2>2. CASE /\ panel'.page = PublicationsAfter(connection.cursor)
             /\ panel'.next = NextCursor(connection.cursor)
             /\ UNCHANGED <<ours, numbered, inbound>>
    <3>1. Covered(PublicationsAfter(connection.cursor), NextCursor(connection.cursor))
      BY <1>1, ListedIsCovered
    <3> QED
      BY <2>2, <3>1 DEF Covered
  <2> QED
    BY <1>5, <2>1, <2>2, PanelStep DEF DiscoveryInv
<1> QED
  BY <1>3, <1>4, <1>5 DEF PagesOK

\* A stored set has its inbound row, and a row its state.
LEMMA RowsStep ==
  ASSUME Setting, DiscoveryInv, ReceiveNext
  PROVE  RowsOK'
<1>1. /\ inbound \in [Publications -> InboundStates]
      /\ snapshots \in [Publications -> SetStates]
      /\ applied \in Nat
      /\ \A p \in Publications : snapshots[p] # "none" => inbound[p] # "ABSENT"
      /\ Publications \subseteq Nat
  BY DEF DiscoveryInv, Types, RowsOK, Publications, Setting
<1>2. \A p \in Publications : inbound[p] # "ABSENT" => inbound'[p] # "ABSENT"
  BY DiscoveryStep DEF Grows
<1>3. CASE UNCHANGED <<inbound, snapshots, applied>>
  BY <1>1, <1>3 DEF RowsOK
<1>4. ASSUME inbound' \in [Publications -> InboundStates], UNCHANGED <<snapshots, applied>>
      PROVE  RowsOK'
  BY <1>1, <1>2, <1>4 DEF RowsOK
<1>5. ASSUME NEW page, NEW next, NEW ok \in BOOLEAN, register_inbound(page, next, ok),
             UNCHANGED reviewState
      PROVE  RowsOK'
  <2>1. inbound' \in [Publications -> InboundStates]
    BY <1>1, <1>5 DEF register_inbound, Registered, InboundStates
  <2> QED
    BY <1>4, <1>5, <2>1 DEF reviewState
<1>6. ASSUME NEW ok \in BOOLEAN, register_publication_metadata_claimed(ok)
      PROVE  RowsOK'
  BY <1>3, <1>5, <1>6 DEF register_publication_metadata_claimed, reviewState
<1>7. CASE panel_register
  BY <1>3, <1>5, <1>7 DEF panel_register, reviewState
<1>8. CASE stage_claimed \/ reject_claimed
  <2>1. inbound' \in [Publications -> InboundStates]
    BY <1>1, <1>8 DEF stage_claimed, reject_claimed, InboundStates
  <2> QED
    BY <1>4, <1>8, <2>1 DEF stage_claimed, reject_claimed, reviewState
<1>9. ASSUME NEW p \in Publications, resolve_ui_review(p) \/ discard_ui_review(p)
      PROVE  RowsOK'
  BY <1>1, <1>9 DEF resolve_ui_review, discard_ui_review, RowsOK, InboundStates, SetStates
<1>10. ASSUME NEW p \in Publications, NEW crashed \in BOOLEAN, apply_ui_review(p, crashed)
       PROVE  RowsOK'
  BY <1>1, <1>10 DEF apply_ui_review, RowsOK, InboundStates, SetStates
<1>11. ASSUME NEW p \in Publications, NEW crashed \in BOOLEAN, NEW s \in Active,
              stage_inbound(p, s, crashed)
       PROVE  RowsOK'
  BY <1>1, <1>11
  DEF stage_inbound, Stageable, InboundFor, Active, RowsOK, InboundStates, SetStates
<1>12. \/ UNCHANGED <<inbound, snapshots, applied>>
       \/ panel_register \/ stage_claimed \/ reject_claimed
       \/ \E ok \in BOOLEAN : register_publication_metadata_claimed(ok)
       \/ \E p \in Publications :
            \/ resolve_ui_review(p) \/ discard_ui_review(p)
            \/ \E crashed \in BOOLEAN :
                 apply_ui_review(p, crashed) \/ \E s \in Active : stage_inbound(p, s, crashed)
  BY DEF ReceiveNext, RunNext, claim_due, load_connection_context, validate_and_refresh_claimed,
         list_publications, oldest_encrypted_available, finish_claimed, request_fails,
         relay_numbers, disable, family_delivery_disconnect, family_delivery_connection_save, schedule_status,
         configure_with_intake, panel_refresh, DiscoveryLeaseExpires, ReceiveCrash, reviewState
<1> QED
  BY <1>3, <1>6, <1>7, <1>8, <1>9, <1>10, <1>11, <1>12

-----------------------------------------------------------------------------

LEMMA DiscoveryInvInit ==
  ASSUME Setting, ReceiveInit
  PROVE  DiscoveryInv
<1>1. RelayOK /\ CursorOK /\ ScheduleOK
  BY DEF ReceiveInit, RelayOK, CursorOK, ScheduleOK, Connections, Schedules, Setting
<1>2. WorkOK /\ PagesOK
  BY IdleWork DEF ReceiveInit, WorkOK, PagesOK
<1>3. RowsOK /\ NothingUnregistered
  BY DEF ReceiveInit, RowsOK, NothingUnregistered, InboundStates, SetStates, Publications, Setting
<1> QED
  BY <1>1, <1>2, <1>3 DEF DiscoveryInv, Types

LEMMA DiscoveryInvNext ==
  ASSUME Setting, DiscoveryInv, [ReceiveNext]_receiveVars
  PROVE  DiscoveryInv'
<1>1. CASE ReceiveNext
  <2>1. Types /\ PagesOK
    BY DEF DiscoveryInv
  <2>2. ScheduleOK' /\ WorkOK'
    BY <1>1, <2>1, ScheduleStep, WorkerStep, PanelStep DEF WorkOK
  <2>3. RelayOK' /\ CursorOK' /\ NothingUnregistered' /\ PagesOK' /\ RowsOK'
    BY <1>1, DiscoveryStep, PagesStep, RowsStep
  <2> QED
    BY <2>2, <2>3 DEF DiscoveryInv, Types
<1>2. CASE UNCHANGED receiveVars
  BY <1>2
  DEF receiveVars, DiscoveryInv, Types, RelayOK, CursorOK, ScheduleOK, WorkOK, RowsOK, PagesOK,
      Covered, NothingUnregistered
<1> QED
  BY <1>1, <1>2

LEMMA DiscoveryInvAlways ==
  ASSUME Setting
  PROVE  ReceiveSpec => []DiscoveryInv
<1>1. ReceiveInit => DiscoveryInv
  BY DiscoveryInvInit
<1>2. DiscoveryInv /\ [ReceiveNext]_receiveVars => DiscoveryInv'
  BY DiscoveryInvNext
<1> QED
  BY <1>1, <1>2, PTL DEF ReceiveSpec

\* Rows are ones the tables can hold, a lease has an owner, and the stored
\* cursor never runs ahead of the relay's numbering.
THEOREM ReceiveTypesCorrect ==
  ASSUME Setting
  PROVE  ReceiveSpec => []ReceiveTypeOK
<1>1. DiscoveryInv => ReceiveTypeOK
  BY DEF DiscoveryInv, Types, RelayOK, CursorOK, ScheduleOK, RowsOK, Connections, InboundStates,
         ReceiveTypeOK, Setting
<1> QED
  BY <1>1, DiscoveryInvAlways, PTL

\* The cursor never passes a publication of another device that has no inbound
\* row: a page a slow run or the panel listed at an older cursor is registered as
\* a whole or not at all (register_inbound), and what it does not hold up to its
\* own boundary had a row when it was listed.
THEOREM CursorLeavesNothingBehind ==
  ASSUME Setting
  PROVE  ReceiveSpec => []NothingUnregistered
<1>1. DiscoveryInv => NothingUnregistered
  BY DEF DiscoveryInv
<1> QED
  BY <1>1, DiscoveryInvAlways, PTL

-----------------------------------------------------------------------------
(* One open review, newer than the ledger *)

\* There is one open review at most, and it is newer than what was applied.
ReviewInv ==
  /\ \A p \in Publications : \A q \in Publications :
       snapshots[p] \in Active /\ snapshots[q] \in Active => p = q
  /\ \A p \in Publications : snapshots[p] \in Active => applied < p

LEMMA ReviewStep ==
  ASSUME Setting, DiscoveryInv, ReviewInv, [ReceiveNext]_receiveVars
  PROVE  ReviewInv' /\ applied' >= applied
<1>1. /\ snapshots \in [Publications -> SetStates] /\ applied \in Nat /\ Publications \subseteq Nat
  BY DEF DiscoveryInv, Types, RowsOK, Publications, Setting
<1>2. CASE UNCHANGED <<snapshots, applied>>
  BY <1>1, <1>2 DEF ReviewInv
<1>3. ASSUME NEW p \in Publications, resolve_ui_review(p) \/ discard_ui_review(p)
      PROVE  ReviewInv' /\ applied' >= applied
  BY <1>1, <1>3 DEF resolve_ui_review, discard_ui_review, ReviewInv, Active
<1>4. ASSUME NEW p \in Publications, NEW crashed \in BOOLEAN, apply_ui_review(p, crashed)
      PROVE  ReviewInv' /\ applied' >= applied
  <2>1. /\ snapshots[p] \in Active /\ applied' = p
        /\ \A q \in Publications : snapshots'[q] = IF q = p THEN "APPLIED" ELSE snapshots[q]
    BY <1>1, <1>4 DEF apply_ui_review, Active
  <2>2. \A q \in Publications : snapshots'[q] \notin Active
    BY <2>1 DEF ReviewInv, Active
  <2>3. applied < p
    BY <2>1 DEF ReviewInv
  <2> QED
    BY <1>1, <2>1, <2>2, <2>3 DEF ReviewInv
<1>5. ASSUME NEW p \in Publications, NEW crashed \in BOOLEAN, NEW s \in Active,
             stage_inbound(p, s, crashed)
      PROVE  ReviewInv' /\ applied' >= applied
  <2>1. CASE stage_snapshot_set(p) = "new"
    <3>1. /\ ~Pending /\ ~(p <= applied) /\ UNCHANGED applied
          /\ snapshots' = [snapshots EXCEPT ![p] = s]
      BY <1>5, <2>1 DEF stage_inbound, stage_snapshot_set
    <3>2. \A q \in Publications : snapshots'[q] \in Active => q = p
      BY <1>1, <3>1 DEF Pending
    <3> QED
      BY <1>1, <3>1, <3>2 DEF ReviewInv
  <2>2. CASE stage_snapshot_set(p) # "new"
    BY <1>2, <1>5, <2>2 DEF stage_inbound
  <2> QED
    BY <2>1, <2>2
<1>6. \/ UNCHANGED <<snapshots, applied>>
      \/ \E p \in Publications :
           \/ resolve_ui_review(p) \/ discard_ui_review(p)
           \/ \E crashed \in BOOLEAN :
                apply_ui_review(p, crashed) \/ \E s \in Active : stage_inbound(p, s, crashed)
  BY DEF ReceiveNext, RunNext, claim_due, load_connection_context, validate_and_refresh_claimed,
         list_publications, register_publication_metadata_claimed, oldest_encrypted_available,
         stage_claimed, reject_claimed, finish_claimed, request_fails, relay_numbers, disable,
         family_delivery_disconnect, family_delivery_connection_save, schedule_status, configure_with_intake,
         panel_refresh, panel_register, DiscoveryLeaseExpires, ReceiveCrash, reviewState,
         receiveVars
<1> QED
  BY <1>2, <1>3, <1>4, <1>5, <1>6

LEMMA ReviewInvAlways ==
  ASSUME Setting
  PROVE  ReceiveSpec => []ReviewInv
<1>1. ReceiveInit => ReviewInv
  BY DEF ReceiveInit, ReviewInv, Active
<1>2. DiscoveryInv /\ ReviewInv /\ [ReceiveNext]_receiveVars => ReviewInv'
  BY ReviewStep
<1> QED
  BY <1>1, <1>2, DiscoveryInvAlways, PTL DEF ReceiveSpec

\* Worker and panel stage into one review: there is never a second open one,
\* although each looks for an open review before it downloads
\* (stage_snapshot_set looks again in the closure that stores the set).
THEOREM SingleReview ==
  ASSUME Setting
  PROVE  ReceiveSpec => []OneOpenReview
<1>1. DiscoveryInv /\ ReviewInv => OneOpenReview
  <2> SUFFICES ASSUME ReviewInv
               PROVE  OneOpenReview
    OBVIOUS
  <2> DEFINE open == {p \in Publications : snapshots[p] \in Active}
  <2>1. CASE open = {}
    BY <2>1, FS_EmptySet DEF OneOpenReview
  <2>2. ASSUME NEW p \in open
        PROVE  OneOpenReview
    <3>1. open = {p}
      BY <2>2 DEF ReviewInv
    <3>2. Cardinality({p}) = 1
      BY FS_Singleton
    <3> QED
      BY <3>1, <3>2 DEF OneOpenReview
  <2> QED
    BY <2>1, <2>2
<1> QED
  BY <1>1, DiscoveryInvAlways, ReviewInvAlways, PTL

\* Applying a received set never takes the ledger back to an older revision of
\* its sender, although the revision is compared when a set is staged and not
\* again when it is applied (stage_snapshot_set, apply_snapshot_set).
THEOREM RevisionsOnlyGrow ==
  ASSUME Setting
  PROVE  ReceiveSpec => NeverAppliesOlder
<1>1. DiscoveryInv /\ ReviewInv /\ [ReceiveNext]_receiveVars => [applied' >= applied]_receiveVars
  BY ReviewStep
<1> QED
  BY <1>1, DiscoveryInvAlways, ReviewInvAlways, PTL DEF ReceiveSpec, NeverAppliesOlder

-----------------------------------------------------------------------------
(* Fresh tokens *)

\* Some number up to n is not in a set of fewer than n elements.
LEMMA FreshNumber ==
  ASSUME NEW n \in Nat, NEW S, IsFiniteSet(S), Cardinality(S) < n
  PROVE  \E t \in 1..n : t \notin S
<1> SUFFICES ASSUME 1..n \subseteq S
             PROVE  FALSE
  OBVIOUS
<1>1. Cardinality(1..n) <= Cardinality(S)
  BY FS_Subset
<1>2. Cardinality(1..n) = n
  BY FS_Interval
<1>3. Cardinality(S) \in Nat
  BY FS_CardinalityType
<1> QED
  BY <1>1, <1>2, <1>3

\* The tokens of the rows of one table are at most as many as its rows.
LEMMA FewTokens ==
  ASSUME NEW S, IsFiniteSet(S), NEW f
  PROVE  /\ IsFiniteSet({f[g].token : g \in S})
         /\ Cardinality({f[g].token : g \in S}) <= Cardinality(S)
<1> DEFINE T == {f[g].token : g \in S}
<1> DEFINE h == [g \in S |-> f[g].token]
<1>1. h \in Surjection(S, T)
  BY DEF Surjection
<1> HIDE DEF h
<1>2. IsFiniteSet(T) /\ Cardinality(T) <= Cardinality(S)
  BY <1>1, FS_Surjection
<1> QED
  BY <1>2

\* With one more number, a set has at most one more element.
LEMMA OneMore ==
  ASSUME NEW S, IsFiniteSet(S), NEW x, NEW n \in Nat, Cardinality(S) <= n
  PROVE  IsFiniteSet(S \cup {x}) /\ Cardinality(S \cup {x}) <= n + 1
<1>1. Cardinality(S) \in Nat
  BY FS_CardinalityType
<1> QED
  BY <1>1, FS_AddElement

\* There is always a token nobody uses.
LEMMA FreshLeases == FreshLease \in Nat \ {0}
<1> DEFINE T == {items[g].token : g \in Generations}
<1> DEFINE U == T \cup {pass.token}
<1>0. MaxGeneration \in Nat \ {0}
  BY StoreAssumption
<1>1. IsFiniteSet(Generations) /\ Cardinality(Generations) = MaxGeneration
  BY <1>0, FS_Interval DEF Generations
<1>2. IsFiniteSet(T) /\ Cardinality(T) <= MaxGeneration
  BY <1>1, FewTokens
<1>3. LeasesInUse = U \cup {import.token}
  BY DEF LeasesInUse
<1> HIDE DEF T
<1>4. IsFiniteSet(U) /\ Cardinality(U) <= MaxGeneration + 1
  BY <1>0, <1>2, OneMore
<1> HIDE DEF U
<1> DEFINE n == MaxGeneration + 1
<1>5. IsFiniteSet(LeasesInUse) /\ Cardinality(LeasesInUse) <= n + 1
  <2>1. n \in Nat /\ Cardinality(U) <= n
    BY <1>0, <1>4
  <2> HIDE DEF n
  <2> QED
    BY <2>1, <1>3, <1>4, OneMore
<1>6. Cardinality(LeasesInUse) \in Nat
  BY <1>5, FS_CardinalityType
<1>7. \E t \in 1..(MaxGeneration + 3) : t \notin LeasesInUse
  BY <1>0, <1>5, <1>6, FreshNumber
<1>8. FreshLease \in 1..(MaxGeneration + 3)
  BY <1>7 DEF FreshLease
<1> QED
  BY <1>0, <1>8

LEMMA FreshClaims == FreshClaim \in Nat \ {0}
<1> DEFINE T == {files[g].token : g \in Versions}
<1> DEFINE n == Cardinality(Versions)
<1>1. n \in Nat
  BY FolderAssumption, FS_CardinalityType
<1>2. IsFiniteSet(T) /\ Cardinality(T) <= n
  BY FolderAssumption, FewTokens
<1>3. ClaimsInUse = T \cup {job.token}
  BY DEF ClaimsInUse
<1> HIDE DEF T
<1>4. IsFiniteSet(ClaimsInUse) /\ Cardinality(ClaimsInUse) <= n + 1
  BY <1>1, <1>2, <1>3, OneMore
<1>5. Cardinality(ClaimsInUse) \in Nat
  BY <1>4, FS_CardinalityType
<1>6. \E t \in 1..(n + 2) : t \notin ClaimsInUse
  BY <1>1, <1>4, <1>5, FreshNumber
<1>7. FreshClaim \in 1..(n + 2)
  BY <1>6 DEF FreshClaim
<1> QED
  BY <1>1, <1>7

-----------------------------------------------------------------------------
(* Google Drive: the inductive invariant *)

Items ==
  [state : ItemStates, tries : 0..MaxAttempts, content : Nat, token : Nat,
   live : BOOLEAN, origin : Reviewable \cup {"none"}, run : Nat]
Passes ==
  [pc : {"idle", "fetched", "claim", "before", "download", "after"},
   seen : [known : BOOLEAN, parent : {"none", "root"}, gen : Generations, tree : BOOLEAN],
   gen : Nat, token : Nat, bytes : Nat]
Imports == [pc : {"idle", "start", "stage"}, gen : Nat, token : Nat, bytes : Nat]

\* A row of generation g: what the CHECK constraints say, its bytes and its run
\* are those of its generation, and what a lease that expires returns it to is
\* what it was, a row with or without content.
ItemOK(row, g) ==
  /\ row \in Items
  /\ (row.state = "PROCESSING") = (row.token # NoLease)
  /\ (row.state = "STAGED") = (row.run # 0)
  /\ row.state = "STAGED" => row.run = g
  /\ row.content \in {NoContent, g}
  /\ row.state \in {"READY", "STAGED"} => row.content # NoContent
  /\ row.content # NoContent => row.state \notin {"ABSENT", "REMOVED", "DISCOVERED"}
  /\ row.state = "PROCESSING" =>
       \/ row.origin = "DISCOVERED" /\ row.content = NoContent
       \/ row.origin = "READY" /\ row.content # NoContent

ItemsOK ==
  /\ items = [g \in Generations |-> items[g]]
  /\ \A g \in Generations : ItemOK(items[g], g)

RemoteOK == remoteFile \in [gen : Generations, present : BOOLEAN]
NodeOK == driveNode.tree => driveNode.known

\* A pass works on a generation.  Since the metadata were compared the remote
\* file has only moved on, so what was downloaded is of that generation or of a
\* later one.
PassOK ==
  /\ pass \in Passes /\ pass.gen \in Generations \cup {0}
  /\ pass.pc = "fetched" => pass.seen.known
  /\ pass.pc \in {"before", "download", "after"} => pass.gen \in Generations
  /\ pass.pc \in {"download", "after"} => pass.gen <= remoteFile.gen
  /\ pass.pc = "after" => pass.bytes \in pass.gen..remoteFile.gen

\* A preview, and an import that started from one, has the bytes of its row.
ImportOK ==
  /\ import \in Imports /\ import.gen \in Generations \cup {0}
  /\ import.pc # "idle" => import.gen \in Generations /\ import.bytes = import.gen
  /\ shown = [g \in Generations |-> shown[g]]
  /\ \A g \in Generations : shown[g] \in {NoContent, g}

DriveInv == ItemsOK /\ RemoteOK /\ NodeOK /\ PassOK /\ ImportOK /\ PendingIsStored

-----------------------------------------------------------------------------
(* Watched folders: the inductive invariant *)

FileStates ==
  {"ABSENT", "DISCOVERED", "PROCESSING", "READY", "STAGED", "FAILED", "IGNORED", "REMOVED"}
FileRows ==
  [state : FileStates, tries : 0..MaxAttemptsOnDisk, token : Nat, live : BOOLEAN,
   origin : {"none", "DISCOVERED", "READY"}, run : Nat]
Jobs == [pc : {"idle", "read", "preview", "start", "stage"}, gen : Nat, token : Nat, bytes : Nat]

FileOK(row, g) ==
  /\ row \in FileRows
  /\ (row.state = "PROCESSING") = (row.token # NoClaimToken)
  /\ (row.state = "STAGED") = (row.run # 0)
  /\ row.state = "STAGED" => row.run = g
  /\ row.state = "PROCESSING" => row.origin # "none"

FilesOK ==
  /\ files = [g \in Versions |-> files[g]]
  /\ \A g \in Versions : FileOK(files[g], g)

DiskOK == disk \in Versions \cup {NoVersion}

JobOK ==
  /\ job \in Jobs
  /\ job.pc # "idle" => job.gen \in Versions
  /\ job.pc \in {"preview", "start", "stage"} => job.bytes = job.gen
  /\ previews = [g \in Versions |-> previews[g]]
  /\ \A g \in Versions : previews[g] \in {0, g}

\* Every row that is not retired or staged, an ignored one too (it can be
\* retried), is of the generation listed or was reopened.
ListedOK ==
  \A g \in Versions :
    files[g].state \notin {"ABSENT", "REMOVED", "STAGED"} => g = listed \/ g \in reopened

FolderInv == FilesOK /\ DiskOK /\ JobOK /\ ListedOK

-----------------------------------------------------------------------------
(* Google Drive: what the store functions make of a row *)

\* The new row is one of generation g, and is open only if the old one was.
Keeps(new, row, g) == ItemOK(new, g) /\ (new.state \in Open => row.state \in Open)

LEMMA RecoverItem ==
  ASSUME NEW g \in Generations, NEW row, ItemOK(row, g)
  PROVE  Keeps(recover_expired_inbox_leases_in(row), row, g)
<1> DEFINE new == recover_expired_inbox_leases_in(row)
<1>1. row \in Items
  BY DEF ItemOK
<1>2. CASE row.state = "PROCESSING" /\ ~row.live
  BY <1>1, <1>2
  DEF ItemOK, Keeps, Items, ItemStates, Open, Reviewable, recover_expired_inbox_leases_in, Unleased,
      NoLease, NoContent
<1>3. CASE ~(row.state = "PROCESSING" /\ ~row.live)
  BY <1>3 DEF Keeps, recover_expired_inbox_leases_in
<1> QED
  BY <1>2, <1>3

LEMMA ClaimItem ==
  ASSUME NEW g \in Generations, NEW row, ItemOK(row, g), CanClaim(row), NEW t \in Nat \ {0}
  PROVE  Keeps(claim_inbox(row, t), row, g)
<1> DEFINE new == claim_inbox(row, t)
<1>1. row \in Items /\ MaxAttempts \in Nat /\ row.state \in Reviewable /\ row.tries < MaxAttempts
  BY StoreAssumption DEF ItemOK, CanClaim
<1>2. row.tries + 1 \in 0..MaxAttempts
  BY <1>1 DEF Items
<1> DEFINE lent == [row EXCEPT !.state = "PROCESSING", !.token = t, !.live = TRUE]
<1>3. new = [[lent EXCEPT !.origin = row.state] EXCEPT !.tries = row.tries + 1]
  BY <1>1 DEF claim_inbox, Items
<1>4. /\ lent \in Items /\ lent.state = "PROCESSING" /\ lent.token = t
      /\ lent.content = row.content /\ lent.run = row.run
  BY <1>1 DEF Items, ItemStates, Open
<1> HIDE DEF new, lent
<1>6. /\ new \in Items /\ new.state = "PROCESSING" /\ new.origin = row.state /\ new.token = t
      /\ new.content = row.content /\ new.run = row.run
  BY <1>1, <1>2, <1>3, <1>4 DEF Items, Reviewable
<1>5. ItemOK(new, g)
  BY <1>1, <1>6 DEF ItemOK, Reviewable, NoLease, NoContent
<1> QED
  BY <1>1, <1>5 DEF Keeps, Open, new

LEMMA FailItem ==
  ASSUME NEW g \in Generations, NEW row, ItemOK(row, g), row.state = "PROCESSING"
  PROVE  Keeps(fail_inbox(row), row, g)
<1>1. row \in Items
  BY DEF ItemOK
<1> QED
  BY <1>1
  DEF ItemOK, Keeps, Items, ItemStates, Open, Reviewable, fail_inbox, Unleased, NoLease, NoContent

LEMMA ReadyItem ==
  ASSUME NEW g \in Generations, NEW row, ItemOK(row, g), row.state = "PROCESSING"
  PROVE  Keeps(mark_inbox_ready(row, g), row, g)
<1>1. row \in Items /\ g \in Nat \ {0}
  BY StoreAssumption DEF ItemOK, Generations
<1> QED
  BY <1>1
  DEF ItemOK, Keeps, Items, ItemStates, Open, Reviewable, mark_inbox_ready, Unleased, NoLease, NoContent

LEMMA StageItem ==
  ASSUME NEW g \in Generations, NEW row, ItemOK(row, g), row.state = "PROCESSING", row.content = g
  PROVE  Keeps(mark_inbox_staged(row, g), row, g)
<1>1. row \in Items /\ g \in Nat \ {0}
  BY StoreAssumption DEF ItemOK, Generations
<1> QED
  BY <1>1
  DEF ItemOK, Keeps, Items, ItemStates, Open, Reviewable, mark_inbox_staged, Unleased, NoLease, NoContent

LEMMA IgnoreItem ==
  ASSUME NEW g \in Generations, NEW row, ItemOK(row, g), CanIgnore(row)
  PROVE  Keeps(ignore_inbox(row), row, g)
<1>1. row \in Items
  BY DEF ItemOK
<1> QED
  BY <1>1
  DEF ItemOK, Keeps, Items, ItemStates, Open, Reviewable, CanIgnore, ignore_inbox, Unleased, NoLease,
      NoContent

LEMMA RetryItem ==
  ASSUME NEW g \in Generations, NEW row, ItemOK(row, g), CanRetry(row)
  PROVE  Keeps(retry_inbox(row), row, g)
<1>1. row \in Items
  BY DEF ItemOK
<1> QED
  BY <1>1
  DEF ItemOK, Keeps, Items, ItemStates, Open, Reviewable, CanRetry, retry_inbox, NoLease, NoContent

LEMMA ExpireItem ==
  ASSUME NEW g \in Generations, NEW row, ItemOK(row, g)
  PROVE  Keeps([row EXCEPT !.live = FALSE], row, g)
<1>1. row \in Items
  BY DEF ItemOK
<1> QED
  BY <1>1 DEF ItemOK, Keeps, Items, ItemStates, Open, Reviewable, NoLease, NoContent

\* A reopened row is open again although it was not.
LEMMA ReopenItem ==
  ASSUME NEW g \in Generations, NEW row, ItemOK(row, g), row.state = "STAGED"
  PROVE  ItemOK(reopen_staged_inbox(row), g)
<1>1. row \in Items
  BY DEF ItemOK
<1> QED
  BY <1>1 DEF ItemOK, Items, ItemStates, Open, Reviewable, reopen_staged_inbox, NoLease, NoContent

\* Discovery opens the row of the new generation and leaves the others open only
\* if the file is in the tree and is not known at another generation.
LEMMA DiscoverItem ==
  ASSUME NEW g \in Generations, ItemsOK, NEW old, NEW new, new.tree \in BOOLEAN,
         DiscoverFits(discover_items(items, old, new))
  PROVE  LET row == discover_items(items, old, new)[g] IN
         /\ ItemOK(row, g)
         /\ row.state \in Open =>
              /\ new.tree
              /\ g = new.gen \/ (items[g].state \in Open /\ ~(old.known /\ old.gen # new.gen))
<1> DEFINE row == items[g]
<1> DEFINE kept == retire(row, g, old, new)
<1> DEFINE found == IF new.tree /\ g = new.gen /\ kept.state \in {"ABSENT", "REMOVED"}
                    THEN [kept EXCEPT !.state = "DISCOVERED"] ELSE kept
<1>1. discover_items(items, old, new)[g] = found
  BY DEF discover_items
<1>2. ItemOK(row, g) /\ row \in Items
  BY DEF ItemsOK, ItemOK
<1>3. found.content # NoContent => found.state \notin {"REMOVED", "DISCOVERED"}
  BY <1>1 DEF DiscoverFits
<1> HIDE DEF row
<1>4. /\ kept \in Items /\ kept.content = row.content /\ kept.run = row.run
      /\ (kept.state = "PROCESSING") = (kept.token # NoLease)
      /\ kept = row \/ (kept.state = "REMOVED" /\ row.state \in Open)
      /\ kept.state \in Open =>
           new.tree /\ row.state \in Open /\ ~(old.known /\ old.gen # new.gen /\ g # new.gen)
  <2>1. CASE kept = row
    BY <1>2, <2>1 DEF retire, ItemOK, Unleased, Open, Items, ItemStates, Reviewable
  <2>2. CASE kept # row
    BY <1>2, <2>2 DEF retire, ItemOK, Unleased, Open, Items, ItemStates, Reviewable, NoLease
  <2> QED
    BY <2>1, <2>2
<1> HIDE DEF kept
<1>5. CASE found = kept
  <2>1. ItemOK(kept, g)
    BY <1>2, <1>3, <1>4, <1>5 DEF ItemOK, Open, Reviewable
  <2>2. ItemOK(found, g)
    BY <1>5, <2>1
  <2>3. kept.state \in Open => new.tree /\ (g = new.gen \/ (row.state \in Open /\ ~(old.known /\ old.gen # new.gen)))
    BY <1>4
  <2> QED
    BY <1>1, <1>5, <2>2, <2>3 DEF row
<1>6. CASE found # kept
  <2>1. /\ new.tree /\ g = new.gen /\ kept.state \in {"ABSENT", "REMOVED"}
        /\ found = [kept EXCEPT !.state = "DISCOVERED"]
    BY <1>6
  <2> HIDE DEF found
  <2>2. ItemOK(found, g)
    BY <1>2, <1>3, <1>4, <2>1 DEF ItemOK, Items, ItemStates, Open, Reviewable, NoLease, NoContent
  <2> QED
    BY <1>1, <2>1, <2>2 DEF row
<1> QED
  BY <1>5, <1>6

-----------------------------------------------------------------------------
(* Google Drive: what a step does to the rows *)

\* Rows are only rewritten one by one, the node and the history stay.
RowsKept ==
  /\ items' = [g \in Generations |-> items'[g]]
  /\ \A g \in Generations : Keeps(items'[g], items[g], g)
  /\ UNCHANGED <<driveNode, driveReopened>>

LEMMA KeptRows ==
  ASSUME DriveInv, RowsKept
  PROVE  ItemsOK' /\ NodeOK' /\ PendingIsStored'
<1>1. ItemsOK'
  BY DEF RowsKept, Keeps, ItemsOK
<1> QED
  BY <1>1 DEF DriveInv, RowsKept, Keeps, NodeOK, PendingIsStored

LEMMA SameRows ==
  ASSUME DriveInv, UNCHANGED <<items, driveNode, driveReopened>>
  PROVE  RowsKept
  BY DEF DriveInv, ItemsOK, RowsKept, Keeps

LEMMA RecoveredRows ==
  ASSUME ItemsOK, NEW g \in Generations
  PROVE  ItemOK(Recovered[g], g) /\ Keeps(Recovered[g], items[g], g)
  BY RecoverItem DEF Recovered, ItemsOK, Keeps

LEMMA ClaimedRow ==
  ASSUME ItemsOK, NEW g \in Generations, CanClaim(Recovered[g])
  PROVE  Keeps(claim_inbox(Recovered[g], FreshLease), items[g], g)
  BY RecoveredRows, FreshLeases, ClaimItem DEF Keeps

\* A row that a holder of its lease answers for is the one that is rewritten.
LEMMA AnsweredRow ==
  ASSUME ItemsOK, NEW h \in Generations, NEW row, Keeps(row, items[h], h),
         items' \in {items, [items EXCEPT ![h] = row]}, UNCHANGED <<driveNode, driveReopened>>
  PROVE  RowsKept
<1>1. \A g \in Generations : ItemOK(items[g], g)
  BY DEF ItemsOK
<1>2. items = [g \in Generations |-> items[g]]
  BY DEF ItemsOK
<1>3. CASE items' = items
  BY <1>1, <1>2, <1>3 DEF RowsKept, Keeps
<1>4. CASE items' = [items EXCEPT ![h] = row]
  <2>1. items' = [g \in Generations |-> IF g = h THEN row ELSE items[g]]
    BY <1>2, <1>4
  <2> QED
    BY <1>1, <2>1 DEF RowsKept, Keeps
<1> QED
  BY <1>3, <1>4

\* The row a pass or an import has leased, if it has.
LEMMA LeasedRow ==
  ASSUME ItemsOK, NEW g \in Generations, NEW t, holds_inbox_lease(items[g], t)
  PROVE  ItemOK(items[g], g) /\ items[g].state = "PROCESSING"
  BY DEF ItemsOK, holds_inbox_lease

LEMMA HydratedRow ==
  ASSUME ItemsOK, pass.gen \in Generations, NEW row,
         holds_inbox_lease(items[pass.gen], pass.token) => Keeps(row, items[pass.gen], pass.gen),
         hydrate_one(row), UNCHANGED <<driveNode, driveReopened>>
  PROVE  RowsKept
<1>1. CASE holds_inbox_lease(items[pass.gen], pass.token)
  BY <1>1, AnsweredRow DEF hydrate_one
<1>2. CASE ~holds_inbox_lease(items[pass.gen], pass.token)
  <2>1. items' = items
    BY <1>2 DEF hydrate_one
  <2> QED
    BY <2>1 DEF ItemsOK, RowsKept, Keeps
<1> QED
  BY <1>1, <1>2

\* complete_inbox_lease by the screen.
LEMMA CompletedRow ==
  ASSUME ItemsOK, import.gen \in Generations, NEW row,
         holds_inbox_lease(items[import.gen], import.token) => Keeps(row, items[import.gen], import.gen),
         complete_inbox_lease(row), UNCHANGED <<driveNode, driveReopened>>
  PROVE  RowsKept
<1>1. CASE holds_inbox_lease(items[import.gen], import.token)
  <2>1. items' = [items EXCEPT ![import.gen] = row]
    BY <1>1 DEF complete_inbox_lease
  <2> QED
    BY <1>1, <2>1, AnsweredRow
<1>2. CASE ~holds_inbox_lease(items[import.gen], import.token)
  <2>1. items' = [items EXCEPT ![import.gen] = items[import.gen]]
    BY <1>2 DEF complete_inbox_lease
  <2>2. items' = items
    BY <2>1 DEF ItemsOK
  <2> QED
    BY <2>2 DEF ItemsOK, RowsKept, Keeps
<1> QED
  BY <1>1, <1>2

\* A page retires what the file is no longer at, and opens only what it is at.
LEMMA DiscoveredRows ==
  ASSUME DriveInv, discover_file
  PROVE  ItemsOK' /\ NodeOK' /\ PendingIsStored'
<1> DEFINE rows == discover_items(items, driveNode, pass.seen)
<1>1. CASE DiscoverFits(rows)
  <2>1. /\ items' = rows /\ driveNode' = pass.seen
        /\ driveReopened' = {g \in driveReopened : rows[g].state # "REMOVED"}
    BY <1>1 DEF discover_file
  <2>2. pass.seen.tree \in BOOLEAN /\ pass.seen.known
    BY DEF DriveInv, PassOK, Passes, discover_file
  <2>3. ASSUME NEW g \in Generations
        PROVE  /\ ItemOK(rows[g], g)
               /\ rows[g].state \in Open =>
                    /\ pass.seen.tree
                    /\ \/ g = pass.seen.gen
                       \/ items[g].state \in Open /\ ~(driveNode.known /\ driveNode.gen # pass.seen.gen)
    BY <1>1, <2>2, DiscoverItem DEF DriveInv
  <2>4. rows = [g \in Generations |-> rows[g]]
    BY DEF discover_items
  <2> HIDE DEF rows
  <2>5. ItemsOK'
    BY <2>1, <2>3, <2>4 DEF ItemsOK
  <2>6. PendingIsStored'
    <3> SUFFICES ASSUME NEW g \in Generations, rows[g].state \in Open, g \notin driveReopened'
                 PROVE  pass.seen.tree /\ pass.seen.gen = g
      BY <2>1 DEF PendingIsStored
    <3>1. g \notin driveReopened
      BY <2>1 DEF Open, Reviewable
    <3>2. items[g].state \in Open => driveNode.known /\ driveNode.gen = g
      BY <3>1 DEF DriveInv, NodeOK, PendingIsStored
    <3> QED
      BY <2>3, <3>2
  <2> QED
    BY <2>1, <2>2, <2>5, <2>6 DEF NodeOK
<1>2. CASE ~DiscoverFits(rows)
  <2>1. UNCHANGED <<items, driveNode, driveReopened>>
    BY <1>2 DEF discover_file
  <2> QED
    BY <2>1, SameRows, KeptRows
<1> QED
  BY <1>1, <1>2

\* A reopened row is open by the history.
LEMMA ReopenedRows ==
  ASSUME DriveInv, NEW g \in Generations, google_drive_inbox_reopen(g)
  PROVE  ItemsOK' /\ NodeOK' /\ PendingIsStored'
<1>1. items[g].state = "STAGED"
  BY DEF google_drive_inbox_reopen, CanReopen
<1>2. ItemOK(reopen_staged_inbox(items[g]), g)
  BY <1>1, ReopenItem DEF DriveInv, ItemsOK
<1>3. /\ items' = [h \in Generations |-> IF h = g THEN reopen_staged_inbox(items[g]) ELSE items[h]]
      /\ driveReopened' = driveReopened \cup {g} /\ UNCHANGED driveNode
  BY DEF google_drive_inbox_reopen, DriveInv, ItemsOK
<1>4. ItemsOK'
  BY <1>2, <1>3 DEF DriveInv, ItemsOK
<1> QED
  BY <1>3, <1>4 DEF DriveInv, NodeOK, PendingIsStored

LEMMA PassRows ==
  ASSUME DriveInv, claim_and_hydrate \/ metadata_before \/ metadata_after \/ hydration_fails
  PROVE  RowsKept
<1>1. CASE claim_and_hydrate
  <2> DEFINE claimed(g) == items'[g] = claim_inbox(Recovered[g], FreshLease) /\ CanClaim(Recovered[g])
  <2>1. /\ items' = [g \in Generations |-> items'[g]]
        /\ \A g \in Generations : claimed(g) \/ items'[g] = Recovered[g]
        /\ UNCHANGED <<driveNode, driveReopened>>
    BY <1>1 DEF claim_and_hydrate
  <2>2. ASSUME NEW g \in Generations
        PROVE  Keeps(items'[g], items[g], g)
    BY <2>1, RecoveredRows, ClaimedRow DEF DriveInv
  <2> QED
    BY <2>1, <2>2 DEF RowsKept
<1> DEFINE row == items[pass.gen]
<1>2. ASSUME pass.gen \in Generations, holds_inbox_lease(row, pass.token)
      PROVE  Keeps(fail_inbox(row), row, pass.gen) /\ Keeps(mark_inbox_ready(row, pass.gen), row, pass.gen)
  BY <1>2, LeasedRow, FailItem, ReadyItem DEF DriveInv
<1>3. pass.pc \in {"before", "download", "after"} => pass.gen \in Generations
  BY DEF DriveInv, PassOK
<1>4. CASE metadata_before
  <2>1. CASE UNCHANGED <<items, driveNode, driveReopened>>
    BY <2>1, SameRows
  <2>2. CASE hydrate_one(fail_inbox(row))
    BY <1>2, <1>3, <1>4, <2>2, HydratedRow DEF metadata_before, hydrate_one, DriveInv
  <2> QED
    BY <1>4, <2>1, <2>2 DEF metadata_before
<1>5. CASE metadata_after
  <2>1. validate_generation(pass.gen) => pass.bytes = pass.gen
    BY <1>5 DEF metadata_after, validate_generation, DriveInv, PassOK, Passes, RemoteOK, Generations
  <2>2. hydrate_one(mark_inbox_ready(row, pass.gen)) \/ hydrate_one(fail_inbox(row))
    BY <1>5, <2>1 DEF metadata_after
  <2>3. pass.gen \in Generations /\ UNCHANGED <<driveNode, driveReopened>> /\ ItemsOK
    BY <1>3, <1>5, <2>2 DEF metadata_after, hydrate_one, DriveInv
  <2> QED
    BY <1>2, <2>2, <2>3, HydratedRow
<1>6. CASE hydration_fails
  <2>1. hydrate_one(fail_inbox(row)) /\ pass.gen \in Generations
    BY <1>3, <1>6 DEF hydration_fails
  <2>2. UNCHANGED <<driveNode, driveReopened>> /\ ItemsOK
    BY <2>1 DEF hydrate_one, DriveInv
  <2> QED
    BY <1>2, <2>1, <2>2, HydratedRow
<1> QED
  BY <1>1, <1>4, <1>5, <1>6

LEMMA ClaimRows ==
  ASSUME DriveInv, NEW g \in Generations, claim_household_inbox(g)
  PROVE  RowsKept
<1>1. /\ items' = [Recovered EXCEPT ![g] = claim_inbox(Recovered[g], FreshLease)]
      /\ CanClaim(Recovered[g]) /\ UNCHANGED <<driveNode, driveReopened>>
  BY DEF claim_household_inbox
<1>2. items' = [h \in Generations |->
                  IF h = g THEN claim_inbox(Recovered[g], FreshLease) ELSE Recovered[h]]
  BY <1>1 DEF Recovered
<1>3. ASSUME NEW h \in Generations
      PROVE  Keeps(items'[h], items[h], h)
  BY <1>1, <1>2, RecoveredRows, ClaimedRow DEF DriveInv
<1> QED
  BY <1>1, <1>2, <1>3 DEF RowsKept

LEMMA ListRows ==
  ASSUME DriveInv, list_inbox
  PROVE  RowsKept
  BY RecoveredRows DEF list_inbox, RowsKept, Recovered, DriveInv

LEMMA ExpiredRows ==
  ASSUME DriveInv, InboxLeaseExpires
  PROVE  RowsKept
  BY ExpireItem DEF InboxLeaseExpires, RowsKept, DriveInv, ItemsOK

LEMMA UserRows ==
  ASSUME DriveInv, NEW g \in Generations, google_drive_inbox_ignore(g) \/ google_drive_inbox_retry(g)
  PROVE  RowsKept
<1>1. ItemOK(items[g], g) /\ ItemsOK
  BY DEF DriveInv, ItemsOK
<1>2. CASE google_drive_inbox_ignore(g)
  BY <1>1, <1>2, IgnoreItem, AnsweredRow DEF google_drive_inbox_ignore
<1>3. CASE google_drive_inbox_retry(g)
  BY <1>1, <1>3, RetryItem, AnsweredRow DEF google_drive_inbox_retry
<1> QED
  BY <1>2, <1>3

LEMMA ImportRows ==
  ASSUME DriveInv, (\E ok \in BOOLEAN : start_drive_import(ok)) \/ google_drive_inbox_mark_staged
  PROVE  RowsKept
<1> DEFINE row == items[import.gen]
<1>1. ItemsOK /\ import.gen \in Generations /\ import.bytes = import.gen
  BY DEF DriveInv, ImportOK, start_drive_import, google_drive_inbox_mark_staged
<1>2. UNCHANGED <<driveNode, driveReopened>>
  BY DEF start_drive_import, google_drive_inbox_mark_staged
<1>3. holds_inbox_lease(row, import.token) =>
        Keeps(fail_inbox(row), row, import.gen)
        /\ (row.content = import.gen => Keeps(mark_inbox_staged(row, import.gen), row, import.gen))
  BY <1>1, LeasedRow, FailItem, StageItem
<1>4. \/ UNCHANGED items
      \/ complete_inbox_lease(fail_inbox(row))
      \/ row.content = import.gen /\ complete_inbox_lease(mark_inbox_staged(row, import.gen))
  BY <1>1 DEF start_drive_import, google_drive_inbox_mark_staged
<1>5. CASE UNCHANGED items
  BY <1>2, <1>5, SameRows
<1>6. CASE complete_inbox_lease(fail_inbox(row))
  BY <1>1, <1>2, <1>3, <1>6, CompletedRow
<1>7. CASE row.content = import.gen /\ complete_inbox_lease(mark_inbox_staged(row, import.gen))
  BY <1>1, <1>2, <1>3, <1>7, CompletedRow
<1> QED
  BY <1>4, <1>5, <1>6, <1>7

LEMMA DriveRows ==
  ASSUME DriveInv, DriveNext
  PROVE  ItemsOK' /\ NodeOK' /\ PendingIsStored'
<1>1. CASE RemoteChange \/ fetch_file \/ download_bytes \/ DriveRestart
  BY <1>1, SameRows, KeptRows DEF RemoteChange, fetch_file, download_bytes, DriveRestart
<1>2. CASE discover_file
  BY <1>2, DiscoveredRows
<1>3. CASE claim_and_hydrate \/ metadata_before \/ metadata_after \/ hydration_fails
  BY <1>3, PassRows, KeptRows
<1>4. CASE DriveScreen
  <2>1. CASE list_inbox
    BY <2>1, ListRows, KeptRows
  <2>2. CASE (\E ok \in BOOLEAN : start_drive_import(ok)) \/ google_drive_inbox_mark_staged
    BY <2>2, ImportRows, KeptRows
  <2>3. ASSUME NEW g \in Generations,
               \/ read_hydrated_inbox_file(g) \/ commit_drive_import(g) \/ rollback_drive_import(g)
        PROVE  ItemsOK' /\ NodeOK' /\ PendingIsStored'
    BY <2>3, SameRows, KeptRows
    DEF read_hydrated_inbox_file, commit_drive_import, rollback_drive_import
  <2>4. ASSUME NEW g \in Generations, claim_household_inbox(g)
        PROVE  ItemsOK' /\ NodeOK' /\ PendingIsStored'
    BY <2>4, ClaimRows, KeptRows
  <2>5. ASSUME NEW g \in Generations, google_drive_inbox_ignore(g) \/ google_drive_inbox_retry(g)
        PROVE  ItemsOK' /\ NodeOK' /\ PendingIsStored'
    BY <2>5, UserRows, KeptRows
  <2> QED
    BY <1>4, <2>1, <2>2, <2>3, <2>4, <2>5, ReopenedRows DEF DriveScreen
<1>5. CASE InboxLeaseExpires
  BY <1>5, ExpiredRows, KeptRows
<1> QED
  BY <1>1, <1>2, <1>3, <1>4, <1>5 DEF DriveNext, DrivePass

-----------------------------------------------------------------------------
(* Google Drive: what a step does to the pass and to the import *)

LEMMA NoPassOK ==
  ASSUME RemoteOK'
  PROVE  /\ NoPass \in Passes
         /\ pass' = NoPass => PassOK'
         /\ pass' = [NoPass EXCEPT !.pc = "claim"] => PassOK'
<1>1. NoPass \in Passes /\ 1 \in Generations
  BY StoreAssumption DEF NoPass, Passes, UnknownNode, NoLease, NoContent, Generations
<1> QED
  BY <1>1 DEF NoPass, Passes, PassOK

\* The next row of a batch, or the end of the pass.
LEMMA HydratePass ==
  ASSUME DriveInv, RemoteOK', NEW row, hydrate_one(row), UNCHANGED remoteFile
  PROVE  PassOK'
<1> DEFINE rest == {g \in Generations \ {pass.gen} : holds_inbox_lease(items[g], pass.token)}
<1>1. CASE pass' = NoPass
  BY <1>1, NoPassOK
<1>2. CASE pass' # NoPass
  <2>1. /\ rest # {}
        /\ pass' = [pass EXCEPT !.pc = "before", !.gen = CHOOSE g \in rest : TRUE, !.bytes = NoContent]
    BY <1>2 DEF hydrate_one
  <2>2. PICK g \in rest : pass' = [pass EXCEPT !.pc = "before", !.gen = g, !.bytes = NoContent]
    BY <2>1
  <2>3. g \in Generations /\ g \in Nat
    BY <2>2 DEF Generations
  <2> QED
    BY <2>2, <2>3 DEF DriveInv, PassOK, Passes, NoContent
<1> QED
  BY <1>1, <1>2

LEMMA DrivePassStep ==
  ASSUME DriveInv, DriveNext
  PROVE  RemoteOK' /\ PassOK'
<1> USE DEF DriveInv
<1>1. /\ RemoteOK' /\ remoteFile'.gen >= remoteFile.gen
      /\ RemoteChange => pass' = pass
      /\ ~RemoteChange => remoteFile' = remoteFile
  <2>1. MaxGeneration \in Nat
    BY StoreAssumption
  <2>2. CASE RemoteChange
    <3>1. remoteFile \in [gen : Generations, present : BOOLEAN] /\ pass' = pass
      BY <2>2 DEF RemoteOK, RemoteChange
    <3>2. CASE remoteFile.gen < MaxGeneration /\ remoteFile' = [remoteFile EXCEPT !.gen = remoteFile.gen + 1]
      <4>1. remoteFile.gen + 1 \in Generations /\ remoteFile.gen + 1 >= remoteFile.gen
        BY <2>1, <3>1, <3>2 DEF Generations
      <4> QED
        BY <2>2, <3>1, <3>2, <4>1 DEF RemoteOK
    <3>3. CASE remoteFile' = [remoteFile EXCEPT !.present = ~remoteFile.present]
      <4>1. remoteFile.gen \in Int
        BY <3>1 DEF Generations
      <4> DEFINE flipped == ~remoteFile.present
      <4>2. flipped \in BOOLEAN /\ remoteFile' = [remoteFile EXCEPT !.present = flipped]
        BY <3>3, Zenon
      <4> HIDE DEF flipped
      <4> QED
        BY <2>2, <3>1, <4>1, <4>2 DEF RemoteOK
    <3> QED
      BY <2>2, <3>2, <3>3 DEF RemoteChange
  <2>3. CASE ~RemoteChange
    <3>1. remoteFile' = remoteFile
      BY <2>3
      DEF DriveNext, DrivePass, DriveScreen, fetch_file, discover_file, claim_and_hydrate,
          metadata_before, download_bytes, metadata_after, hydration_fails, list_inbox,
          google_drive_inbox_mark_staged, start_drive_import, read_hydrated_inbox_file,
          claim_household_inbox, google_drive_inbox_reopen, google_drive_inbox_ignore,
          google_drive_inbox_retry, commit_drive_import, rollback_drive_import, InboxLeaseExpires,
          DriveRestart
    <3> QED
      BY <2>3, <3>1 DEF RemoteOK, Generations
  <2> QED
    BY <2>2, <2>3
<1>2. CASE RemoteChange
  BY <1>1, <1>2 DEF PassOK, Passes, RemoteOK, Generations
<1>3. CASE fetch_file
  BY <1>1, <1>3 DEF fetch_file, node, PassOK, Passes, RemoteOK
<1>4. CASE discover_file \/ DriveRestart
  BY <1>1, <1>4, NoPassOK DEF discover_file, DriveRestart
<1>5. CASE claim_and_hydrate
  <2> DEFINE found == {g \in Generations : Recovered[g].state = "DISCOVERED"}
  <2>1. CASE pass' = NoPass
    BY <1>1, <2>1, NoPassOK
  <2>2. CASE pass' # NoPass
    <3>1. PICK g \in found :
            pass' = [NoPass EXCEPT !.pc = "before", !.gen = g, !.token = FreshLease]
      BY <1>5, <2>2 DEF claim_and_hydrate
    <3>2. g \in Generations /\ g \in Nat /\ FreshLease \in Nat
      BY <3>1, FreshLeases DEF Generations
    <3> QED
      BY <1>1, <3>1, <3>2, NoPassOK DEF PassOK, Passes
  <2> QED
    BY <2>1, <2>2
<1>6. CASE metadata_before \/ metadata_after \/ hydration_fails
  <2>1. CASE \E row : hydrate_one(row)
    BY <1>1, <1>6, <2>1, HydratePass DEF metadata_before, metadata_after, hydration_fails
  <2>2. CASE pass' = [pass EXCEPT !.pc = "download"] /\ validate_generation(pass.gen)
             /\ pass.pc = "before" /\ remoteFile' = remoteFile
    BY <1>1, <2>2 DEF validate_generation, PassOK, Passes, RemoteOK, Generations
  <2> QED
    BY <1>6, <2>1, <2>2 DEF metadata_before, metadata_after, hydration_fails
<1>7. CASE download_bytes
  <2>1. /\ pass' = [pass EXCEPT !.pc = "after", !.bytes = remoteFile.gen]
        /\ pass.pc = "download" /\ remoteFile' = remoteFile
    BY <1>1, <1>7 DEF download_bytes, RemoteChange
  <2>2. /\ pass \in Passes /\ pass.gen \in Generations /\ pass.gen <= remoteFile.gen
        /\ remoteFile.gen \in Nat /\ pass.gen \in Nat
    BY <2>1 DEF PassOK, RemoteOK, Generations
  <2>3. pass' \in Passes /\ pass'.pc = "after" /\ pass'.gen = pass.gen /\ pass'.bytes = remoteFile.gen
    BY <2>1, <2>2 DEF Passes
  <2> QED
    BY <1>1, <2>1, <2>2, <2>3 DEF PassOK
<1>8. CASE UNCHANGED <<pass, remoteFile>>
  BY <1>1, <1>8 DEF PassOK
<1> QED
  BY <1>1, <1>2, <1>3, <1>4, <1>5, <1>6, <1>7, <1>8
  DEF DriveNext, DrivePass, DriveScreen, list_inbox,
      google_drive_inbox_mark_staged, start_drive_import, read_hydrated_inbox_file,
      claim_household_inbox, google_drive_inbox_reopen, google_drive_inbox_ignore,
      google_drive_inbox_retry, commit_drive_import, rollback_drive_import, InboxLeaseExpires

\* Previews are taken from rows and imports from previews.
LEMMA DriveImportStep ==
  ASSUME DriveInv, DriveNext
  PROVE  ImportOK'
<1> DEFINE ShownOK == shown = [g \in Generations |-> shown[g]]
                      /\ \A g \in Generations : shown[g] \in {NoContent, g}
<1> USE DEF DriveInv
<1>0. ShownOK /\ NoImport \in Imports /\ NoImport.gen = 0 /\ NoImport.pc = "idle"
  BY DEF ImportOK, NoImport, Imports, NoLease, NoContent
<1>1. CASE UNCHANGED <<import, shown>>
  BY <1>1 DEF ImportOK
<1>2. CASE list_inbox
  BY <1>2 DEF list_inbox, ImportOK, NoContent
<1>3. CASE DriveRestart
  BY <1>0, <1>3 DEF DriveRestart, ImportOK
<1>4. ASSUME NEW g \in Generations, read_hydrated_inbox_file(g)
      PROVE  ImportOK'
  <2>1. items[g].content \in {NoContent, g}
    BY DEF ItemsOK, ItemOK
  <2>2. shown' = [h \in Generations |-> IF h = g THEN items[g].content ELSE shown[h]] /\ UNCHANGED import
    BY <1>0, <1>4 DEF read_hydrated_inbox_file
  <2>3. ShownOK'
    BY <1>0, <2>1, <2>2
  <2> QED
    BY <2>2, <2>3 DEF ImportOK
<1>5. ASSUME NEW g \in Generations, claim_household_inbox(g)
      PROVE  ImportOK'
  <2>1. /\ import' = [pc |-> "start", gen |-> g, token |-> FreshLease, bytes |-> shown[g]]
        /\ shown[g] = g /\ g \in Nat /\ UNCHANGED shown
    BY <1>0, <1>5 DEF claim_household_inbox, Generations
  <2> QED
    BY <1>0, <2>1, FreshLeases DEF ImportOK, Imports
<1>6. ASSUME NEW ok \in BOOLEAN, start_drive_import(ok)
      PROVE  ImportOK'
  <2>1. /\ import' \in {[import EXCEPT !.pc = "stage"], NoImport} /\ import.pc = "start"
        /\ UNCHANGED shown
    BY <1>6 DEF start_drive_import
  <2> QED
    BY <1>0, <2>1 DEF ImportOK, Imports
<1>7. CASE google_drive_inbox_mark_staged
  BY <1>0, <1>7 DEF google_drive_inbox_mark_staged, ImportOK
<1>8. ASSUME NEW g \in Generations, google_drive_inbox_reopen(g)
      PROVE  ImportOK'
  <2>1. shown' = [h \in Generations |-> IF h = g THEN NoContent ELSE shown[h]] /\ UNCHANGED import
    BY <1>0, <1>8 DEF google_drive_inbox_reopen
  <2>2. ShownOK'
    BY <1>0, <2>1
  <2> QED
    BY <2>1, <2>2 DEF ImportOK
<1>9. \/ UNCHANGED <<import, shown>>
      \/ list_inbox \/ DriveRestart \/ google_drive_inbox_mark_staged
      \/ \E ok \in BOOLEAN : start_drive_import(ok)
      \/ \E g \in Generations :
           read_hydrated_inbox_file(g) \/ claim_household_inbox(g) \/ google_drive_inbox_reopen(g)
  BY DEF DriveNext, RemoteChange, DrivePass, DriveScreen, fetch_file, discover_file,
         claim_and_hydrate, metadata_before, download_bytes, metadata_after, hydration_fails,
         hydrate_one, google_drive_inbox_ignore, google_drive_inbox_retry, commit_drive_import,
         rollback_drive_import, InboxLeaseExpires
<1> QED
  BY <1>1, <1>2, <1>3, <1>4, <1>5, <1>6, <1>7, <1>8, <1>9

LEMMA DriveInvInit == DriveInit => DriveInv
<1> SUFFICES ASSUME DriveInit
             PROVE  DriveInv
  OBVIOUS
<1>0. 1 \in Generations /\ MaxAttempts \in Nat
  BY StoreAssumption DEF Generations
<1>1. ItemsOK
  BY <1>0
  DEF DriveInit, ItemsOK, ItemOK, NoItem, Items, ItemStates, Open, Reviewable, NoLease, NoContent
<1>2. RemoteOK /\ NodeOK
  BY <1>0 DEF DriveInit, RemoteOK, NodeOK, UnknownNode
<1>3. PassOK
  BY <1>0 DEF DriveInit, PassOK, Passes, NoPass, UnknownNode, NoLease, NoContent
<1>4. ImportOK
  BY DEF DriveInit, ImportOK, Imports, NoImport, NoLease, NoContent
<1>5. PendingIsStored
  BY DEF DriveInit, PendingIsStored, NoItem, Open, Reviewable
<1> QED
  BY <1>1, <1>2, <1>3, <1>4, <1>5 DEF DriveInv

LEMMA DriveInvNext == DriveInv /\ [DriveNext]_driveVars => DriveInv'
<1> SUFFICES ASSUME DriveInv, [DriveNext]_driveVars
             PROVE  DriveInv'
  OBVIOUS
<1>1. CASE DriveNext
  BY <1>1, DriveRows, DrivePassStep, DriveImportStep DEF DriveInv
<1>2. CASE UNCHANGED driveVars
  BY <1>2 DEF driveVars, DriveInv, ItemsOK, RemoteOK, NodeOK, PassOK, ImportOK, PendingIsStored
<1> QED
  BY <1>1, <1>2

LEMMA DriveInvTypes == DriveInv => DriveTypeOK /\ ContentIsOfGeneration
<1> SUFFICES ASSUME DriveInv
             PROVE  DriveTypeOK /\ ContentIsOfGeneration
  OBVIOUS
<1>1. \A g \in Generations : ItemOK(items[g], g)
  BY DEF DriveInv, ItemsOK
<1>2. pass.gen \in Generations \cup {0} /\ import.gen \in Generations \cup {0}
  BY DEF DriveInv, PassOK, ImportOK
<1> QED
  BY <1>1, <1>2 DEF DriveTypeOK, ContentIsOfGeneration, ItemOK, Items, DiscoverFits

-----------------------------------------------------------------------------
(* Watched folders: what the store functions make of a row *)

\* The new row is one of generation g, and it is offered only if the old one was.
Waits(row) == row.state \notin {"ABSENT", "REMOVED", "STAGED"}
KeepsFile(new, row, g) == FileOK(new, g) /\ (Waits(new) => Waits(row))

LEMMA RecoverFile ==
  ASSUME NEW g \in Versions, NEW row, FileOK(row, g)
  PROVE  KeepsFile(recover_expired_leases_in(row), row, g)
<1>1. row \in FileRows
  BY DEF FileOK
<1>2. CASE row.state = "PROCESSING" /\ ~row.live
  BY <1>1, <1>2
  DEF FileOK, KeepsFile, Waits, FileRows, FileStates, recover_expired_leases_in, Unclaimed, NoClaimToken
<1>3. CASE ~(row.state = "PROCESSING" /\ ~row.live)
  BY <1>3 DEF KeepsFile, recover_expired_leases_in
<1> QED
  BY <1>2, <1>3

LEMMA ClaimFile ==
  ASSUME NEW g \in Versions, NEW row, FileOK(row, g), CanClaimFile(row), NEW t \in Nat \ {0}
  PROVE  KeepsFile(claim(row, t), row, g)
<1> DEFINE new == claim(row, t)
<1> DEFINE tries == IF row.state = "DISCOVERED" THEN row.tries + 1 ELSE row.tries
<1>1. /\ row \in FileRows /\ row.state \in {"DISCOVERED", "READY"}
      /\ row.state = "DISCOVERED" => row.tries < MaxAttemptsOnDisk
  BY DEF FileOK, CanClaimFile
<1>2. tries \in 0..MaxAttemptsOnDisk
  BY <1>1, FolderAssumption DEF FileRows
<1> DEFINE lent == [row EXCEPT !.state = "PROCESSING", !.token = t, !.live = TRUE]
<1>3. new = [[lent EXCEPT !.origin = row.state] EXCEPT !.tries = tries]
  BY <1>1 DEF claim, FileRows
<1>4. lent \in FileRows /\ lent.state = "PROCESSING" /\ lent.token = t /\ lent.run = row.run
  BY <1>1 DEF FileRows, FileStates
<1> HIDE DEF new, lent, tries
<1>5. /\ new \in FileRows /\ new.state = "PROCESSING" /\ new.origin = row.state /\ new.token = t
      /\ new.run = row.run
  BY <1>1, <1>2, <1>3, <1>4 DEF FileRows
<1>6. FileOK(new, g)
  BY <1>1, <1>5 DEF FileOK, NoClaimToken
<1> QED
  BY <1>1, <1>6 DEF KeepsFile, Waits, new

\* The answers of whoever holds a claim.
LEMMA AnswerFile ==
  ASSUME NEW g \in Versions, NEW row, FileOK(row, g), row.state = "PROCESSING"
  PROVE  /\ KeepsFile(mark_ready(row), row, g)
         /\ KeepsFile(mark_failed(row), row, g)
         /\ KeepsFile(mark_staged(row, g), row, g)
<1>1. row \in FileRows /\ g \in Nat \ {0} /\ row.run = 0
  BY FolderAssumption DEF FileOK, FileRows
<1>2. KeepsFile(mark_ready(row), row, g)
  BY <1>1 DEF FileOK, KeepsFile, Waits, FileRows, FileStates, mark_ready, Unclaimed, NoClaimToken
<1>3. KeepsFile(mark_failed(row), row, g)
  BY <1>1 DEF FileOK, KeepsFile, Waits, FileRows, FileStates, mark_failed, Unclaimed, NoClaimToken
<1>4. KeepsFile(mark_staged(row, g), row, g)
  BY <1>1 DEF FileOK, KeepsFile, Waits, FileRows, FileStates, mark_staged, Unclaimed, NoClaimToken
<1> QED
  BY <1>2, <1>3, <1>4

LEMMA IgnoreFile ==
  ASSUME NEW g \in Versions, NEW row, FileOK(row, g), CanIgnoreFile(row)
  PROVE  KeepsFile(ignore(row), row, g)
<1>1. row \in FileRows
  BY DEF FileOK
<1> QED
  BY <1>1 DEF FileOK, KeepsFile, Waits, FileRows, FileStates, CanIgnoreFile, ignore, NoClaimToken

LEMMA RetryFile ==
  ASSUME NEW g \in Versions, NEW row, FileOK(row, g), NEW back, CanRetryFile(row, back)
  PROVE  FileOK(retry(row), g) /\ (Waits(row) \/ row.state = "STAGED")
<1>1. row \in FileRows /\ 0 \in 0..MaxAttemptsOnDisk
  BY FolderAssumption DEF FileOK
<1> QED
  BY <1>1 DEF FileOK, Waits, FileRows, FileStates, CanRetryFile, retry, NoClaimToken

LEMMA ExpireFile ==
  ASSUME NEW g \in Versions, NEW row, FileOK(row, g)
  PROVE  KeepsFile([row EXCEPT !.live = FALSE], row, g)
<1>1. row \in FileRows
  BY DEF FileOK
<1> QED
  BY <1>1 DEF FileOK, KeepsFile, Waits, FileRows, FileStates, NoClaimToken

\* A scan leaves only the generation it saw waiting.
LEMMA ReconcileFile ==
  ASSUME NEW g \in Versions, NEW row, FileOK(row, g), NEW saw
  PROVE  LET new == reconcile_row(row, g, saw) IN
         FileOK(new, g) /\ (Waits(new) => g = saw)
<1>1. row \in FileRows
  BY DEF FileOK
<1>2. CASE g # saw /\ row.state \notin {"ABSENT", "REMOVED", "STAGED"}
  BY <1>1, <1>2
  DEF FileOK, Waits, FileRows, FileStates, reconcile_row, Unclaimed, NoClaimToken
<1>3. CASE g = saw /\ row.state \in {"ABSENT", "REMOVED"}
  BY <1>1, <1>3 DEF FileOK, Waits, FileRows, FileStates, reconcile_row, NoClaimToken
<1>4. CASE /\ ~(g # saw /\ row.state \notin {"ABSENT", "REMOVED", "STAGED"})
           /\ ~(g = saw /\ row.state \in {"ABSENT", "REMOVED"})
  BY <1>4 DEF Waits, reconcile_row
<1> QED
  BY <1>2, <1>3, <1>4

-----------------------------------------------------------------------------
(* Watched folders: what a step does *)

FilesKept ==
  /\ files' = [g \in Versions |-> files'[g]]
  /\ \A g \in Versions : KeepsFile(files'[g], files[g], g)
  /\ UNCHANGED <<listed, reopened>>

LEMMA KeptFiles ==
  ASSUME FolderInv, FilesKept
  PROVE  FilesOK' /\ ListedOK'
  BY DEF FolderInv, FilesKept, KeepsFile, FilesOK, ListedOK, Waits

LEMMA SameFiles ==
  ASSUME FolderInv, UNCHANGED <<files, listed, reopened>>
  PROVE  FilesKept
  BY DEF FolderInv, FilesOK, FilesKept, KeepsFile

LEMMA RecoveredFile ==
  ASSUME FilesOK, NEW g \in Versions
  PROVE  FileOK(RecoveredFiles[g], g) /\ KeepsFile(RecoveredFiles[g], files[g], g)
  BY RecoverFile DEF RecoveredFiles, FilesOK, KeepsFile

LEMMA ClaimedFiles ==
  ASSUME FolderInv, NEW g \in Versions, claim_for_preview(g) \/ claim_for_import(g)
  PROVE  FilesKept
<1>1. /\ files' = [RecoveredFiles EXCEPT ![g] = claim(RecoveredFiles[g], FreshClaim)]
      /\ CanClaimFile(RecoveredFiles[g]) /\ UNCHANGED <<listed, reopened>>
  BY DEF claim_for_preview, claim_for_import
<1>2. files' = [h \in Versions |->
                  IF h = g THEN claim(RecoveredFiles[g], FreshClaim) ELSE RecoveredFiles[h]]
  BY <1>1 DEF RecoveredFiles
<1>3. ASSUME NEW h \in Versions
      PROVE  KeepsFile(files'[h], files[h], h)
  <2>1. CASE h = g
    <3>1. KeepsFile(claim(RecoveredFiles[g], FreshClaim), RecoveredFiles[g], g)
      BY <1>1, RecoveredFile, FreshClaims, ClaimFile DEF FolderInv
    <3> QED
      BY <1>2, <2>1, <3>1, RecoveredFile DEF KeepsFile, FolderInv
  <2>2. CASE h # g
    BY <1>2, <2>2, RecoveredFile DEF FolderInv
  <2> QED
    BY <2>1, <2>2
<1> QED
  BY <1>1, <1>2, <1>3 DEF FilesKept

\* complete_lease by the screen.
LEMMA CompletedFiles ==
  ASSUME FolderInv, job.gen \in Versions, NEW row,
         HoldsLease(files[job.gen], job.token) => KeepsFile(row, files[job.gen], job.gen),
         complete_lease(row), UNCHANGED <<listed, reopened>>
  PROVE  FilesKept
<1>1. /\ files' = [h \in Versions |->
                     IF h = job.gen /\ HoldsLease(files[h], job.token) THEN row ELSE files[h]]
  BY DEF complete_lease, FolderInv, FilesOK
<1>2. \A h \in Versions : KeepsFile(files[h], files[h], h)
  BY DEF FolderInv, FilesOK, KeepsFile
<1> QED
  BY <1>1, <1>2 DEF FilesKept

LEMMA JobFiles ==
  ASSUME FolderInv,
         \/ read_registered_file \/ stage_file
         \/ \E ok \in BOOLEAN : preview_ready(ok) \/ start_file_import(ok)
  PROVE  FilesKept
<1> DEFINE row == files[job.gen]
<1>1. job.gen \in Versions /\ (job.pc = "stage" => job.bytes = job.gen)
  BY DEF FolderInv, JobOK, read_registered_file, stage_file, preview_ready, start_file_import
<1>2. UNCHANGED <<listed, reopened>>
  BY DEF read_registered_file, stage_file, preview_ready, start_file_import
<1>3. HoldsLease(row, job.token) => FileOK(row, job.gen) /\ row.state = "PROCESSING"
  BY <1>1 DEF HoldsLease, FolderInv, FilesOK
<1>4. HoldsLease(row, job.token) =>
        /\ KeepsFile(mark_ready(row), row, job.gen)
        /\ KeepsFile(mark_failed(row), row, job.gen)
        /\ KeepsFile(mark_staged(row, job.gen), row, job.gen)
  BY <1>1, <1>3, AnswerFile
<1>5. \/ UNCHANGED files
      \/ complete_lease(mark_ready(row)) \/ complete_lease(mark_failed(row))
      \/ complete_lease(mark_staged(row, job.gen))
  BY <1>1 DEF read_registered_file, stage_file, preview_ready, start_file_import
<1>6. CASE UNCHANGED files
  BY <1>2, <1>6, SameFiles
<1>7. CASE complete_lease(mark_ready(row))
  BY <1>1, <1>2, <1>4, <1>7, CompletedFiles
<1>8. CASE complete_lease(mark_failed(row))
  BY <1>1, <1>2, <1>4, <1>8, CompletedFiles
<1>9. CASE complete_lease(mark_staged(row, job.gen))
  BY <1>1, <1>2, <1>4, <1>9, CompletedFiles
<1> QED
  BY <1>5, <1>6, <1>7, <1>8, <1>9

\* A scan makes what it saw the generation listed, whatever was claimed.
LEMMA ScannedFiles ==
  ASSUME FolderInv, NEW s \in Scanners, finish_scan(s)
  PROVE  FilesOK' /\ ListedOK'
<1> DEFINE saw == scan[s].saw
<1>1. CASE UNCHANGED <<files, listed, reopened>>
  BY <1>1, SameFiles, KeptFiles
<1>2. CASE files' = [g \in Versions |-> reconcile_row(files[g], g, saw)] /\ listed' = saw
  <2>1. ASSUME NEW g \in Versions
        PROVE  FileOK(files'[g], g) /\ (Waits(files'[g]) => g = saw)
    BY <1>2, ReconcileFile DEF FolderInv, FilesOK
  <2> QED
    BY <1>2, <2>1 DEF FilesOK, ListedOK, Waits
<1> QED
  BY <1>1, <1>2 DEF finish_scan

\* A staged row comes back through the history.
LEMMA RetriedFiles ==
  ASSUME FolderInv, NEW g \in Versions, retry_file(g)
  PROVE  FilesOK' /\ ListedOK'
<1>1. FileOK(retry(files[g]), g) /\ (Waits(files[g]) \/ files[g].state = "STAGED")
  BY RetryFile DEF retry_file, FolderInv, FilesOK
<1>2. /\ files' = [h \in Versions |-> IF h = g THEN retry(files[g]) ELSE files[h]]
      /\ files[g].state = "STAGED" => g \in reopened'
      /\ reopened \subseteq reopened' /\ UNCHANGED listed
  BY DEF retry_file, FolderInv, FilesOK
<1>3. FilesOK'
  BY <1>1, <1>2 DEF FolderInv, FilesOK
<1> QED
  BY <1>1, <1>2, <1>3 DEF FolderInv, ListedOK, Waits

LEMMA FolderFiles ==
  ASSUME FolderInv, FolderNext
  PROVE  FilesOK' /\ ListedOK'
<1>1. CASE DiskChange \/ register_with_source \/ Restart
  BY <1>1, SameFiles, KeptFiles DEF DiskChange, register_with_source, Restart
<1>2. CASE remove
  <2>1. FileOK(NoFile, 0) /\ \A g \in Versions : FileOK(NoFile, g)
    BY FolderAssumption DEF NoFile, FileOK, FileRows, FileStates, NoClaimToken
  <2> QED
    BY <1>2, <2>1 DEF remove, FilesOK, ListedOK, NoFile
<1>3. CASE FolderScan
  <2>1. ASSUME NEW s \in Scanners, prepare_registered_scan(s)
        PROVE  FilesOK' /\ ListedOK'
    BY <2>1, SameFiles, KeptFiles DEF prepare_registered_scan
  <2> QED
    BY <1>3, <2>1, ScannedFiles DEF FolderScan
<1>4. CASE FolderScreen
  <2>1. CASE list
    <3>1. FilesKept
      BY <2>1, RecoveredFile DEF list, FilesKept, RecoveredFiles, FolderInv
    <3> QED
      BY <3>1, KeptFiles
  <2>2. CASE \/ read_registered_file \/ stage_file
             \/ \E ok \in BOOLEAN : preview_ready(ok) \/ start_file_import(ok)
    BY <2>2, JobFiles, KeptFiles
  <2>3. ASSUME NEW g \in Versions, claim_for_preview(g) \/ claim_for_import(g)
        PROVE  FilesOK' /\ ListedOK'
    BY <2>3, ClaimedFiles, KeptFiles
  <2> QED
    BY <1>4, <2>1, <2>2, <2>3 DEF FolderScreen
<1>5. ASSUME NEW g \in Versions, ignore_file(g)
      PROVE  FilesOK' /\ ListedOK'
  <2>1. FileOK(files[g], g) /\ KeepsFile(ignore(files[g]), files[g], g)
    BY <1>5, IgnoreFile DEF ignore_file, FolderInv, FilesOK
  <2>2. files' = [h \in Versions |-> IF h = g THEN ignore(files[g]) ELSE files[h]]
        /\ UNCHANGED <<listed, reopened>>
    BY <1>5 DEF ignore_file, FolderInv, FilesOK
  <2>3. FilesKept
    BY <2>1, <2>2 DEF FilesKept, FolderInv, FilesOK, KeepsFile
  <2> QED
    BY <2>3, KeptFiles
<1>6. ASSUME NEW g \in Versions, NEW to \in {"POSTED", "ROLLED_BACK"}, settle_run(g, to)
      PROVE  FilesOK' /\ ListedOK'
  BY <1>6, SameFiles, KeptFiles DEF settle_run
<1>7. CASE ClaimExpires
  <2>1. FilesKept
    BY <1>7, ExpireFile DEF ClaimExpires, FilesKept, FolderInv, FilesOK
  <2> QED
    BY <2>1, KeptFiles
<1> QED
  BY <1>1, <1>2, <1>3, <1>4, <1>5, <1>6, <1>7, RetriedFiles DEF FolderNext, FolderUser

\* A preview has the bytes of the row that was claimed for it, and an import those
\* of the preview it started from.
LEMMA FolderJobs ==
  ASSUME FolderInv, FolderNext
  PROVE  DiskOK' /\ JobOK'
<1> USE DEF FolderInv
<1>0. /\ Versions \subseteq Nat \ {0}
      /\ NoJob \in Jobs /\ NoJob.pc = "idle"
      /\ previews = [g \in Versions |-> previews[g]]
      /\ \A g \in Versions : previews[g] \in {0, g}
  BY FolderAssumption DEF JobOK, NoJob, Jobs, NoClaimToken
<1>1. DiskOK'
  BY DEF FolderNext, FolderScan, FolderScreen, FolderUser, DiskChange, register_with_source, remove,
         prepare_registered_scan, finish_scan, list, claim_for_preview, claim_for_import,
         read_registered_file, preview_ready, start_file_import, stage_file, ignore_file, retry_file,
         settle_run, ClaimExpires, Restart, DiskOK
<1>2. CASE UNCHANGED <<job, previews>>
  BY <1>1, <1>2 DEF JobOK
<1>3. CASE list
  BY <1>1, <1>3 DEF list, JobOK
<1>4. CASE Restart
  BY <1>1, <1>0, <1>4 DEF Restart, JobOK
<1>5. ASSUME NEW g \in Versions, claim_for_preview(g)
      PROVE  JobOK'
  <2>1. job' = [pc |-> "read", gen |-> g, token |-> FreshClaim, bytes |-> 0] /\ UNCHANGED previews
    BY <1>5 DEF claim_for_preview
  <2> QED
    BY <1>0, <2>1, FreshClaims DEF JobOK, Jobs
<1>6. ASSUME NEW g \in Versions, claim_for_import(g)
      PROVE  JobOK'
  <2>1. /\ job' = [pc |-> "start", gen |-> g, token |-> FreshClaim, bytes |-> previews[g]]
        /\ previews[g] = g /\ UNCHANGED previews
    BY <1>0, <1>6 DEF claim_for_import
  <2> QED
    BY <1>0, <2>1, FreshClaims DEF JobOK, Jobs
<1>7. CASE read_registered_file
  <2>1. CASE job' = NoJob /\ UNCHANGED previews
    BY <1>1, <1>0, <2>1 DEF JobOK
  <2>2. CASE /\ job' = [job EXCEPT !.pc = "preview", !.bytes = disk]
             /\ disk = job.gen /\ UNCHANGED previews
    BY <1>1, <1>0, <1>7, <2>2 DEF read_registered_file, JobOK, Jobs
  <2> QED
    BY <1>7, <2>1, <2>2 DEF read_registered_file, loaded_as_listed
<1>8. ASSUME NEW ok \in BOOLEAN, preview_ready(ok)
      PROVE  JobOK'
  <2>1. job.gen \in Versions /\ job.bytes = job.gen /\ job' = NoJob
    BY <1>8 DEF preview_ready, JobOK
  <2>2. previews' = [h \in Versions |-> IF ok /\ h = job.gen THEN job.gen ELSE previews[h]]
    BY <1>0, <1>8, <2>1 DEF preview_ready
  <2> QED
    BY <1>0, <2>1, <2>2 DEF JobOK
<1>9. ASSUME NEW ok \in BOOLEAN, start_file_import(ok)
      PROVE  JobOK'
  <2>1. /\ job' \in {[job EXCEPT !.pc = "stage"], NoJob} /\ job.pc = "start" /\ UNCHANGED previews
    BY <1>9 DEF start_file_import
  <2> QED
    BY <1>0, <2>1 DEF JobOK, Jobs
<1>10. CASE stage_file
  BY <1>1, <1>0, <1>10 DEF stage_file, JobOK
<1>11. \/ UNCHANGED <<job, previews>> \/ list \/ Restart \/ read_registered_file \/ stage_file
       \/ \E g \in Versions : claim_for_preview(g) \/ claim_for_import(g)
       \/ \E ok \in BOOLEAN : preview_ready(ok) \/ start_file_import(ok)
  BY DEF FolderNext, FolderScan, FolderScreen, FolderUser, DiskChange, register_with_source, remove,
         prepare_registered_scan, finish_scan, ignore_file, retry_file, settle_run, ClaimExpires
<1> QED
  BY <1>1, <1>2, <1>3, <1>4, <1>5, <1>6, <1>7, <1>8, <1>9, <1>10, <1>11

\* The file is there at generation 1 when the folder is first looked at.
LEMMA FolderInvInit ==
  ASSUME FolderInit
  PROVE  FolderInv
<1>1. \A g \in Versions : FileOK(NoFile, g)
  BY FolderAssumption DEF NoFile, FileOK, FileRows, FileStates, NoClaimToken
<1>2. FilesOK /\ DiskOK /\ ListedOK
  BY <1>1, FolderAssumption DEF FolderInit, FilesOK, DiskOK, ListedOK, NoFile
<1>3. JobOK
  BY DEF FolderInit, JobOK, Jobs, NoJob, NoClaimToken
<1> QED
  BY <1>2, <1>3 DEF FolderInv

LEMMA FolderInvNext == FolderInv /\ [FolderNext]_folderVars => FolderInv'
<1> SUFFICES ASSUME FolderInv, [FolderNext]_folderVars
             PROVE  FolderInv'
  OBVIOUS
<1>1. CASE FolderNext
  BY <1>1, FolderFiles, FolderJobs DEF FolderInv
<1>2. CASE UNCHANGED folderVars
  BY <1>2 DEF folderVars, FolderInv, FilesOK, DiskOK, JobOK, ListedOK
<1> QED
  BY <1>1, <1>2

LEMMA FolderInvTypes == FolderInv => FolderTypeOK /\ PendingIsListed /\ FileStagedWithItsBytes
<1> SUFFICES ASSUME FolderInv
             PROVE  FolderTypeOK /\ PendingIsListed /\ FileStagedWithItsBytes
  OBVIOUS
<1>1. \A g \in Versions : FileOK(files[g], g)
  BY DEF FolderInv, FilesOK
<1>2. FolderTypeOK /\ FileStagedWithItsBytes
  BY <1>1 DEF FolderInv, DiskOK, FolderTypeOK, FileStagedWithItsBytes, FileOK, FileRows, FileStates
<1>3. PendingIsListed
  BY DEF FolderInv, ListedOK, PendingIsListed, FolderOpen
<1> QED
  BY <1>2, <1>3

-----------------------------------------------------------------------------
(* The three inboxes together *)

\* A step of the inboxes is one of each of them, or leaves it as it is.
LEMMA EachInbox ==
  [Next]_vars => [DriveNext]_driveVars /\ [FolderNext]_folderVars /\ [ReceiveNext]_receiveVars
BY Zenon DEF Next, vars, OfDrive, OfFolder, OfFamily

InboxInv == part \in {"drive", "folder", "family"} /\ DriveInv /\ FolderInv /\ DiscoveryInv

LEMMA InboxInvAlways ==
  ASSUME Setting
  PROVE  Spec => []InboxInv
<1>1. Init => InboxInv
  BY DriveInvInit, FolderInvInit, DiscoveryInvInit DEF Init, InboxInv
<1>2. InboxInv /\ [Next]_vars => InboxInv'
  <2> SUFFICES ASSUME InboxInv, [Next]_vars
               PROVE  InboxInv'
    OBVIOUS
  <2>1. part' = part
    BY DEF Next, vars, OfDrive, OfFolder, OfFamily
  <2> QED
    BY <2>1, EachInbox, DriveInvNext, FolderInvNext, DiscoveryInvNext DEF InboxInv
<1> QED
  BY <1>1, <1>2, PTL DEF Spec

\* The rows of every inbox satisfy the constraints of its table: a lease exactly
\* while PROCESSING, a run exactly while STAGED, attempts in bounds.
THEOREM InboxTypesCorrect ==
  ASSUME Setting
  PROVE  Spec => []InboxTypes
<1>1. DiscoveryInv => ReceiveTypeOK
  BY DEF DiscoveryInv, Types, RelayOK, CursorOK, ScheduleOK, RowsOK, Connections, InboundStates,
         ReceiveTypeOK, Setting
<1>2. InboxInv => InboxTypes
  BY <1>1, DriveInvTypes, FolderInvTypes DEF InboxInv, InboxTypes
<1> QED
  BY <1>2, InboxInvAlways, PTL

\* What is offered for review in the Drive inbox is the generation the store
\* learnt of last, in the folder inbox the one the last scan saw, or one whose
\* rolled-back import was reopened since (discover_nodes_claimed, reconcile_scan):
\* whoever still works on a retired row has lost its lease.
THEOREM ReviewsAreCurrent ==
  ASSUME Setting
  PROVE  Spec => []PendingIsCurrent
<1>1. InboxInv => PendingIsCurrent
  BY FolderInvTypes DEF InboxInv, DriveInv, PendingIsCurrent
<1> QED
  BY <1>1, InboxInvAlways, PTL

\* A row is staged with the run of its own bytes: the metadata compared around a
\* Drive download and with a local read rule out the bytes of another generation,
\* and previews and imports only carry them on.
THEOREM StagedRunsHaveTheirBytes ==
  ASSUME Setting
  PROVE  Spec => []StagedWithItsBytes
<1>1. InboxInv => StagedWithItsBytes
  BY DriveInvTypes, FolderInvTypes DEF InboxInv, StagedWithItsBytes
<1> QED
  BY <1>1, InboxInvAlways, PTL
=============================================================================
