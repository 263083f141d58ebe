------------------------------ MODULE RefreshStore ------------------------------
(***************************************************************************)
(* The durable store behind "Refresh now" and "Refresh all":               *)
(* src-tauri/src/connector_refresh.rs over the two tables of migration     *)
(* 0071.  Every operation of the store runs in one IMMEDIATE transaction   *)
(* under the application's single connection mutex, so it is one step.     *)
(*                                                                         *)
(* Time.  A lease is stored as an absolute expiry; only the comparison of  *)
(* the expiry with "now" is ever used, so an item carries ttl, the clock   *)
(* ticks left until lease_expires_at (0: expired, or no lease).  Elapse    *)
(* is the passing of one tick.                                             *)
(***************************************************************************)
EXTENDS Naturals, Sequences, FiniteSets, Functions

CONSTANTS
  Households,     \* household ids
  Batches,        \* batch ids a random_id() may return
  HouseholdOf,    \* [Batches -> Households]: the household a batch id is drawn for
  Targets,        \* connections, numbered in the order "kind, connection_key"
  Manual,         \* the MANUAL_IMPORT targets
  LeaseTicks,     \* LEASE_MINUTES
  MaxGeneration,  \* 9007199254740991, the bound on attempt_generation
  MaxChanged,     \* MAX_SAFE_INTEGER, the bound on a batch's changed_count
  RetainLimit     \* 100, the terminal batches retention keeps per household

ASSUME BatchesAssumption == IsFiniteSet(Batches) /\ HouseholdOf \in [Batches -> Households]
ASSUME TargetsAssumption ==
  Targets \subseteq Nat /\ IsFiniteSet(Targets) /\ Manual \subseteq Targets
ASSUME BoundsAssumption ==
  /\ LeaseTicks \in Nat \ {0}
  /\ MaxGeneration \in Nat
  /\ MaxChanged \in Nat
  /\ RetainLimit \in Nat

VARIABLES
  status,     \* connector_refresh_batches.status ("NONE": no such row yet)
  item,       \* connector_refresh_batch_items, per batch and target
  tally,      \* the counters of the batch row
  created,    \* per batch, its place in the order of created_at (0: not created)
  finished,   \* per household, its terminal batch ids in completed_at order
  lastToken   \* the number of lease tokens drawn so far

storeVars == <<status, item, tally, created, finished, lastToken>>

NoToken == 0

Failures == {"FAILED_RETRYABLE", "NEEDS_ACTION"}
Terminal == {"SUCCEEDED", "NO_CHANGES", "SKIPPED_MANUAL"} \cup Failures
BatchVerdicts == {"COMPLETE", "PARTIAL", "FAILED"}
BatchStatuses == {"NONE", "ACTIVE", "DELETED"} \cup BatchVerdicts
ItemStatuses == {"ABSENT", "PENDING", "RUNNING"} \cup Terminal

Item == [status: ItemStatuses, gen: Nat, token: Nat, ttl: 0..LeaseTicks, changed: Nat]

Absent == [status |-> "ABSENT", gen |-> 0, token |-> NoToken, ttl |-> 0, changed |-> 0]

\* What a provider run reports (RefreshOutcome), as outcome_values maps it.
Outcome == [status: {"SUCCEEDED", "NO_CHANGES"} \cup Failures, changed: Nat]

\* What a worker keeps of a claim (ConnectorRefreshClaimDto).
Claim == [batch: Batches, target: Targets, gen: Nat, token: Nat]

With(row, statuses) == {t \in Targets : row[t].status \in statuses}

\* The counters of a batch row, recomputed from its items.
TallyOf(row) ==
  [total     |-> Cardinality(With(row, ItemStatuses \ {"ABSENT"})),
   terminal  |-> Cardinality(With(row, Terminal)),
   succeeded |-> Cardinality(With(row, {"SUCCEEDED"})),
   noChanges |-> Cardinality(With(row, {"NO_CHANGES"})),
   skipped   |-> Cardinality(With(row, {"SKIPPED_MANUAL"})),
   failed    |-> Cardinality(With(row, Failures)),
   changed   |-> SumFunction([t \in Targets |-> row[t].changed])]

\* Mutant: the first failure closes the batch.
VerdictFailFast(counts) ==
  IF counts.failed # 0 THEN "FAILED"
  ELSE IF counts.terminal = counts.total THEN "COMPLETE" ELSE "ACTIVE"

\* Mutant: a skipped manual import counts as a success.
VerdictCountingSkips(counts) ==
  IF counts.terminal # counts.total THEN "ACTIVE"
  ELSE IF counts.failed = 0 THEN "COMPLETE"
  ELSE IF counts.succeeded + counts.noChanges + counts.skipped > 0 THEN "PARTIAL"
  ELSE "FAILED"

VerdictOf(counts) ==
  IF counts.terminal # counts.total THEN "ACTIVE"
  ELSE IF counts.failed = 0 THEN "COMPLETE"
  ELSE IF counts.succeeded + counts.noChanges > 0 THEN "PARTIAL"
  ELSE "FAILED"

StoreInit ==
  /\ status = [b \in Batches |-> "NONE"]
  /\ item = [b \in Batches |-> [t \in Targets |-> Absent]]
  /\ tally = [b \in Batches |-> TallyOf([t \in Targets |-> Absent])]
  /\ created = [b \in Batches |-> 0]
  /\ finished = [h \in Households |-> <<>>]
  /\ lastToken = NoToken

ActiveBatches(h) == {b \in Batches : HouseholdOf[b] = h /\ status[b] = "ACTIVE"}

Finish(b, verdict) ==
  finished' = IF verdict = "ACTIVE" THEN finished
              ELSE [finished EXCEPT ![HouseholdOf[b]] = Append(@, b)]

NewItem(t) ==
  [status |-> IF t \in Manual THEN "SKIPPED_MANUAL" ELSE "PENDING",
   gen |-> 0, token |-> NoToken, ttl |-> 0, changed |-> 0]

\* Mutant: no look at the household's active batch.
CanCreateUnchecked(h, targets) == targets # {}

\* Manual-only snapshots are terminal at once and are accepted even while the
\* household has an active batch.
CanCreate(h, targets) ==
  /\ targets # {}
  /\ targets \subseteq Manual \/ ActiveBatches(h) = {}

CreateBatch(b, targets) ==
  LET row == [t \in Targets |-> IF t \in targets THEN NewItem(t) ELSE Absent]
      verdict == IF targets \subseteq Manual THEN "COMPLETE" ELSE "ACTIVE"
  IN /\ status[b] = "NONE"
     /\ CanCreate(HouseholdOf[b], targets)
     /\ status' = [status EXCEPT ![b] = verdict]
     /\ item' = [item EXCEPT ![b] = row]
     /\ tally' = [tally EXCEPT ![b] = TallyOf(row)]
     /\ created' = [created EXCEPT ![b] = Cardinality({c \in Batches : status[c] # "NONE"}) + 1]
     /\ Finish(b, verdict)
     /\ UNCHANGED lastToken

Pending(b) == With(item[b], {"PENDING"})

\* ORDER BY connector kind, connection_key LIMIT 1
FirstPending(b, t) == t \in Pending(b) /\ \A u \in Pending(b) : t <= u

Claimable(b, t) ==
  /\ status[b] = "ACTIVE"
  /\ FirstPending(b, t)
  /\ item[b][t].gen < MaxGeneration

NewClaim(b, t) ==
  [batch |-> b, target |-> t, gen |-> item[b][t].gen + 1, token |-> lastToken + 1]

Leased(i) ==
  [status |-> "RUNNING", gen |-> i.gen + 1, token |-> lastToken + 1, ttl |-> LeaseTicks,
   changed |-> i.changed]

ClaimNext(b, t) ==
  /\ Claimable(b, t)
  /\ lastToken' = lastToken + 1
  /\ item' = [item EXCEPT ![b][t] = Leased(item[b][t])]
  /\ UNCHANGED <<status, tally, created, finished>>

\* Mutant: the fence compares neither token nor generation.
HoldsAnyLease(c) ==
  /\ status[c.batch] = "ACTIVE"
  /\ item[c.batch][c.target].status = "RUNNING"
  /\ item[c.batch][c.target].ttl > 0

\* The fence of heartbeat_item and complete_item: the exact, unexpired lease of
\* an item of an active batch.
HoldsLease(c) ==
  /\ status[c.batch] = "ACTIVE"
  /\ item[c.batch][c.target].status = "RUNNING"
  /\ item[c.batch][c.target].token = c.token
  /\ item[c.batch][c.target].gen = c.gen
  /\ item[c.batch][c.target].ttl > 0

\* The lease of an item with `ticks` left.
WithTtl(i, ticks) ==
  [status |-> i.status, gen |-> i.gen, token |-> i.token, ttl |-> ticks, changed |-> i.changed]

\* Mutant: the renewal is added to the old expiry instead of to now.
Extended(i) == WithTtl(i, i.ttl + LeaseTicks)

Renewed(i) == WithTtl(i, LeaseTicks)

HeartbeatItem(c) ==
  /\ HoldsLease(c)
  /\ item' = [item EXCEPT ![c.batch][c.target] = Renewed(item[c.batch][c.target])]
  /\ UNCHANGED <<status, tally, created, finished, lastToken>>

\* outcome_values refuses a success that changed nothing; complete_item refuses
\* a total above MAX_SAFE_INTEGER.
Recordable(c, o) ==
  /\ HoldsLease(c)
  /\ o.status = "SUCCEEDED" => o.changed > 0
  /\ tally[c.batch].changed + o.changed <= MaxChanged

Answered(i, o) ==
  [status |-> o.status, gen |-> i.gen, token |-> NoToken, ttl |-> 0, changed |-> o.changed]

CompleteItem(c, o) ==
  LET b == c.batch
      row == [item[b] EXCEPT ![c.target] = Answered(item[b][c.target], o)]
      counts == TallyOf(row)
  IN /\ Recordable(c, o)
     /\ item' = [item EXCEPT ![b] = row]
     /\ tally' = [tally EXCEPT ![b] = counts]
     /\ status' = [status EXCEPT ![b] = VerdictOf(counts)]
     /\ Finish(b, VerdictOf(counts))
     /\ UNCHANGED <<created, lastToken>>

\* Mutant: recovery does not ask whether the item is still RUNNING.
ExpiredAnyStatus(i) == i.status # "ABSENT" /\ i.ttl = 0

Expired(i) == i.status = "RUNNING" /\ i.ttl = 0

Released(i) ==
  [status |-> "PENDING", gen |-> i.gen, token |-> NoToken, ttl |-> 0, changed |-> 0]

RecoverExpired(b) ==
  /\ status[b] = "ACTIVE"
  /\ item' = [item EXCEPT ![b] = [t \in Targets |->
                IF Expired(item[b][t]) THEN Released(item[b][t]) ELSE item[b][t]]]
  /\ UNCHANGED <<status, tally, created, finished, lastToken>>

\* Mutant: retention ranks the active batch of the household as well.
AllBatches(h) ==
  IF ActiveBatches(h) = {} THEN finished[h]
  ELSE Append(finished[h], CHOOSE b \in ActiveBatches(h) : TRUE)

\* What retention ranks: the household's terminal batches, the first completed
\* first.
TerminalBatches(h) == finished[h]

\* Retention drops the oldest terminal batches of a household: the `aged` ones
\* completed more than 30 days ago, and all but the latest RetainLimit.
RetainBatches(h, aged) ==
  LET done == TerminalBatches(h)
      dropped == {i \in 1..Len(done) : i <= aged \/ i + RetainLimit <= Len(done)}
      gone == {done[i] : i \in dropped}
  IN /\ aged \in 0..Len(done)
     /\ status' = [b \in Batches |-> IF b \in gone THEN "DELETED" ELSE status[b]]
     /\ item' = [b \in Batches |-> IF b \in gone THEN [t \in Targets |-> Absent] ELSE item[b]]
     /\ tally' = [b \in Batches |-> IF b \in gone THEN TallyOf([t \in Targets |-> Absent])
                                   ELSE tally[b]]
     /\ finished' = [finished EXCEPT ![h] =
                       SubSeq(@, Cardinality(dropped) + 1, Len(@))]
     /\ UNCHANGED <<created, lastToken>>

\* One tick of the wall clock.
Elapse ==
  /\ item' = [b \in Batches |-> [t \in Targets |->
                WithTtl(item[b][t], IF item[b][t].ttl = 0 THEN 0 ELSE item[b][t].ttl - 1)]]
  /\ UNCHANGED <<status, tally, created, finished, lastToken>>
=================================================================================
