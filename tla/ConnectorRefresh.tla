---------------------------- MODULE ConnectorRefresh ----------------------------
(***************************************************************************)
(* Connector refresh end to end: the commands that create batches          *)
(* (connector_commands.rs), the background worker that drains them         *)
(* (connector_refresh_worker.rs) and the durable store they share          *)
(* (RefreshStore).                                                         *)
(*                                                                         *)
(* A worker is the refresh thread of one run of the application.  The      *)
(* single-instance plugin keeps one process alive at a time; with two or   *)
(* more workers the model also covers a second process on the same         *)
(* database, which the store's leases and generations have to survive.     *)
(***************************************************************************)
EXTENDS RefreshStore

CONSTANTS
  Workers,     \* refresh threads
  Snapshots,   \* the sets of targets a refresh command may find configured
  Outcomes,    \* the outcomes provider runs report
  NoClaim,     \* a worker that executes nothing
  NoBatch,     \* a worker that is between passes
  MaxFaults    \* bound on crashes, shutdowns, suspensions and infrastructure failures

ASSUME WorkersAssumption == IsFiniteSet(Workers)
ASSUME SnapshotsAssumption == Snapshots \subseteq SUBSET Targets
ASSUME OutcomesAssumption == Outcomes \subseteq Outcome
ASSUME NoClaimAssumption == NoClaim \notin Claim /\ NoBatch \notin Batches
ASSUME FaultsAssumption == MaxFaults \in Nat

VARIABLES
  pc,        \* where run_worker / run_batch_controlled is
  current,   \* the batch run_batch_controlled works on
  todo,      \* batches this pass still has to visit
  claim,     \* the claim being executed, or NoClaim
  result,    \* the outcome the executor returned for it
  beatLost,  \* the heartbeat of the current execution has failed
  stopped,   \* WorkerSignal.stopped
  wake,      \* WorkerSignal.wake_requested
  waking,    \* commands that created a batch and have not called wake() yet
  faults     \* faults so far

workerVars == <<pc, current, todo, claim, result, beatLost>>
signalVars == <<stopped, wake, waking>>
vars == <<storeVars, workerVars, signalVars, faults>>

NoOutcome == [status |-> "NO_CHANGES", changed |-> 0]

Locations == {"scan", "batch", "claim", "load", "run", "record", "listed", "idle", "pause", "off"}

Init ==
  /\ StoreInit
  /\ pc = [w \in Workers |-> "scan"]
  /\ current = [w \in Workers |-> NoBatch]
  /\ todo = [w \in Workers |-> {}]
  /\ claim = [w \in Workers |-> NoClaim]
  /\ result = [w \in Workers |-> NoOutcome]
  /\ beatLost = [w \in Workers |-> FALSE]
  /\ stopped = [w \in Workers |-> FALSE]
  /\ wake = [w \in Workers |-> FALSE]
  /\ waking = [w \in Workers |-> 0]
  /\ faults = 0

-----------------------------------------------------------------------------
(* Worker bookkeeping: go to a location, with or without the claim. *)

Goto(w, loc) == pc' = [pc EXCEPT ![w] = loc]

DropClaim(w) ==
  /\ claim' = [claim EXCEPT ![w] = NoClaim]
  /\ result' = [result EXCEPT ![w] = NoOutcome]
  /\ beatLost' = [beatLost EXCEPT ![w] = FALSE]

EndPass(w) ==
  /\ current' = [current EXCEPT ![w] = NoBatch]
  /\ todo' = [todo EXCEPT ![w] = {}]

\* Any error of a persistence call or of the executor ends the pass: the other
\* batches of the list wait for the next one, a claimed item stays RUNNING.
AbandonPass(w) ==
  /\ Goto(w, "pause")
  /\ EndPass(w)
  /\ DropClaim(w)

\* The loop over the listed batches takes the oldest of those left.
Visit(w, left) ==
  \E b \in left :
    /\ \A c \in left : created[b] <= created[c]
    /\ current' = [current EXCEPT ![w] = b]
    /\ todo' = [todo EXCEPT ![w] = left \ {b}]
    /\ Goto(w, "batch")

NextBatch(w) ==
  \/ todo[w] = {} /\ EndPass(w) /\ Goto(w, "pause")
  \/ Visit(w, todo[w])

-----------------------------------------------------------------------------
(* Commands of the user interface *)

\* connector_refresh_one / connector_refresh_all, up to the committed batch.
RefreshCommand(w, b, targets) ==
  /\ CreateBatch(b, targets)
  /\ waking' = [waking EXCEPT ![w] = @ + 1]
  /\ UNCHANGED <<workerVars, stopped, wake, faults>>

\* Mutant: a wake-up reaches only a worker that is already waiting.
WakeWaiterOnly(w) ==
  /\ waking[w] > 0
  /\ waking' = [waking EXCEPT ![w] = @ - 1]
  /\ wake' = [wake EXCEPT ![w] = @ \/ pc[w] \in {"idle", "pause"}]
  /\ UNCHANGED <<storeVars, workerVars, stopped, faults>>

\* The same command calls background.wake().
Wake(w) ==
  /\ waking[w] > 0
  /\ waking' = [waking EXCEPT ![w] = @ - 1]
  /\ wake' = [wake EXCEPT ![w] = TRUE]
  /\ UNCHANGED <<storeVars, workerVars, stopped, faults>>

-----------------------------------------------------------------------------
(* run_worker *)

\* active_batches: the ACTIVE ones, in creation order.
ActiveList == {b \in Batches : status[b] = "ACTIVE"}

Scan(w) ==
  /\ pc[w] = "scan"
  /\ ~stopped[w]
  /\ \/ ActiveList = {} /\ EndPass(w) /\ Goto(w, "listed")
     \/ Visit(w, ActiveList)
  /\ UNCHANGED <<storeVars, claim, result, beatLost, signalVars, faults>>

\* The list was empty: the worker enters its idle wait.  A command may come in
\* between.
BeginIdle(w) ==
  /\ pc[w] = "listed"
  /\ Goto(w, "idle")
  /\ UNCHANGED <<storeVars, current, todo, claim, result, beatLost, signalVars, faults>>

\* Mutant: the wait has no timeout.
WaitForWake(w) ==
  /\ pc[w] \in {"idle", "pause"}
  /\ ~stopped[w]
  /\ wake[w]
  /\ wake' = [wake EXCEPT ![w] = FALSE]
  /\ Goto(w, "scan")
  /\ UNCHANGED <<storeVars, current, todo, claim, result, beatLost, stopped, waking, faults>>

\* signal.wait returns on a wake-up or when the wait times out.
WaitOver(w) ==
  /\ pc[w] \in {"idle", "pause"}
  /\ ~stopped[w]
  /\ wake' = [wake EXCEPT ![w] = FALSE]
  /\ Goto(w, "scan")
  /\ UNCHANGED <<storeVars, current, todo, claim, result, beatLost, stopped, waking, faults>>

\* Every place that looks at the stop flag leaves the loop when it is set.
Leave(w) ==
  /\ pc[w] \in {"scan", "batch", "claim", "idle", "pause"}
  /\ stopped[w]
  /\ Goto(w, "off")
  /\ EndPass(w)
  /\ UNCHANGED <<storeVars, claim, result, beatLost, signalVars, faults>>

-----------------------------------------------------------------------------
(* run_batch_controlled *)

Recover(w) ==
  /\ pc[w] = "batch"
  /\ ~stopped[w]
  /\ RecoverExpired(current[w])
  /\ Goto(w, "claim")
  /\ UNCHANGED <<current, todo, claim, result, beatLost, signalVars, faults>>

ClaimItem(w) ==
  /\ pc[w] = "claim"
  /\ ~stopped[w]
  /\ \E t \in Targets :
       /\ ClaimNext(current[w], t)
       /\ claim' = [claim EXCEPT ![w] = NewClaim(current[w], t)]
  /\ Goto(w, "run")
  /\ UNCHANGED <<current, todo, result, beatLost, signalVars, faults>>

NothingToClaim(w) ==
  /\ pc[w] = "claim"
  /\ ~stopped[w]
  /\ status[current[w]] = "ACTIVE"
  /\ Pending(current[w]) = {}
  /\ Goto(w, "load")
  /\ UNCHANGED <<storeVars, current, todo, claim, result, beatLost, signalVars, faults>>

\* load_batch finds the row: the batch is drained, or waits for a lease.
LoadBatch(w) ==
  /\ pc[w] = "load"
  /\ status[current[w]] # "DELETED"
  /\ NextBatch(w)
  /\ UNCHANGED <<storeVars, claim, result, beatLost, signalVars, faults>>

\* recover_expired, claim_next or load_batch answers NotFound (the batch is no
\* longer active, or gone), or the generation is used up.
StoreRefuses(w) ==
  /\ \/ /\ pc[w] \in {"batch", "claim"}
        /\ ~stopped[w]
        /\ status[current[w]] # "ACTIVE"
     \/ /\ pc[w] = "claim"
        /\ ~stopped[w]
        /\ status[current[w]] = "ACTIVE"
        /\ Pending(current[w]) # {}
        /\ ~\E t \in Targets : Claimable(current[w], t)
     \/ /\ pc[w] = "load"
        /\ status[current[w]] = "DELETED"
  /\ AbandonPass(w)
  /\ UNCHANGED <<storeVars, signalVars, faults>>

-----------------------------------------------------------------------------
(* execute_with_heartbeat *)

\* The heartbeat thread, or the provider's inline heartbeat, renews the lease.
Heartbeat(w) ==
  /\ pc[w] = "run"
  /\ ~beatLost[w]
  /\ HeartbeatItem(claim[w])
  /\ UNCHANGED <<workerVars, signalVars, faults>>

LoseHeartbeat(w) ==
  /\ pc[w] = "run"
  /\ ~beatLost[w]
  /\ ~HoldsLease(claim[w])
  /\ beatLost' = [beatLost EXCEPT ![w] = TRUE]
  /\ UNCHANGED <<storeVars, pc, current, todo, claim, result, signalVars, faults>>

\* The executor returns; a lost heartbeat discards what it returned.
ExecutorReturns(w, o) ==
  /\ pc[w] = "run"
  /\ ~beatLost[w]
  /\ Goto(w, "record")
  /\ result' = [result EXCEPT ![w] = o]
  /\ UNCHANGED <<storeVars, current, todo, claim, beatLost, signalVars, faults>>

DiscardOutcome(w) ==
  /\ pc[w] = "run"
  /\ beatLost[w]
  /\ AbandonPass(w)
  /\ UNCHANGED <<storeVars, signalVars, faults>>

Record(w) ==
  /\ pc[w] = "record"
  /\ CompleteItem(claim[w], result[w])
  /\ DropClaim(w)
  /\ IF stopped[w] \/ status'[current[w]] = "ACTIVE"
     THEN Goto(w, "claim") /\ UNCHANGED <<current, todo>>
     ELSE NextBatch(w)
  /\ UNCHANGED <<signalVars, faults>>

RecordRefused(w) ==
  /\ pc[w] = "record"
  /\ ~Recordable(claim[w], result[w])
  /\ AbandonPass(w)
  /\ UNCHANGED <<storeVars, signalVars, faults>>

-----------------------------------------------------------------------------
(* The environment *)

Executing(w) == pc[w] \in {"run", "record"} /\ ~beatLost[w]

\* While the machine is awake the heartbeat (every minute) outruns the lease
\* (five minutes): no lease of a live execution runs out.
Tick ==
  /\ \A w \in Workers :
       Executing(w) /\ HoldsLease(claim[w]) => item[claim[w].batch][claim[w].target].ttl > 1
  /\ Elapse
  /\ UNCHANGED <<workerVars, signalVars, faults>>

\* A suspended machine or a stalled thread: time passes and no heartbeat is sent.
Suspend ==
  /\ faults < MaxFaults
  /\ faults' = faults + 1
  /\ Elapse
  /\ UNCHANGED <<workerVars, signalVars>>

\* The database is unavailable, or the executor panics or reports Infrastructure.
InfrastructureFails(w) ==
  /\ pc[w] \in {"scan", "batch", "claim", "load", "run", "record"}
  /\ faults < MaxFaults
  /\ faults' = faults + 1
  /\ AbandonPass(w)
  /\ UNCHANGED <<storeVars, signalVars>>

\* Dropping BackgroundConnectorRefresh sets the stop flag and does not wait.
Shutdown(w) ==
  /\ ~stopped[w]
  /\ faults < MaxFaults
  /\ faults' = faults + 1
  /\ stopped' = [stopped EXCEPT ![w] = TRUE]
  /\ UNCHANGED <<storeVars, workerVars, wake, waking>>

FreshProcess(w) ==
  /\ Goto(w, "scan")
  /\ EndPass(w)
  /\ DropClaim(w)
  /\ stopped' = [stopped EXCEPT ![w] = FALSE]
  /\ wake' = [wake EXCEPT ![w] = FALSE]
  /\ waking' = [waking EXCEPT ![w] = 0]
  /\ UNCHANGED storeVars

\* The application is started again after it was closed.
Restart(w) ==
  /\ stopped[w]
  /\ FreshProcess(w)
  /\ UNCHANGED faults

\* The process dies at any point and is started again.
Crash(w) ==
  /\ faults < MaxFaults
  /\ faults' = faults + 1
  /\ FreshProcess(w)

-----------------------------------------------------------------------------
WorkerStep(w) ==
  \/ Scan(w) \/ BeginIdle(w) \/ WaitOver(w) \/ Leave(w)
  \/ Recover(w) \/ ClaimItem(w) \/ NothingToClaim(w) \/ LoadBatch(w) \/ StoreRefuses(w)
  \/ \E o \in Outcomes : ExecutorReturns(w, o)
  \/ DiscardOutcome(w) \/ Record(w) \/ RecordRefused(w)

HeartbeatStep(w) == Heartbeat(w) \/ LoseHeartbeat(w)

Next ==
  \/ \E w \in Workers, b \in Batches, targets \in Snapshots : RefreshCommand(w, b, targets)
  \/ \E w \in Workers :
       \/ Wake(w) \/ WorkerStep(w) \/ HeartbeatStep(w)
       \/ InfrastructureFails(w) \/ Shutdown(w) \/ Restart(w) \/ Crash(w)
  \/ Tick
  \/ Suspend

Spec == Init /\ [][Next]_vars

\* The worker thread, the clock and a command in progress keep running; a closed
\* application is opened again.  Nothing is assumed of heartbeats.
Fairness ==
  /\ \A w \in Workers : WF_vars(WorkerStep(w)) /\ WF_vars(Wake(w)) /\ WF_vars(Restart(w))
  /\ WF_vars(Tick)

FairSpec == Spec /\ Fairness

\* retain_batches exists in the store and has no caller outside the tests; this
\* specification also lets it run.
RetainingNext == Next \/ \E h \in Households, aged \in 0..Cardinality(Batches) :
                            RetainBatches(h, aged) /\ UNCHANGED <<workerVars, signalVars, faults>>

RetainingSpec == Init /\ [][RetainingNext]_vars

-----------------------------------------------------------------------------
TypeOK ==
  /\ status \in [Batches -> BatchStatuses]
  /\ item \in [Batches -> [Targets -> Item]]
  /\ created \in [Batches -> Nat]
  /\ finished \in [Households -> Seq(Batches)]
  /\ lastToken \in Nat
  /\ pc \in [Workers -> Locations]
  /\ current \in [Workers -> Batches \cup {NoBatch}]
  /\ todo \in [Workers -> SUBSET Batches]
  /\ claim \in [Workers -> Claim \cup {NoClaim}]
  /\ result \in [Workers -> Outcome]
  /\ beatLost \in [Workers -> BOOLEAN]
  /\ stopped \in [Workers -> BOOLEAN]
  /\ wake \in [Workers -> BOOLEAN]
  /\ waking \in [Workers -> Nat]
  /\ faults \in Nat

\* The connections of each batch and their results, seen through the rows.
Members == [b \in Batches |-> With(item[b], ItemStatuses \ {"ABSENT"})]
Answers == [b \in Batches |-> [t \in Targets |->
              IF item[b][t].status \in Terminal THEN item[b][t].status ELSE "NONE"]]

Abstract == INSTANCE RefreshBatch WITH members <- Members, answer <- Answers

\* Leases, recoveries, crashes and competing workers implement the abstract
\* batch: each connection of the snapshot gets exactly one result.
RefinesRefreshBatch == Abstract!AbsSpec

\* The status the batch row stores is the verdict of the complete item set.
VerdictOfAllItems ==
  \A b \in Batches : status[b] # "DELETED" => status[b] = Abstract!Verdict(b)

\* Two workers never both pass the fence of the same item: after a recovery only
\* the newest attempt can renew the lease or record a result (claim_next draws a
\* new token and generation, heartbeat_item and complete_item check both).
ExclusiveLease ==
  \A w1, w2 \in Workers :
    /\ claim[w1] # NoClaim /\ HoldsLease(claim[w1])
    /\ claim[w2] # NoClaim /\ HoldsLease(claim[w2])
    /\ claim[w1].batch = claim[w2].batch /\ claim[w1].target = claim[w2].target
    => w1 = w2

\* The unique index of migration 0071, never hit by create_batch: a household
\* has at most one ACTIVE batch.
OneActivePerHousehold ==
  \A b1, b2 \in Batches :
    /\ status[b1] = "ACTIVE" /\ status[b2] = "ACTIVE"
    /\ HouseholdOf[b1] = HouseholdOf[b2]
    => b1 = b2

\* The CHECK constraints of migration 0071 on a batch row, with the counters
\* those of the items: claims, recoveries and completions, in any order, leave
\* a row that says ACTIVE exactly while some item has no result.
CountersMatchItems ==
  \A b \in Batches :
    /\ tally[b] = TallyOf(item[b])
    /\ tally[b].terminal = tally[b].succeeded + tally[b].noChanges
                            + tally[b].skipped + tally[b].failed
    /\ status[b] = "ACTIVE" <=> tally[b].terminal < tally[b].total
    /\ status[b] \in BatchVerdicts => tally[b].terminal = tally[b].total

\* A committed result is final: no later claim, recovery, crash, stale worker or
\* batch replays or overwrites it; only retention may delete its batch.
ResultsAreFinal ==
  [][\A b \in Batches, t \in Targets :
       item[b][t].status \in Terminal =>
         item'[b][t] = item[b][t] \/ status'[b] = "DELETED"]_vars

\* Retention cleanup never deletes an active batch.
RetentionSparesActive ==
  [][\A b \in Batches : status[b] = "ACTIVE" => status'[b] # "DELETED"]_vars

\* With one process, the worker never sleeps its idle wait while a batch is
\* active and nobody is about to wake it: a wake() that comes between the empty
\* list and the wait is kept in wake_requested.
NoLostWakeup ==
  Cardinality(Workers) = 1 =>
    \A w \in Workers :
      pc[w] \in {"listed", "idle"} /\ (\E b \in Batches : status[b] = "ACTIVE")
        => wake[w] \/ waking[w] > 0

\* Every active batch reaches a verdict once the faults stop.
EveryBatchFinishes ==
  \A b \in Batches : status[b] = "ACTIVE" ~> status[b] \in BatchVerdicts

\* Design document, "Cleanup retains no more than the latest 100 completed
\* batches per household": the terminal batches kept are bounded.
RetentionBound ==
  \A h \in Households : Len(finished[h]) <= RetainLimit

\* Architecture document, "persists each redacted result before continuing": the
\* worker has no item in execution while an earlier attempt of the same pass
\* order has no result.
ResultBeforeNextItem ==
  \A w \in Workers : claim[w] # NoClaim =>
    \A t \in Targets :
      t < claim[w].target => item[claim[w].batch][t].status \in Terminal \cup {"ABSENT"}
=================================================================================
