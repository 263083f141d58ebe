------------------------- MODULE ConnectorRefresh_proofs -------------------------
(***************************************************************************)
(* Proofs about connector refresh, for any number of workers, batches,     *)
(* households and connections, any lease length and any bounds.            *)
(***************************************************************************)
EXTENDS ConnectorRefresh, FiniteSetTheorems, SequenceTheorems, TLAPS

-----------------------------------------------------------------------------
(* Types *)

StoreTypeOK ==
  /\ status \in [Batches -> BatchStatuses]
  /\ item \in [Batches -> [Targets -> Item]]
  /\ created \in [Batches -> Nat]
  /\ finished \in [Households -> Seq(Batches)]
  /\ lastToken \in Nat

\* A worker in a batch has one, and it has a claim exactly while it executes it.
ControlInv ==
  \A w \in Workers :
    /\ pc[w] \in {"batch", "claim", "load", "run", "record"} => current[w] \in Batches
    /\ pc[w] \in {"run", "record"} => claim[w] \in Claim
    /\ pc[w] \notin {"run", "record"} => claim[w] = NoClaim

PassInv ==
  /\ pc \in [Workers -> Locations]
  /\ current \in [Workers -> Batches \cup {NoBatch}]
  /\ todo \in [Workers -> SUBSET Batches]
  /\ claim \in [Workers -> Claim \cup {NoClaim}]
  /\ result \in [Workers -> Outcome]
  /\ beatLost \in [Workers -> BOOLEAN]
  /\ ControlInv

SignalTypeOK ==
  /\ stopped \in [Workers -> BOOLEAN]
  /\ wake \in [Workers -> BOOLEAN]
  /\ waking \in [Workers -> Nat]
  /\ faults \in Nat

TypeInv == StoreTypeOK /\ PassInv /\ SignalTypeOK

LEMMA AbsentType == Absent \in Item
BY BoundsAssumption DEF Absent, Item, ItemStatuses, NoToken

LEMMA VerdictType ==
  ASSUME NEW counts
  PROVE  VerdictOf(counts) \in BatchVerdicts \cup {"ACTIVE"}
BY DEF VerdictOf, BatchVerdicts

LEMMA FinishType ==
  ASSUME finished \in [Households -> Seq(Batches)], NEW b \in Batches, NEW verdict,
         Finish(b, verdict)
  PROVE  finished' \in [Households -> Seq(Batches)]
BY BatchesAssumption DEF Finish

LEMMA CreateBatchTypes ==
  ASSUME StoreTypeOK, NEW b \in Batches, NEW targets \in SUBSET Targets, CreateBatch(b, targets)
  PROVE  StoreTypeOK'
<1> USE DEF StoreTypeOK
<1> DEFINE row == [t \in Targets |-> IF t \in targets THEN NewItem(t) ELSE Absent]
           others == {c \in Batches : status[c] # "NONE"}
<1>1. \A t \in Targets : NewItem(t) \in Item
  BY BoundsAssumption DEF NewItem, Item, ItemStatuses, Terminal, NoToken
<1>2. row \in [Targets -> Item]
  BY <1>1, AbsentType
<1>3. item' \in [Batches -> [Targets -> Item]]
  <2> HIDE DEF row
  <2>1. item' = [item EXCEPT ![b] = row]
    BY DEF CreateBatch, row
  <2> QED
    BY <1>2, <2>1
<1>4. Cardinality(others) \in Nat
  BY BatchesAssumption, FS_Subset, FS_CardinalityType
<1>5. created' \in [Batches -> Nat]
  <2> HIDE DEF others
  <2>1. created' = [created EXCEPT ![b] = Cardinality(others) + 1]
    BY DEF CreateBatch, others
  <2> QED
    BY <1>4, <2>1
<1>6. status' \in [Batches -> BatchStatuses]
  BY DEF CreateBatch, BatchStatuses, BatchVerdicts
<1>7. finished' \in [Households -> Seq(Batches)]
  BY FinishType DEF CreateBatch
<1> QED
  BY <1>3, <1>5, <1>6, <1>7 DEF CreateBatch

LEMMA ClaimNextTypes ==
  ASSUME StoreTypeOK, NEW b \in Batches, NEW t \in Targets, ClaimNext(b, t)
  PROVE  StoreTypeOK' /\ NewClaim(b, t) \in Claim
<1>1. item[b][t] \in Item
  BY DEF StoreTypeOK
<1>2. Leased(item[b][t]) \in Item
  BY <1>1, BoundsAssumption DEF StoreTypeOK, Leased, Item, ItemStatuses
<1>3. NewClaim(b, t) \in Claim
  BY <1>1 DEF NewClaim, Claim, Item, StoreTypeOK
<1> QED
  BY <1>2, <1>3 DEF StoreTypeOK, ClaimNext

LEMMA HeartbeatItemTypes ==
  ASSUME StoreTypeOK, NEW c \in Claim, HeartbeatItem(c)
  PROVE  StoreTypeOK'
<1>1. c.batch \in Batches /\ c.target \in Targets
  BY DEF Claim
<1>2. item[c.batch][c.target] \in Item
  BY <1>1 DEF StoreTypeOK
<1>3. Renewed(item[c.batch][c.target]) \in Item
  BY <1>2, BoundsAssumption DEF Renewed, WithTtl, Item
<1> QED
  BY <1>1, <1>3 DEF StoreTypeOK, HeartbeatItem

LEMMA CompleteItemTypes ==
  ASSUME StoreTypeOK, NEW c \in Claim, NEW o \in Outcome, CompleteItem(c, o)
  PROVE  StoreTypeOK'
<1> DEFINE b == c.batch
           row == [item[b] EXCEPT ![c.target] = Answered(item[b][c.target], o)]
<1>1. c.batch \in Batches /\ c.target \in Targets
  BY DEF Claim
<1>2. item[c.batch][c.target] \in Item
  BY <1>1 DEF StoreTypeOK
<1>3. Answered(item[c.batch][c.target], o) \in Item
  BY <1>2, BoundsAssumption DEF Answered, Item, Outcome, ItemStatuses, Terminal, NoToken
<1>4. row \in [Targets -> Item]
  BY <1>1, <1>3 DEF StoreTypeOK
<1>5. PICK verdict \in BatchVerdicts \cup {"ACTIVE"} :
        status' = [status EXCEPT ![b] = verdict] /\ Finish(b, verdict)
  BY VerdictType DEF CompleteItem
<1>6. item' = [item EXCEPT ![b] = row] /\ UNCHANGED <<created, lastToken>>
  BY DEF CompleteItem
<1>7. finished' \in [Households -> Seq(Batches)]
  BY <1>1, <1>5, FinishType DEF StoreTypeOK
<1> HIDE DEF row
<1> QED
  BY <1>1, <1>4, <1>5, <1>6, <1>7 DEF StoreTypeOK, BatchStatuses

LEMMA RecoverExpiredTypes ==
  ASSUME StoreTypeOK, NEW b \in Batches, RecoverExpired(b)
  PROVE  StoreTypeOK'
<1>1. \A i \in Item : Released(i) \in Item
  BY BoundsAssumption DEF Released, Item, ItemStatuses, NoToken
<1> QED
  BY <1>1 DEF StoreTypeOK, RecoverExpired

LEMMA ElapseTypes ==
  ASSUME StoreTypeOK, Elapse
  PROVE  StoreTypeOK'
<1>1. \A i \in Item : WithTtl(i, IF i.ttl = 0 THEN 0 ELSE i.ttl - 1) \in Item
  BY BoundsAssumption DEF WithTtl, Item
<1> QED
  BY <1>1 DEF StoreTypeOK, Elapse

LEMMA UnchangedStoreTypes ==
  ASSUME StoreTypeOK, UNCHANGED storeVars
  PROVE  StoreTypeOK'
BY DEF StoreTypeOK, storeVars

LEMMA UnchangedPass ==
  ASSUME PassInv, UNCHANGED workerVars
  PROVE  PassInv'
BY DEF PassInv, ControlInv, workerVars

LEMMA NoOutcomeType == NoOutcome \in Outcome
BY DEF NoOutcome, Outcome

LEMMA EndPassInv ==
  ASSUME PassInv, NEW w \in Workers, NEW loc \in {"listed", "pause", "off", "scan"},
         Goto(w, loc), EndPass(w), DropClaim(w)
  PROVE  PassInv'
BY NoOutcomeType DEF PassInv, ControlInv, Goto, EndPass, DropClaim, Locations

LEMMA KeptClaimInv ==
  ASSUME PassInv, NEW w \in Workers, claim[w] = NoClaim,
         UNCHANGED <<claim, result, beatLost>>,
         \/ EndPass(w) /\ \E loc \in {"listed", "pause", "off", "scan"} : Goto(w, loc)
         \/ \E left \in SUBSET Batches : Visit(w, left)
  PROVE  PassInv'
<1>1. CASE EndPass(w) /\ \E loc \in {"listed", "pause", "off", "scan"} : Goto(w, loc)
  BY <1>1 DEF PassInv, ControlInv, Goto, EndPass, Locations
<1>2. ASSUME NEW left \in SUBSET Batches, Visit(w, left)
      PROVE  PassInv'
  BY <1>2 DEF PassInv, ControlInv, Goto, Visit, Locations
<1> QED
  BY <1>1, <1>2

LEMMA ScanInv ==
  ASSUME PassInv, NEW w \in Workers, Scan(w)
  PROVE  PassInv'
<1>1. claim[w] = NoClaim /\ UNCHANGED <<claim, result, beatLost>>
  BY DEF PassInv, ControlInv, Scan
<1>2. ActiveList \in SUBSET Batches
  BY DEF ActiveList
<1> QED
  BY <1>1, <1>2, KeptClaimInv DEF Scan

LEMMA LoadBatchInv ==
  ASSUME PassInv, NEW w \in Workers, LoadBatch(w)
  PROVE  PassInv'
<1>1. claim[w] = NoClaim /\ UNCHANGED <<claim, result, beatLost>>
  BY DEF PassInv, ControlInv, LoadBatch
<1>2. todo[w] \in SUBSET Batches
  BY DEF PassInv
<1> QED
  BY <1>1, <1>2, KeptClaimInv DEF LoadBatch, NextBatch

LEMMA ClaimItemTypes ==
  ASSUME TypeInv, NEW w \in Workers, ClaimItem(w)
  PROVE  StoreTypeOK' /\ PassInv'
<1>1. current[w] \in Batches
  BY DEF TypeInv, PassInv, ControlInv, ClaimItem
<1>2. PICK t \in Targets : /\ ClaimNext(current[w], t)
                           /\ claim' = [claim EXCEPT ![w] = NewClaim(current[w], t)]
  BY DEF ClaimItem
<1>3. StoreTypeOK' /\ NewClaim(current[w], t) \in Claim
  BY <1>1, <1>2, ClaimNextTypes DEF TypeInv
<1>4. PassInv'
  BY <1>1, <1>2, <1>3 DEF TypeInv, PassInv, ControlInv, ClaimItem, Goto, Locations
<1> QED
  BY <1>3, <1>4

LEMMA RecordTypes ==
  ASSUME TypeInv, NEW w \in Workers, Record(w)
  PROVE  StoreTypeOK' /\ PassInv'
<1> USE DEF TypeInv
<1>1. current[w] \in Batches /\ claim[w] \in Claim /\ result[w] \in Outcome
  BY DEF PassInv, ControlInv, Record
<1>2. StoreTypeOK'
  BY <1>1, CompleteItemTypes DEF Record
<1>3. CASE Goto(w, "claim") /\ UNCHANGED <<current, todo>>
  BY <1>1, <1>2, <1>3, NoOutcomeType DEF PassInv, ControlInv, Record, Goto, DropClaim, Locations
<1>4. CASE EndPass(w) /\ Goto(w, "pause")
  BY <1>2, <1>4, EndPassInv DEF Record
<1>5. CASE Visit(w, todo[w])
  BY <1>1, <1>2, <1>5, NoOutcomeType DEF PassInv, ControlInv, Record, Visit, Goto, DropClaim, Locations
<1> QED
  BY <1>3, <1>4, <1>5 DEF Record, NextBatch

LEMMA WorkerStepTypes ==
  ASSUME TypeInv, NEW w \in Workers, WorkerStep(w)
  PROVE  StoreTypeOK' /\ PassInv'
<1> USE DEF TypeInv
<1>1. CASE Scan(w)
  BY <1>1, ScanInv, UnchangedStoreTypes DEF Scan
<1>2. CASE WaitOver(w)
  <2>1. PassInv'
    BY <1>2 DEF WaitOver, PassInv, ControlInv, Goto, Locations
  <2> QED
    BY <1>2, <2>1, UnchangedStoreTypes DEF WaitOver
<1>3. CASE Leave(w)
  <2>1. PassInv'
    BY <1>3, NoOutcomeType DEF Leave, PassInv, ControlInv, Goto, EndPass, Locations
  <2> QED
    BY <1>3, <2>1, UnchangedStoreTypes DEF Leave
<1>4. CASE Recover(w)
  <2>1. current[w] \in Batches /\ StoreTypeOK'
    BY <1>4, RecoverExpiredTypes DEF Recover, PassInv, ControlInv
  <2>2. PassInv'
    BY <1>4, <2>1 DEF Recover, PassInv, ControlInv, Goto, Locations
  <2> QED
    BY <2>1, <2>2
<1>5. CASE ClaimItem(w)
  BY <1>5, ClaimItemTypes
<1>6. CASE NothingToClaim(w)
  <2>1. PassInv'
    BY <1>6 DEF NothingToClaim, PassInv, ControlInv, Goto, Locations
  <2> QED
    BY <1>6, <2>1, UnchangedStoreTypes DEF NothingToClaim
<1>7. CASE LoadBatch(w)
  BY <1>7, LoadBatchInv, UnchangedStoreTypes DEF LoadBatch
<1>8. CASE AbandonPass(w) /\ UNCHANGED storeVars
  BY <1>8, EndPassInv, UnchangedStoreTypes DEF AbandonPass
<1>9. ASSUME NEW o \in Outcomes, ExecutorReturns(w, o)
      PROVE  StoreTypeOK' /\ PassInv'
  <2>1. PassInv'
    BY <1>9, OutcomesAssumption DEF ExecutorReturns, PassInv, ControlInv, Goto, Locations
  <2> QED
    BY <1>9, <2>1, UnchangedStoreTypes DEF ExecutorReturns
<1>10. CASE Record(w)
  BY <1>10, RecordTypes
<1>11. CASE BeginIdle(w)
  <2>1. PassInv'
    BY <1>11 DEF BeginIdle, PassInv, ControlInv, Goto, Locations
  <2> QED
    BY <1>11, <2>1, UnchangedStoreTypes DEF BeginIdle
<1> QED
  BY <1>1, <1>2, <1>3, <1>4, <1>5, <1>6, <1>7, <1>8, <1>9, <1>10, <1>11
  DEF WorkerStep, StoreRefuses, DiscardOutcome, RecordRefused

LEMMA HeartbeatStepTypes ==
  ASSUME TypeInv, NEW w \in Workers, HeartbeatStep(w)
  PROVE  StoreTypeOK' /\ PassInv'
<1> USE DEF TypeInv
<1>1. claim[w] \in Claim
  BY DEF HeartbeatStep, Heartbeat, LoseHeartbeat, PassInv, ControlInv
<1>2. CASE Heartbeat(w)
  BY <1>1, <1>2, HeartbeatItemTypes, UnchangedPass DEF Heartbeat
<1>3. CASE LoseHeartbeat(w)
  <2>1. PassInv'
    BY <1>3 DEF LoseHeartbeat, PassInv, ControlInv
  <2> QED
    BY <1>3, <2>1, UnchangedStoreTypes DEF LoseHeartbeat
<1> QED
  BY <1>2, <1>3 DEF HeartbeatStep

LEMMA FreshProcessTypes ==
  ASSUME TypeInv, NEW w \in Workers, FreshProcess(w)
  PROVE  StoreTypeOK' /\ PassInv'
BY EndPassInv, UnchangedStoreTypes DEF TypeInv, FreshProcess

LEMMA StepTypes == TypeInv /\ [Next]_vars => TypeInv'
<1> SUFFICES ASSUME TypeInv, [Next]_vars PROVE StoreTypeOK' /\ PassInv' /\ SignalTypeOK'
  BY DEF TypeInv
<1>1. ASSUME NEW w \in Workers, NEW b \in Batches, NEW targets \in Snapshots,
             RefreshCommand(w, b, targets)
      PROVE  StoreTypeOK' /\ PassInv' /\ SignalTypeOK'
  <2>1. StoreTypeOK' /\ PassInv'
    BY <1>1, SnapshotsAssumption, CreateBatchTypes, UnchangedPass DEF RefreshCommand, TypeInv
  <2>2. SignalTypeOK'
    BY <1>1 DEF RefreshCommand, SignalTypeOK, TypeInv
  <2> QED
    BY <2>1, <2>2
<1>2. ASSUME NEW w \in Workers, WorkerStep(w) \/ HeartbeatStep(w)
      PROVE  StoreTypeOK' /\ PassInv' /\ SignalTypeOK'
  <2>1. \/ UNCHANGED <<signalVars, faults>>
        \/ wake' = [wake EXCEPT ![w] = FALSE] /\ UNCHANGED <<stopped, waking, faults>>
    BY <1>2
    DEF WorkerStep, HeartbeatStep, Scan, BeginIdle, WaitOver, Leave, Recover, ClaimItem, NothingToClaim,
        LoadBatch, StoreRefuses, ExecutorReturns, DiscardOutcome, Record, RecordRefused,
        Heartbeat, LoseHeartbeat
  <2>2. SignalTypeOK'
    BY <2>1 DEF SignalTypeOK, TypeInv, signalVars
  <2> QED
    BY <1>2, <2>2, WorkerStepTypes, HeartbeatStepTypes
<1>3. ASSUME NEW w \in Workers, Wake(w) \/ Shutdown(w)
      PROVE  StoreTypeOK' /\ PassInv' /\ SignalTypeOK'
  <2>1. stopped' \in [Workers -> BOOLEAN] /\ wake' \in [Workers -> BOOLEAN]
    BY <1>3 DEF Wake, Shutdown, SignalTypeOK, TypeInv
  <2>2. waking' \in [Workers -> Nat] /\ faults' \in Nat
    BY <1>3 DEF Wake, Shutdown, SignalTypeOK, TypeInv
  <2>3. SignalTypeOK'
    BY <2>1, <2>2 DEF SignalTypeOK
  <2> QED
    BY <1>3, <2>3, UnchangedStoreTypes, UnchangedPass DEF Wake, Shutdown, TypeInv
<1>4. ASSUME NEW w \in Workers, Restart(w) \/ Crash(w)
      PROVE  StoreTypeOK' /\ PassInv' /\ SignalTypeOK'
  <2>1. stopped' \in [Workers -> BOOLEAN] /\ wake' \in [Workers -> BOOLEAN]
    BY <1>4 DEF Restart, Crash, FreshProcess, SignalTypeOK, TypeInv
  <2>2. waking' \in [Workers -> Nat] /\ faults' \in Nat
    BY <1>4 DEF Restart, Crash, FreshProcess, SignalTypeOK, TypeInv
  <2>3. SignalTypeOK'
    BY <2>1, <2>2 DEF SignalTypeOK
  <2> QED
    BY <1>4, <2>3, FreshProcessTypes DEF Restart, Crash
<1>5. ASSUME NEW w \in Workers, InfrastructureFails(w)
      PROVE  StoreTypeOK' /\ PassInv' /\ SignalTypeOK'
  <2>1. SignalTypeOK'
    BY <1>5 DEF InfrastructureFails, signalVars, SignalTypeOK, TypeInv
  <2> QED
    BY <1>5, <2>1, EndPassInv, UnchangedStoreTypes DEF InfrastructureFails, AbandonPass, TypeInv
<1>6. CASE Tick \/ Suspend
  <2>1. SignalTypeOK'
    BY <1>6 DEF Tick, Suspend, signalVars, SignalTypeOK, TypeInv
  <2> QED
    BY <1>6, <2>1, ElapseTypes, UnchangedPass DEF Tick, Suspend, TypeInv
<1>7. CASE UNCHANGED vars
  <2>1. SignalTypeOK'
    BY <1>7 DEF vars, signalVars, SignalTypeOK, TypeInv
  <2> QED
    BY <1>7, <2>1, UnchangedStoreTypes, UnchangedPass DEF vars, TypeInv
<1> QED
  BY <1>1, <1>2, <1>3, <1>4, <1>5, <1>6, <1>7 DEF Next

LEMMA InitTypes == Init => TypeInv
BY AbsentType, NoOutcomeType
   DEF Init, StoreInit, TypeInv, StoreTypeOK, PassInv, ControlInv, SignalTypeOK, BatchStatuses,
       Locations, NoToken

-----------------------------------------------------------------------------
(* Retention, which no command calls yet: the proofs allow it at any moment *)

RetainStep == \E h \in Households, aged \in Nat : RetainBatches(h, aged)

\* Retention cuts off a prefix of the list: all but the latest RetainLimit, and
\* the aged ones.
LEMMA DroppedPrefix ==
  ASSUME NEW n \in Nat, NEW aged \in 0..n
  PROVE  \E k \in 0..n :
           /\ {i \in 1..n : i <= aged \/ i + RetainLimit <= n} = 1..k
           /\ Cardinality({i \in 1..n : i <= aged \/ i + RetainLimit <= n}) = k
<1> DEFINE k == IF n - RetainLimit > aged THEN n - RetainLimit ELSE aged
<1>1. k \in 0..n /\ {i \in 1..n : i <= aged \/ i + RetainLimit <= n} = 1..k
  BY BoundsAssumption
<1>2. Cardinality(1..k) = k
  BY <1>1, FS_Interval
<1> QED
  BY <1>1, <1>2

LEMMA RetainEffect ==
  ASSUME StoreTypeOK, NEW h \in Households, NEW aged \in Nat, RetainBatches(h, aged)
  PROVE  \E k \in 0..Len(finished[h]) :
           LET gone == {finished[h][i] : i \in 1..k}
           IN /\ gone \subseteq Batches
              /\ \A b \in gone : /\ status'[b] = "DELETED"
                                 /\ item'[b] = [t \in Targets |-> Absent]
                                 /\ tally'[b] = TallyOf(item'[b])
              /\ \A b \in Batches \ gone :
                   status'[b] = status[b] /\ item'[b] = item[b] /\ tally'[b] = tally[b]
              /\ finished' \in [Households -> Seq(Batches)]
              /\ \A g \in Households \ {h} : finished'[g] = finished[g]
              /\ Len(finished'[h]) = Len(finished[h]) - k
              /\ \A i \in 1..Len(finished'[h]) : finished'[h][i] = finished[h][i + k]
<1> DEFINE n == Len(finished[h])
           dropped == {i \in 1..n : i <= aged \/ i + RetainLimit <= n}
<1>1. n \in Nat /\ aged \in 0..n /\ finished[h] \in Seq(Batches)
  BY DEF StoreTypeOK, RetainBatches, TerminalBatches
<1>2. PICK k \in 0..n : dropped = 1..k /\ Cardinality(dropped) = k
  BY <1>1, DroppedPrefix
<1> DEFINE gone == {finished[h][i] : i \in 1..k}
           rest == SubSeq(finished[h], k + 1, n)
<1>3. gone = {finished[h][i] : i \in dropped}
  BY <1>2
<1>4. gone \subseteq Batches
  BY <1>1, <1>2
<1>5. /\ status' = [b \in Batches |-> IF b \in gone THEN "DELETED" ELSE status[b]]
      /\ item' = [b \in Batches |-> IF b \in gone THEN [t \in Targets |-> Absent] ELSE item[b]]
      /\ tally' = [b \in Batches |-> IF b \in gone THEN TallyOf([t \in Targets |-> Absent])
                                     ELSE tally[b]]
      /\ finished' = [finished EXCEPT ![h] = SubSeq(@, Cardinality(dropped) + 1, n)]
  BY <1>3 DEF RetainBatches, TerminalBatches
<1>6. finished' = [finished EXCEPT ![h] = rest]
  BY <1>2, <1>5
<1> HIDE DEF n, dropped, gone
<1>7. /\ rest \in Seq(Batches)
      /\ Len(rest) = n - k
      /\ \A i \in 1..(n - k) : rest[i] = finished[h][i + k]
  <2>1. \A i \in (k + 1)..n : finished[h][i] \in Batches
    BY <1>1, <1>2 DEF n
  <2>2. /\ rest \in Seq(Batches)
        /\ Len(rest) = IF k + 1 <= n THEN n - (k + 1) + 1 ELSE 0
        /\ \A i \in 1..(n - (k + 1) + 1) : rest[i] = finished[h][k + 1 + i - 1]
    BY <1>1, <1>2, <2>1, SubSeqProperties
  <2>3. \A i \in 1..(n - k) : k + 1 + i - 1 = i + k
    BY <1>1, <1>2
  <2> QED
    BY <1>1, <1>2, <2>2, <2>3
<1> HIDE DEF rest
<1>8. /\ finished' \in [Households -> Seq(Batches)]
      /\ \A g \in Households \ {h} : finished'[g] = finished[g]
      /\ finished'[h] = rest
  BY <1>6, <1>7 DEF StoreTypeOK
<1>9. \A b \in gone : /\ status'[b] = "DELETED"
                      /\ item'[b] = [t \in Targets |-> Absent]
                      /\ tally'[b] = TallyOf(item'[b])
  BY <1>4, <1>5
<1>10. \A b \in Batches \ gone :
         status'[b] = status[b] /\ item'[b] = item[b] /\ tally'[b] = tally[b]
  BY <1>5
<1> QED
  BY <1>2, <1>4, <1>7, <1>8, <1>9, <1>10 DEF gone, n

LEMMA RetainTypes ==
  ASSUME StoreTypeOK, RetainStep
  PROVE  StoreTypeOK'
<1>1. PICK h \in Households, aged \in Nat : RetainBatches(h, aged)
  BY DEF RetainStep
<1>2. finished' \in [Households -> Seq(Batches)]
  BY <1>1, RetainEffect
<1>3. status' \in [Batches -> BatchStatuses] /\ item' \in [Batches -> [Targets -> Item]]
  BY <1>1, AbsentType DEF RetainBatches, StoreTypeOK, BatchStatuses
<1> QED
  BY <1>1, <1>2, <1>3 DEF StoreTypeOK, RetainBatches

\* A step of the system with retention is a step of the workers, the commands
\* or the clock, or a retention that only touches the store.
LEMMA RetainingSteps ==
  ASSUME [RetainingNext]_vars
  PROVE  [Next]_vars \/ (RetainStep /\ UNCHANGED <<workerVars, signalVars, faults>>)
<1>1. 0..Cardinality(Batches) \subseteq Nat
  OBVIOUS
<1> QED
  BY <1>1 DEF RetainingNext, RetainStep

LEMMA RetainingTypes == RetainingSpec => []TypeInv
<1>1. TypeInv /\ [RetainingNext]_vars => TypeInv'
  <2> SUFFICES ASSUME TypeInv, RetainStep, UNCHANGED <<workerVars, signalVars, faults>>
               PROVE  TypeInv'
    BY StepTypes, RetainingSteps
  <2>1. StoreTypeOK' /\ PassInv'
    BY RetainTypes, UnchangedPass DEF TypeInv
  <2>2. SignalTypeOK'
    BY DEF TypeInv, SignalTypeOK, signalVars
  <2> QED
    BY <2>1, <2>2 DEF TypeInv
<1> QED
  BY <1>1, InitTypes, PTL DEF RetainingSpec

\* Retention leaves a batch alone or empties it.
LEMMA RetainKeeps ==
  ASSUME RetainStep, NEW b \in Batches
  PROVE  /\ lastToken' = lastToken
         /\ \/ status'[b] = status[b] /\ item'[b] = item[b]
            \/ status'[b] = "DELETED" /\ item'[b] = [t \in Targets |-> Absent]
BY DEF RetainStep, RetainBatches

\* Every behaviour without retention is one with it: what is proved of
\* RetainingSpec holds of Spec.
LEMMA SpecIsRetaining == Spec => RetainingSpec
<1>1. [Next]_vars => [RetainingNext]_vars
  BY DEF RetainingNext
<1> QED
  BY <1>1, PTL DEF Spec, RetainingSpec

LEMMA TypeInvariant == Spec => []TypeInv
BY RetainingTypes, SpecIsRetaining, PTL

\* TypeOK holds in every reachable state; the worker's claim and batch are
\* there whenever its code dereferences them (ControlInv).
THEOREM TypeCorrect == RetainingSpec => []TypeOK
<1>1. TypeInv => TypeOK
  BY DEF TypeInv, StoreTypeOK, PassInv, SignalTypeOK, TypeOK
<1> QED
  BY <1>1, RetainingTypes, PTL

-----------------------------------------------------------------------------
(* The steps of the system, seen from the store *)

StoreStep ==
  \/ \E b \in Batches, targets \in SUBSET Targets : CreateBatch(b, targets)
  \/ \E b \in Batches, t \in Targets : ClaimNext(b, t)
  \/ \E c \in Claim : HeartbeatItem(c)
  \/ \E c \in Claim, o \in Outcome : CompleteItem(c, o)
  \/ \E b \in Batches : RecoverExpired(b)
  \/ Elapse

\* A step of the system is one operation of the store, or none.
LEMMA StoreSteps ==
  ASSUME TypeInv, [Next]_vars
  PROVE  StoreStep \/ UNCHANGED storeVars
<1>1. \A w \in Workers :
        /\ pc[w] \in {"batch", "claim", "run", "record"} => current[w] \in Batches
        /\ pc[w] \in {"run", "record"} => claim[w] \in Claim
        /\ result[w] \in Outcome
  BY DEF TypeInv, PassInv, ControlInv
<1>2. ASSUME NEW w \in Workers, WorkerStep(w)
      PROVE  StoreStep \/ UNCHANGED storeVars
  <2>1. CASE Recover(w)
    BY <1>1, <2>1 DEF Recover, StoreStep
  <2>2. CASE ClaimItem(w)
    BY <1>1, <2>2 DEF ClaimItem, StoreStep
  <2>3. CASE Record(w)
    BY <1>1, <2>3 DEF Record, StoreStep
  <2> QED
    BY <1>2, <2>1, <2>2, <2>3
    DEF WorkerStep, Scan, BeginIdle, WaitOver, Leave, NothingToClaim, LoadBatch, StoreRefuses,
        ExecutorReturns, DiscardOutcome, RecordRefused
<1>3. ASSUME NEW w \in Workers, HeartbeatStep(w)
      PROVE  StoreStep \/ UNCHANGED storeVars
  BY <1>1, <1>3 DEF HeartbeatStep, Heartbeat, LoseHeartbeat, StoreStep
<1>4. ASSUME NEW w \in Workers, NEW b \in Batches, NEW targets \in Snapshots,
             RefreshCommand(w, b, targets)
      PROVE  StoreStep
  BY <1>4, SnapshotsAssumption DEF RefreshCommand, StoreStep
<1>5. CASE Tick \/ Suspend
  BY <1>5 DEF Tick, Suspend, StoreStep
<1>6. CASE UNCHANGED vars
  BY <1>6 DEF vars
<1> QED
  BY <1>2, <1>3, <1>4, <1>5, <1>6
  DEF Next, Wake, InfrastructureFails, Shutdown, Restart, Crash, FreshProcess

\* What each operation does to one item.
LEMMA ItemSteps ==
  ASSUME StoreTypeOK, StoreStep, NEW b \in Batches, NEW t \in Targets
  PROVE  \/ item'[b][t] = item[b][t]
         \/ /\ status[b] = "NONE"
            /\ item'[b][t] \in {NewItem(t), Absent}
         \/ /\ status[b] = "ACTIVE" /\ item[b][t].status = "PENDING"
            /\ item'[b][t] = Leased(item[b][t]) /\ lastToken' = lastToken + 1
         \/ /\ status[b] = "ACTIVE" /\ item[b][t].status = "RUNNING"
            /\ \/ item'[b][t] = Renewed(item[b][t])
               \/ \E o \in Outcome : item'[b][t] = Answered(item[b][t], o)
               \/ item'[b][t] = Released(item[b][t])
         \/ item'[b][t] = WithTtl(item[b][t], IF item[b][t].ttl = 0 THEN 0 ELSE item[b][t].ttl - 1)
<1> USE DEF StoreTypeOK
<1>1. ASSUME NEW d \in Batches, NEW targets \in SUBSET Targets, CreateBatch(d, targets)
      PROVE  item'[b][t] = item[b][t] \/ (status[b] = "NONE" /\ item'[b][t] \in {NewItem(t), Absent})
  BY <1>1 DEF CreateBatch
<1>2. ASSUME NEW d \in Batches, NEW u \in Targets, ClaimNext(d, u)
      PROVE  \/ item'[b][t] = item[b][t]
             \/ /\ status[b] = "ACTIVE" /\ item[b][t].status = "PENDING"
                /\ item'[b][t] = Leased(item[b][t]) /\ lastToken' = lastToken + 1
  BY <1>2 DEF ClaimNext, Claimable, FirstPending, Pending, With
<1>3. ASSUME NEW c \in Claim, HeartbeatItem(c)
      PROVE  \/ item'[b][t] = item[b][t]
             \/ /\ status[b] = "ACTIVE" /\ item[b][t].status = "RUNNING"
                /\ item'[b][t] = Renewed(item[b][t])
  BY <1>3 DEF HeartbeatItem, HoldsLease, Claim
<1>4. ASSUME NEW c \in Claim, NEW o \in Outcome, CompleteItem(c, o)
      PROVE  \/ item'[b][t] = item[b][t]
             \/ /\ status[b] = "ACTIVE" /\ item[b][t].status = "RUNNING"
                /\ item'[b][t] = Answered(item[b][t], o)
  BY <1>4 DEF CompleteItem, Recordable, HoldsLease, Claim
<1>5. ASSUME NEW d \in Batches, RecoverExpired(d)
      PROVE  \/ item'[b][t] = item[b][t]
             \/ /\ status[b] = "ACTIVE" /\ item[b][t].status = "RUNNING"
                /\ item'[b][t] = Released(item[b][t])
  BY <1>5 DEF RecoverExpired, Expired
<1>6. CASE Elapse
  BY <1>6 DEF Elapse
<1> QED
  BY <1>1, <1>2, <1>3, <1>4, <1>5, <1>6 DEF StoreStep

-----------------------------------------------------------------------------
(* Results are final *)

\* An item that is not being executed has no lease, and a batch that does not
\* exist has no items.
RowsInv ==
  \A b \in Batches, t \in Targets :
    /\ item[b][t].status # "RUNNING" => item[b][t].ttl = 0 /\ item[b][t].token = NoToken
    /\ status[b] = "NONE" => item[b][t].status = "ABSENT"

LEMMA StatusSteps ==
  ASSUME StoreTypeOK, StoreStep, NEW b \in Batches
  PROVE  \/ status'[b] = status[b]
         \/ status[b] = "NONE" /\ status'[b] \in {"ACTIVE", "COMPLETE"}
         \/ status[b] = "ACTIVE" /\ status'[b] \in BatchVerdicts \cup {"ACTIVE"}
<1> USE DEF StoreTypeOK
<1>1. ASSUME NEW d \in Batches, NEW targets \in SUBSET Targets, CreateBatch(d, targets)
      PROVE  status'[b] = status[b] \/ (status[b] = "NONE" /\ status'[b] \in {"ACTIVE", "COMPLETE"})
  BY <1>1 DEF CreateBatch
<1>2. ASSUME NEW c \in Claim, NEW o \in Outcome, CompleteItem(c, o)
      PROVE  \/ status'[b] = status[b]
             \/ status[b] = "ACTIVE" /\ status'[b] \in BatchVerdicts \cup {"ACTIVE"}
  <2>1. PICK verdict \in BatchVerdicts \cup {"ACTIVE"} : status' = [status EXCEPT ![c.batch] = verdict]
    BY <1>2, VerdictType DEF CompleteItem
  <2> QED
    BY <1>2, <2>1 DEF CompleteItem, Recordable, HoldsLease
<1> QED
  BY <1>1, <1>2 DEF StoreStep, ClaimNext, HeartbeatItem, RecoverExpired, Elapse

LEMMA RowsStep ==
  ASSUME StoreTypeOK, RowsInv, StoreStep
  PROVE  RowsInv'
<1> SUFFICES ASSUME NEW b \in Batches, NEW t \in Targets
             PROVE  /\ item'[b][t].status # "RUNNING" =>
                         item'[b][t].ttl = 0 /\ item'[b][t].token = NoToken
                    /\ status'[b] = "NONE" => item'[b][t].status = "ABSENT"
  BY DEF RowsInv
<1>1. item[b][t] \in Item
  BY DEF StoreTypeOK
<1>2. item'[b][t].status # "RUNNING" => item'[b][t].ttl = 0 /\ item'[b][t].token = NoToken
  <2>1. CASE item'[b][t] \in {NewItem(t), Absent, Released(item[b][t])}
    BY <2>1 DEF NewItem, Absent, Released
  <2>2. CASE \E o \in Outcome : item'[b][t] = Answered(item[b][t], o)
    BY <2>2 DEF Answered
  <2>3. CASE item[b][t].status = "RUNNING" /\ item'[b][t] = Renewed(item[b][t])
    BY <2>3 DEF Renewed, WithTtl
  <2>4. CASE item'[b][t] = Leased(item[b][t])
    BY <2>4 DEF Leased
  <2>5. CASE item'[b][t] = WithTtl(item[b][t], IF item[b][t].ttl = 0 THEN 0 ELSE item[b][t].ttl - 1)
    BY <2>5 DEF RowsInv, WithTtl
  <2>6. CASE item'[b][t] = item[b][t]
    BY <2>6 DEF RowsInv
  <2> QED
    BY <2>1, <2>2, <2>3, <2>4, <2>5, <2>6, ItemSteps
<1>3. status'[b] = "NONE" => status[b] = "NONE"
  BY StatusSteps DEF BatchVerdicts
<1>4. status'[b] = "NONE" => item'[b][t].status = "ABSENT"
  <2> SUFFICES ASSUME status'[b] = "NONE" PROVE item'[b][t].status = "ABSENT"
    OBVIOUS
  <2>1. item[b][t].status = "ABSENT"
    BY <1>3 DEF RowsInv
  <2>2. ASSUME NEW d \in Batches, NEW targets \in SUBSET Targets, CreateBatch(d, targets)
        PROVE  item'[b][t] = item[b][t]
    <3>1. d # b
      BY <2>2 DEF CreateBatch, StoreTypeOK
    <3> QED
      BY <2>2, <3>1 DEF CreateBatch, StoreTypeOK
  <2>3. CASE Elapse
    BY <2>1, <2>3 DEF Elapse, WithTtl
  <2>4. ASSUME NEW c \in Claim, HeartbeatItem(c)
        PROVE  item'[b][t] = item[b][t]
    BY <1>3, <2>4 DEF HeartbeatItem, HoldsLease, StoreTypeOK, Claim
  <2>5. ASSUME NEW c \in Claim, NEW o \in Outcome, CompleteItem(c, o)
        PROVE  item'[b][t] = item[b][t]
    BY <1>3, <2>5 DEF CompleteItem, Recordable, HoldsLease, StoreTypeOK, Claim
  <2>6. ASSUME NEW d \in Batches, NEW u \in Targets, ClaimNext(d, u)
        PROVE  item'[b][t] = item[b][t]
    BY <1>3, <2>6 DEF ClaimNext, Claimable, StoreTypeOK
  <2>7. ASSUME NEW d \in Batches, RecoverExpired(d)
        PROVE  item'[b][t] = item[b][t]
    BY <1>3, <2>7 DEF RecoverExpired, StoreTypeOK
  <2> QED
    BY <2>1, <2>2, <2>3, <2>4, <2>5, <2>6, <2>7 DEF StoreStep
<1> QED
  BY <1>2, <1>4

LEMMA RowsInvariant == RetainingSpec => []RowsInv
<1>1. Init => RowsInv
  BY DEF Init, StoreInit, RowsInv, Absent
<1>2. TypeInv /\ RowsInv /\ [RetainingNext]_vars => RowsInv'
  <2>1. RowsInv /\ UNCHANGED storeVars => RowsInv'
    BY DEF RowsInv, storeVars
  <2>2. RowsInv /\ RetainStep => RowsInv'
    BY RetainKeeps DEF RowsInv, Absent
  <2> QED
    BY <2>1, <2>2, RetainingSteps, StoreSteps, RowsStep DEF TypeInv
<1> QED
  BY <1>1, <1>2, RetainingTypes, PTL DEF RetainingSpec

\* A committed result is never replayed or overwritten: not by a recovery, a
\* later claim, a stale worker that still holds an old claim, a crash or the
\* clock (complete_item, recover_expired, claim_next); only retention may drop
\* its batch.
THEOREM Finality == RetainingSpec => ResultsAreFinal
<1>1. TypeInv /\ RowsInv /\ [RetainingNext]_vars =>
        [\A b \in Batches, t \in Targets :
           item[b][t].status \in Terminal =>
             item'[b][t] = item[b][t] \/ status'[b] = "DELETED"]_vars
  <2> SUFFICES ASSUME TypeInv, RowsInv, [RetainingNext]_vars, NEW b \in Batches, NEW t \in Targets,
                      item[b][t].status \in Terminal
               PROVE  item'[b][t] = item[b][t] \/ status'[b] = "DELETED"
    OBVIOUS
  <2>1. item[b][t] \in Item
    BY DEF TypeInv, StoreTypeOK
  <2>2. item[b][t].status \notin {"ABSENT", "PENDING", "RUNNING"}
    BY DEF Terminal, Failures
  <2>3. CASE UNCHANGED storeVars
    BY <2>3 DEF storeVars
  <2>4. CASE StoreStep
    <3>1. item'[b][t] = item[b][t] \/ item'[b][t] = WithTtl(item[b][t], 0)
      BY <2>1, <2>2, <2>4, ItemSteps DEF RowsInv, TypeInv
    <3> QED
      BY <2>1, <2>2, <3>1 DEF RowsInv, WithTtl, Item
  <2>5. CASE RetainStep
    BY <2>5, RetainKeeps
  <2> QED
    BY <2>3, <2>4, <2>5, StoreSteps, RetainingSteps
<1> QED
  BY <1>1, RetainingTypes, RowsInvariant, PTL DEF RetainingSpec, ResultsAreFinal

-----------------------------------------------------------------------------
(* Leases are exclusive *)

\* Tokens are drawn once: no row and no worker has one from the future, and no
\* two workers have the same.
TokenInv ==
  /\ \A b \in Batches, t \in Targets : item[b][t].token <= lastToken
  /\ \A w \in Workers : claim[w] # NoClaim => claim[w].token \in 1..lastToken
  /\ \A w1, w2 \in Workers :
       claim[w1] # NoClaim /\ claim[w2] # NoClaim /\ claim[w1].token = claim[w2].token => w1 = w2

\* A worker's claim changes only when it draws a new token or gives it up.
LEMMA ClaimSteps ==
  ASSUME TypeInv, [Next]_vars
  PROVE  \/ \A w \in Workers : claim'[w] \in {claim[w], NoClaim}
         \/ \E w \in Workers, b \in Batches, t \in Targets :
              ClaimNext(b, t) /\ claim' = [claim EXCEPT ![w] = NewClaim(b, t)]
<1>1. ASSUME NEW w \in Workers, ClaimItem(w)
      PROVE  \E b \in Batches, t \in Targets :
               ClaimNext(b, t) /\ claim' = [claim EXCEPT ![w] = NewClaim(b, t)]
  BY <1>1 DEF ClaimItem, TypeInv, PassInv, ControlInv
<1>2. ASSUME NEW w \in Workers, DropClaim(w)
      PROVE  \A v \in Workers : claim'[v] \in {claim[v], NoClaim}
  BY <1>2 DEF DropClaim, TypeInv, PassInv
<1>3. CASE UNCHANGED claim
  BY <1>3
<1>4. ASSUME NEW w \in Workers, WorkerStep(w)
      PROVE  ClaimItem(w) \/ DropClaim(w) \/ UNCHANGED claim
  BY <1>4
  DEF WorkerStep, Scan, BeginIdle, WaitOver, Leave, Recover, NothingToClaim, LoadBatch, StoreRefuses,
      ExecutorReturns, DiscardOutcome, Record, RecordRefused, AbandonPass
<1>5. \/ UNCHANGED claim
      \/ \E w \in Workers : WorkerStep(w) \/ DropClaim(w)
  BY DEF Next, vars, workerVars, RefreshCommand, Wake, HeartbeatStep, Heartbeat, LoseHeartbeat,
         InfrastructureFails, AbandonPass, Shutdown, Restart, Crash, FreshProcess, Tick, Suspend
<1> QED
  BY <1>1, <1>2, <1>3, <1>4, <1>5

LEMMA TokenSteps ==
  ASSUME StoreTypeOK, StoreStep
  PROVE  lastToken' \in {lastToken, lastToken + 1}
BY DEF StoreStep, CreateBatch, ClaimNext, HeartbeatItem, CompleteItem, RecoverExpired, Elapse

LEMMA TokenStep ==
  ASSUME TypeInv, TokenInv, [Next]_vars
  PROVE  TokenInv'
<1>1. lastToken \in Nat /\ lastToken' \in {lastToken, lastToken + 1}
  BY StoreSteps, TokenSteps DEF TypeInv, StoreTypeOK, storeVars
<1>2. ASSUME NEW b \in Batches, NEW t \in Targets
      PROVE  item'[b][t].token <= lastToken'
  <2>1. item[b][t] \in Item /\ item[b][t].token <= lastToken
    BY DEF TypeInv, StoreTypeOK, TokenInv
  <2>2. CASE UNCHANGED storeVars
    BY <2>1, <2>2 DEF storeVars
  <2>3. CASE StoreStep
    <3>1. CASE item'[b][t] \in {NewItem(t), Absent, Released(item[b][t])}
      BY <1>1, <3>1 DEF NewItem, Absent, Released, NoToken
    <3>2. CASE \E o \in Outcome : item'[b][t] = Answered(item[b][t], o)
      BY <1>1, <3>2 DEF Answered, NoToken
    <3>3. CASE item'[b][t] = Leased(item[b][t]) /\ lastToken' = lastToken + 1
      BY <1>1, <3>3 DEF Leased
    <3>4. CASE item'[b][t] = item[b][t]
      BY <1>1, <2>1, <3>4 DEF Item
    <3>5. ASSUME NEW n, item'[b][t] = WithTtl(item[b][t], n)
          PROVE  item'[b][t].token <= lastToken'
      <4>1. item'[b][t].token = item[b][t].token
        BY <3>5 DEF WithTtl
      <4> QED
        BY <1>1, <2>1, <4>1 DEF Item
    <3> QED
      BY <2>3, <3>1, <3>2, <3>3, <3>4, <3>5, ItemSteps DEF TypeInv, Renewed
  <2> QED
    BY <2>2, <2>3, StoreSteps
<1>3. /\ \A w \in Workers : claim'[w] # NoClaim => claim'[w].token \in 1..lastToken'
      /\ \A w1, w2 \in Workers :
           /\ claim'[w1] # NoClaim /\ claim'[w2] # NoClaim
           /\ claim'[w1].token = claim'[w2].token
           => w1 = w2
  <2>1. CASE \A w \in Workers : claim'[w] \in {claim[w], NoClaim}
    BY <1>1, <2>1 DEF TokenInv
  <2>2. ASSUME NEW v \in Workers, NEW b \in Batches, NEW t \in Targets,
               ClaimNext(b, t), claim' = [claim EXCEPT ![v] = NewClaim(b, t)]
        PROVE  /\ \A w \in Workers : claim'[w] # NoClaim => claim'[w].token \in 1..lastToken'
               /\ \A w1, w2 \in Workers :
                    /\ claim'[w1] # NoClaim /\ claim'[w2] # NoClaim
                    /\ claim'[w1].token = claim'[w2].token
                    => w1 = w2
    <3>1. lastToken' = lastToken + 1 /\ claim'[v].token = lastToken + 1
      BY <2>2 DEF ClaimNext, NewClaim, TypeInv, PassInv
    <3>2. \A w \in Workers : w # v => claim'[w] = claim[w]
      BY <2>2 DEF TypeInv, PassInv
    <3>3. \A w \in Workers : w # v /\ claim[w] # NoClaim => claim[w].token \in 1..lastToken
      BY DEF TokenInv
    <3> QED
      BY <1>1, <3>1, <3>2, <3>3 DEF TokenInv
  <2> QED
    BY <2>1, <2>2, ClaimSteps
<1> QED
  BY <1>2, <1>3 DEF TokenInv

\* Whatever leases expired, were recovered and claimed again, at most one worker
\* passes the fence of heartbeat_item and complete_item for an item.
THEOREM Fencing == RetainingSpec => []ExclusiveLease
<1>1. Init => TokenInv
  BY DEF Init, StoreInit, TokenInv, Absent, NoToken
<1>2. TokenInv => ExclusiveLease
  BY DEF TokenInv, ExclusiveLease, HoldsLease
<1>3. TypeInv /\ TokenInv /\ [RetainingNext]_vars => TokenInv'
  <2> SUFFICES ASSUME TypeInv, TokenInv, RetainStep, UNCHANGED claim
               PROVE  TokenInv'
    BY TokenStep, RetainingSteps DEF workerVars
  <2>1. lastToken \in Nat /\ lastToken' = lastToken
    BY DEF RetainStep, RetainBatches, TypeInv, StoreTypeOK
  <2>2. \A b \in Batches, t \in Targets : item'[b][t].token <= lastToken'
    BY <2>1, RetainKeeps DEF TokenInv, Absent, NoToken
  <2> QED
    BY <2>1, <2>2 DEF TokenInv
<1> QED
  BY <1>1, <1>2, <1>3, RetainingTypes, PTL DEF RetainingSpec

-----------------------------------------------------------------------------
(* One active batch per household *)

LEMMA OneActiveStep ==
  ASSUME StoreTypeOK, OneActivePerHousehold, StoreStep
  PROVE  OneActivePerHousehold'
<1>1. ASSUME NEW b \in Batches, NEW targets \in SUBSET Targets, CreateBatch(b, targets)
      PROVE  OneActivePerHousehold'
  <2>1. \A d \in Batches : d # b => status'[d] = status[d]
    BY <1>1 DEF CreateBatch, StoreTypeOK
  <2>2. CASE targets \subseteq Manual
    <3>1. status'[b] = "COMPLETE"
      BY <1>1, <2>2 DEF CreateBatch, StoreTypeOK
    <3> QED
      BY <2>1, <3>1 DEF OneActivePerHousehold
  <2>3. CASE ActiveBatches(HouseholdOf[b]) = {}
    <3>1. \A d \in Batches : HouseholdOf[d] = HouseholdOf[b] => status[d] # "ACTIVE"
      BY <2>3 DEF ActiveBatches
    <3> QED
      BY <2>1, <3>1 DEF OneActivePerHousehold
  <2> QED
    BY <1>1, <2>2, <2>3 DEF CreateBatch, CanCreate
<1>2. CASE \A b \in Batches : status'[b] = "ACTIVE" => status[b] = "ACTIVE"
  BY <1>2 DEF OneActivePerHousehold
<1>3. ASSUME NEW c \in Claim, NEW o \in Outcome, CompleteItem(c, o)
      PROVE  \A b \in Batches : status'[b] = "ACTIVE" => status[b] = "ACTIVE"
  BY <1>3 DEF CompleteItem, Recordable, HoldsLease, StoreTypeOK
<1> QED
  BY <1>1, <1>2, <1>3 DEF StoreStep, ClaimNext, HeartbeatItem, RecoverExpired, Elapse

\* create_batch never leaves a household with two active batches, so the unique
\* index of migration 0071 never fires.
THEOREM OneActive == RetainingSpec => []OneActivePerHousehold
<1>1. Init => OneActivePerHousehold
  BY DEF Init, StoreInit, OneActivePerHousehold
<1>2. TypeInv /\ OneActivePerHousehold /\ [RetainingNext]_vars => OneActivePerHousehold'
  <2>1. OneActivePerHousehold /\ UNCHANGED storeVars => OneActivePerHousehold'
    BY DEF OneActivePerHousehold, storeVars
  <2>2. OneActivePerHousehold /\ RetainStep => OneActivePerHousehold'
    BY RetainKeeps DEF OneActivePerHousehold
  <2> QED
    BY <2>1, <2>2, RetainingSteps, StoreSteps, OneActiveStep DEF TypeInv
<1> QED
  BY <1>1, <1>2, RetainingTypes, PTL DEF RetainingSpec

-----------------------------------------------------------------------------
(* Refinement *)

\* An item without a result belongs to an active batch.
OpenInv ==
  \A b \in Batches, t \in Targets :
    item[b][t].status \in {"PENDING", "RUNNING"} => status[b] = "ACTIVE"

LEMMA DrainedRow ==
  ASSUME NEW row \in [Targets -> Item], VerdictOf(TallyOf(row)) # "ACTIVE"
  PROVE  \A t \in Targets : row[t].status \notin {"PENDING", "RUNNING"}
<1> DEFINE all == With(row, ItemStatuses \ {"ABSENT"})
           done == With(row, Terminal)
<1>1. Cardinality(done) = Cardinality(all)
  BY DEF VerdictOf, TallyOf
<1>2. done \subseteq all /\ all \subseteq Targets
  BY DEF With, ItemStatuses, Terminal, Failures
<1>3. IsFiniteSet(all)
  BY <1>2, TargetsAssumption, FS_Subset
<1>4. done = all
  BY <1>1, <1>2, <1>3, FS_Subset
<1> QED
  BY <1>4 DEF With, ItemStatuses, Terminal, Failures

LEMMA OpenStep ==
  ASSUME StoreTypeOK, OpenInv, StoreStep
  PROVE  OpenInv'
<1> SUFFICES ASSUME NEW b \in Batches, NEW t \in Targets,
                    item'[b][t].status \in {"PENDING", "RUNNING"}
             PROVE  status'[b] = "ACTIVE"
  BY DEF OpenInv
<1>1. ASSUME NEW d \in Batches, NEW targets \in SUBSET Targets, CreateBatch(d, targets)
      PROVE  status'[b] = "ACTIVE"
  <2>1. CASE d = b
    <3>1. ~(targets \subseteq Manual)
      BY <1>1, <2>1 DEF CreateBatch, NewItem, Absent, StoreTypeOK
    <3> QED
      BY <1>1, <2>1, <3>1 DEF CreateBatch, StoreTypeOK
  <2>2. CASE d # b
    BY <1>1, <2>2 DEF CreateBatch, StoreTypeOK, OpenInv
  <2> QED
    BY <2>1, <2>2
<1>2. ASSUME NEW c \in Claim, NEW o \in Outcome, CompleteItem(c, o)
      PROVE  status'[b] = "ACTIVE"
  <2>1. CASE c.batch = b
    <3> DEFINE row == [item[b] EXCEPT ![c.target] = Answered(item[b][c.target], o)]
    <3>1. /\ status' = [status EXCEPT ![b] = VerdictOf(TallyOf(row))]
          /\ item' = [item EXCEPT ![b] = row]
      BY <1>2, <2>1 DEF CompleteItem
    <3>2. item' \in [Batches -> [Targets -> Item]]
      BY <1>2, CompleteItemTypes DEF StoreTypeOK
    <3> HIDE DEF row
    <3>3. row \in [Targets -> Item] /\ row = item'[b]
      BY <3>1, <3>2 DEF StoreTypeOK
    <3>4. VerdictOf(TallyOf(row)) = "ACTIVE"
      BY <3>3, DrainedRow
    <3> QED
      BY <3>1, <3>4 DEF StoreTypeOK
  <2>2. CASE c.batch # b
    BY <1>2, <2>2 DEF CompleteItem, StoreTypeOK, OpenInv
  <2> QED
    BY <2>1, <2>2
<1>3. CASE UNCHANGED status /\ (status[b] = "ACTIVE" \/ item'[b][t].status = item[b][t].status)
  BY <1>3 DEF OpenInv
<1>4. ASSUME NEW d \in Batches, NEW u \in Targets, ClaimNext(d, u)
      PROVE  status'[b] = "ACTIVE"
  BY <1>3, <1>4 DEF ClaimNext, Claimable, StoreTypeOK
<1>5. ASSUME NEW c \in Claim, HeartbeatItem(c)
      PROVE  status'[b] = "ACTIVE"
  BY <1>3, <1>5 DEF HeartbeatItem, HoldsLease, StoreTypeOK, Claim
<1>6. ASSUME NEW d \in Batches, RecoverExpired(d)
      PROVE  status'[b] = "ACTIVE"
  BY <1>3, <1>6 DEF RecoverExpired, StoreTypeOK
<1>7. CASE Elapse
  BY <1>3, <1>7 DEF Elapse, WithTtl
<1> QED
  BY <1>1, <1>2, <1>4, <1>5, <1>6, <1>7 DEF StoreStep

LEMMA OpenInvariant == Spec => []OpenInv
<1>1. Init => OpenInv
  BY DEF Init, StoreInit, OpenInv, Absent
<1>2. TypeInv /\ OpenInv /\ [Next]_vars => OpenInv'
  <2>1. OpenInv /\ UNCHANGED storeVars => OpenInv'
    BY DEF OpenInv, storeVars
  <2> QED
    BY <2>1, StoreSteps, OpenStep DEF TypeInv
<1> QED
  BY <1>1, <1>2, TypeInvariant, PTL DEF Spec

LEMMA MembersDef ==
  ASSUME StoreTypeOK, NEW b \in Batches
  PROVE  Members[b] = {t \in Targets : item[b][t].status # "ABSENT"}
BY DEF StoreTypeOK, Members, With, Item

\* Steps that give no item a new result and no batch new items are invisible.
LEMMA Invisible ==
  ASSUME StoreTypeOK, StoreTypeOK',
         \A b \in Batches, t \in Targets :
           \/ item'[b][t].status = item[b][t].status
           \/ {item[b][t].status, item'[b][t].status} \subseteq {"PENDING", "RUNNING"}
  PROVE  UNCHANGED <<Members, Answers>>
<1>1. Members' = Members
  BY DEF StoreTypeOK, Members, With, Item, ItemStatuses, Terminal
<1>2. Answers' = Answers
  BY DEF StoreTypeOK, Answers, Terminal, Failures
<1> QED
  BY <1>1, <1>2

LEMMA CreateRefines ==
  ASSUME TypeInv, RowsInv, OpenInv, NEW b \in Batches, NEW targets \in SUBSET Targets,
         CreateBatch(b, targets)
  PROVE  Abstract!OpenBatch(b, targets)
<1>0. StoreTypeOK /\ StoreTypeOK'
  BY CreateBatchTypes DEF TypeInv
<1> DEFINE row == [t \in Targets |-> IF t \in targets THEN NewItem(t) ELSE Absent]
<1>1. item' = [item EXCEPT ![b] = row]
  BY DEF CreateBatch
<1>2. Members[b] = {}
  BY <1>0, MembersDef DEF RowsInv, CreateBatch
<1>3. targets # {}
  BY DEF CreateBatch, CanCreate
<1>4. targets \subseteq Manual \/ \A c \in Batches : HouseholdOf[c] = HouseholdOf[b] => ~Abstract!Open(c)
  <2> SUFFICES ASSUME ActiveBatches(HouseholdOf[b]) = {}, NEW c \in Batches,
                      HouseholdOf[c] = HouseholdOf[b]
               PROVE  ~Abstract!Open(c)
    BY DEF CreateBatch, CanCreate
  <2>1. \A t \in Targets : item[c][t].status \notin {"PENDING", "RUNNING"}
    BY DEF ActiveBatches, OpenInv
  <2>2. \A t \in Members[c] : Answers[c][t] # "NONE"
    <3> SUFFICES ASSUME NEW t \in Targets, item[c][t].status # "ABSENT"
                 PROVE  Answers[c][t] # "NONE"
      BY <1>0, MembersDef
    <3>1. item[c][t].status \in ItemStatuses
      BY <1>0 DEF StoreTypeOK, Item
    <3>2. item[c][t].status \in Terminal
      BY <2>1, <3>1 DEF ItemStatuses
    <3> QED
      BY <3>2 DEF Answers, Terminal, Failures
  <2> QED
    BY <2>2 DEF Abstract!Open
<1>5. Members' = [Members EXCEPT ![b] = targets]
  <2>1. \A t \in Targets : row[t].status # "ABSENT" <=> t \in targets
    BY DEF NewItem, Absent
  <2> HIDE DEF row
  <2>2. Members'[b] = targets
    BY <1>0, <1>1, <2>1 DEF Members, With, StoreTypeOK, Item
  <2>3. \A c \in Batches : c # b => Members'[c] = Members[c]
    BY <1>0, <1>1 DEF Members, With, StoreTypeOK
  <2> QED
    BY <2>2, <2>3 DEF Members
<1>6. Answers' = [Answers EXCEPT ![b] = [t \in Targets |->
                    IF t \in targets \cap Manual THEN "SKIPPED_MANUAL" ELSE "NONE"]]
  <2>1. \A t \in Targets : row[t].status = IF t \in targets
           THEN (IF t \in Manual THEN "SKIPPED_MANUAL" ELSE "PENDING") ELSE "ABSENT"
    BY DEF NewItem, Absent
  <2> HIDE DEF row
  <2>2. Answers'[b] = [t \in Targets |-> IF t \in targets \cap Manual THEN "SKIPPED_MANUAL" ELSE "NONE"]
    BY <1>0, <1>1, <2>1 DEF Answers, StoreTypeOK, Terminal, Failures
  <2>3. \A c \in Batches : c # b => Answers'[c] = Answers[c]
    BY <1>0, <1>1 DEF Answers, StoreTypeOK
  <2> QED
    BY <2>2, <2>3 DEF Answers
<1> QED
  BY <1>2, <1>3, <1>4, <1>5, <1>6 DEF Abstract!OpenBatch

LEMMA CompleteRefines ==
  ASSUME TypeInv, NEW c \in Claim, NEW o \in Outcome, CompleteItem(c, o)
  PROVE  Abstract!Answer(c.batch, c.target, o.status)
<1>0. StoreTypeOK /\ StoreTypeOK'
  BY CompleteItemTypes DEF TypeInv
<1> DEFINE b == c.batch
           u == c.target
           row == [item[b] EXCEPT ![u] = Answered(item[b][u], o)]
<1>1. b \in Batches /\ u \in Targets
  BY DEF Claim
<1>2. item' = [item EXCEPT ![b] = row] /\ item[b][u].status = "RUNNING"
  BY DEF CompleteItem, Recordable, HoldsLease
<1>3. /\ item'[b][u].status = o.status
      /\ \A d \in Batches, t \in Targets : d # b \/ t # u => item'[d][t] = item[d][t]
  BY <1>0, <1>1, <1>2 DEF StoreTypeOK, Answered
<1>4. o.status \in Terminal
  BY DEF Outcome, Terminal
<1> HIDE DEF row, b, u
<1>5. u \in Members[b] /\ Answers[b][u] = "NONE"
  BY <1>0, <1>1, <1>2, MembersDef DEF Answers, Terminal, Failures
<1>6. Members' = Members
  <2>1. {item[b][u].status, item'[b][u].status} \subseteq ItemStatuses \ {"ABSENT"}
    BY <1>2, <1>3, <1>4 DEF ItemStatuses, Terminal, Failures
  <2>2. \A d \in Batches, t \in Targets :
          item'[d][t].status \in ItemStatuses \ {"ABSENT"}
            <=> item[d][t].status \in ItemStatuses \ {"ABSENT"}
    BY <1>3, <2>1
  <2> QED
    BY <2>2 DEF Members, With
<1>7. Answers' = [Answers EXCEPT ![b][u] = o.status]
  <2>1. \A d \in Batches, t \in Targets : d # b \/ t # u => Answers'[d][t] = Answers[d][t]
    BY <1>3 DEF Answers
  <2>2. Answers'[b][u] = o.status
    BY <1>1, <1>3, <1>4 DEF Answers
  <2>3. Answers' \in [Batches -> [Targets -> Terminal \cup {"NONE"}]]
    BY DEF Answers
  <2>4. Answers \in [Batches -> [Targets -> Terminal \cup {"NONE"}]]
    BY DEF Answers
  <2> QED
    BY <1>1, <2>1, <2>2, <2>3, <2>4
<1> QED
  BY <1>5, <1>6, <1>7 DEF Abstract!Answer, b, u

\* Leases, heartbeats, recoveries, crashes and competing workers implement the
\* abstract batch: a snapshot is fixed when it is created, every connection of
\* it gets at most one result, and no household has two open batches.
THEOREM Refinement == Spec => RefinesRefreshBatch
<1>1. Init => Abstract!AbsInit
  BY DEF Init, StoreInit, Abstract!AbsInit, Members, Answers, With, Absent, ItemStatuses, Terminal,
         Failures
<1>2. TypeInv /\ TypeInv' /\ RowsInv /\ OpenInv /\ [Next]_vars => [Abstract!AbsNext]_<<Members, Answers>>
  <2> SUFFICES ASSUME TypeInv, TypeInv', RowsInv, OpenInv, [Next]_vars
               PROVE  Abstract!AbsNext \/ UNCHANGED <<Members, Answers>>
    OBVIOUS
  <2>0. StoreTypeOK /\ StoreTypeOK'
    BY DEF TypeInv
  <2>1. ASSUME NEW b \in Batches, NEW targets \in SUBSET Targets, CreateBatch(b, targets)
        PROVE  Abstract!AbsNext
    BY <2>1, CreateRefines DEF Abstract!AbsNext
  <2>2. ASSUME NEW c \in Claim, NEW o \in Outcome, CompleteItem(c, o)
        PROVE  Abstract!AbsNext
    <3>1. /\ c.batch \in Batches /\ c.target \in Targets
          /\ o.status \in Abstract!Success \cup Abstract!Failure
      BY DEF Claim, Outcome, Failures, Abstract!Success, Abstract!Failure
    <3> QED
      BY <2>2, <3>1, CompleteRefines DEF Abstract!AbsNext
  <2>3. ASSUME NEW b \in Batches, NEW t \in Targets, ClaimNext(b, t)
        PROVE  UNCHANGED <<Members, Answers>>
    BY <2>0, <2>3, Invisible
    DEF ClaimNext, Claimable, FirstPending, Pending, With, Leased, StoreTypeOK
  <2>4. ASSUME NEW c \in Claim, HeartbeatItem(c)
        PROVE  UNCHANGED <<Members, Answers>>
    BY <2>0, <2>4, Invisible DEF HeartbeatItem, Renewed, WithTtl, StoreTypeOK
  <2>5. ASSUME NEW b \in Batches, RecoverExpired(b)
        PROVE  UNCHANGED <<Members, Answers>>
    BY <2>0, <2>5, Invisible DEF RecoverExpired, Expired, Released, StoreTypeOK
  <2>6. CASE Elapse
    BY <2>0, <2>6, Invisible DEF Elapse, WithTtl
  <2>7. CASE UNCHANGED storeVars
    BY <2>7 DEF storeVars, Members, Answers, With
  <2> QED
    BY <2>1, <2>2, <2>3, <2>4, <2>5, <2>6, <2>7, StoreSteps DEF StoreStep
<1> QED
  BY <1>1, <1>2, TypeInvariant, RowsInvariant, OpenInvariant, SpecIsRetaining, PTL
  DEF Spec, RefinesRefreshBatch, Abstract!AbsSpec, Abstract!absVars
-----------------------------------------------------------------------------
(* What retention may delete *)

\* The terminal batches of a household, each listed once.
FinishedInv ==
  \A h \in Households : \A i \in 1..Len(finished[h]) :
    /\ status[finished[h][i]] \in BatchVerdicts
    /\ HouseholdOf[finished[h][i]] = h
    /\ \A j \in 1..Len(finished[h]) : finished[h][j] = finished[h][i] => i = j

\* The batch a step puts on the list of its household had no verdict before.
LEMMA FinishSteps ==
  ASSUME StoreTypeOK, StoreStep
  PROVE  \/ finished' = finished
         \/ \E b \in Batches :
              /\ status[b] \notin BatchVerdicts
              /\ status'[b] \in BatchVerdicts
              /\ finished' = [finished EXCEPT ![HouseholdOf[b]] = Append(@, b)]
<1>1. ASSUME NEW b \in Batches, NEW targets \in SUBSET Targets, CreateBatch(b, targets)
      PROVE  \/ finished' = finished
             \/ /\ status[b] \notin BatchVerdicts
                /\ status'[b] \in BatchVerdicts
                /\ finished' = [finished EXCEPT ![HouseholdOf[b]] = Append(@, b)]
  BY <1>1 DEF CreateBatch, Finish, StoreTypeOK, BatchVerdicts
<1>2. ASSUME NEW c \in Claim, NEW o \in Outcome, CompleteItem(c, o)
      PROVE  \/ finished' = finished
             \/ \E b \in Batches :
                  /\ status[b] \notin BatchVerdicts
                  /\ status'[b] \in BatchVerdicts
                  /\ finished' = [finished EXCEPT ![HouseholdOf[b]] = Append(@, b)]
  <2>1. PICK verdict \in BatchVerdicts \cup {"ACTIVE"} :
          status' = [status EXCEPT ![c.batch] = verdict] /\ Finish(c.batch, verdict)
    BY <1>2, VerdictType DEF CompleteItem
  <2>2. c.batch \in Batches /\ status[c.batch] = "ACTIVE"
    BY <1>2 DEF CompleteItem, Recordable, HoldsLease, Claim
  <2> QED
    BY <2>1, <2>2 DEF Finish, StoreTypeOK, BatchVerdicts
<1> QED
  BY <1>1, <1>2 DEF StoreStep, ClaimNext, HeartbeatItem, RecoverExpired, Elapse

LEMMA FinishedStoreStep ==
  ASSUME StoreTypeOK, FinishedInv, StoreStep
  PROVE  FinishedInv'
<1>1. \A b \in Batches : status[b] \in BatchVerdicts => status'[b] = status[b]
  BY StatusSteps DEF BatchVerdicts
<1>2. CASE finished' = finished
  BY <1>1, <1>2 DEF FinishedInv, StoreTypeOK
<1>3. ASSUME NEW b \in Batches, status[b] \notin BatchVerdicts, status'[b] \in BatchVerdicts,
             finished' = [finished EXCEPT ![HouseholdOf[b]] = Append(@, b)]
      PROVE  FinishedInv'
  <2> SUFFICES ASSUME NEW h \in Households, NEW i \in 1..Len(finished'[h])
               PROVE  /\ status'[finished'[h][i]] \in BatchVerdicts
                      /\ HouseholdOf[finished'[h][i]] = h
                      /\ \A j \in 1..Len(finished'[h]) :
                           finished'[h][j] = finished'[h][i] => i = j
    BY DEF FinishedInv
  <2>1. finished[h] \in Seq(Batches) /\ Len(finished[h]) \in Nat
    BY DEF StoreTypeOK
  <2>2. CASE h # HouseholdOf[b]
    <3>1. finished'[h] = finished[h]
      BY <1>3, <2>2 DEF StoreTypeOK
    <3> QED
      BY <1>1, <2>1, <3>1 DEF FinishedInv
  <2>3. CASE h = HouseholdOf[b]
    <3>1. finished'[h] = Append(finished[h], b)
      BY <1>3, <2>3 DEF StoreTypeOK
    <3>2. /\ Len(finished'[h]) = Len(finished[h]) + 1
          /\ \A j \in 1..Len(finished[h]) : finished'[h][j] = finished[h][j]
          /\ finished'[h][Len(finished[h]) + 1] = b
      BY <2>1, <3>1, AppendProperties
    <3>3. \A j \in 1..Len(finished[h]) : finished[h][j] \in Batches /\ finished[h][j] # b
      BY <1>3, <2>1 DEF FinishedInv
    <3>4. \A j \in 1..Len(finished'[h]) : j \in 1..Len(finished[h]) \/ j = Len(finished[h]) + 1
      BY <2>1, <3>2
    <3> QED
      BY <1>1, <1>3, <2>3, <3>2, <3>3, <3>4 DEF FinishedInv
  <2> QED
    BY <2>2, <2>3
<1> QED
  BY <1>2, <1>3, FinishSteps

LEMMA FinishedRetainStep ==
  ASSUME StoreTypeOK, FinishedInv, RetainStep
  PROVE  FinishedInv'
<1>1. PICK h \in Households, aged \in Nat : RetainBatches(h, aged)
  BY DEF RetainStep
<1>2. PICK k \in 0..Len(finished[h]) :
        LET gone == {finished[h][i] : i \in 1..k}
        IN /\ \A b \in Batches \ gone : status'[b] = status[b]
           /\ \A g \in Households \ {h} : finished'[g] = finished[g]
           /\ Len(finished'[h]) = Len(finished[h]) - k
           /\ \A i \in 1..Len(finished'[h]) : finished'[h][i] = finished[h][i + k]
  BY <1>1, RetainEffect
<1>3. \A g \in Households : finished[g] \in Seq(Batches) /\ Len(finished[g]) \in Nat
  BY DEF StoreTypeOK
<1>4. ASSUME NEW g \in Households \ {h}, NEW i \in 1..Len(finished[g])
      PROVE  status'[finished[g][i]] = status[finished[g][i]]
  <2>1. finished[g][i] \in Batches /\ HouseholdOf[finished[g][i]] = g
    BY <1>3 DEF FinishedInv
  <2>2. \A j \in 1..k : HouseholdOf[finished[h][j]] = h
    <3>1. Len(finished[h]) \in Nat /\ 1..k \subseteq 1..Len(finished[h])
      BY <1>3
    <3> QED
      BY <3>1 DEF FinishedInv
  <2>3. finished[g][i] \notin {finished[h][j] : j \in 1..k}
    BY <2>1, <2>2
  <2> QED
    BY <1>2, <2>1, <2>3
<1>5. ASSUME NEW i \in 1..Len(finished'[h])
      PROVE  /\ i + k \in 1..Len(finished[h])
             /\ finished'[h][i] = finished[h][i + k]
             /\ status'[finished[h][i + k]] = status[finished[h][i + k]]
  <2>1. i + k \in 1..Len(finished[h]) /\ finished'[h][i] = finished[h][i + k]
    BY <1>2, <1>3
  <2>2. \A j \in 1..k : finished[h][j] # finished[h][i + k]
    BY <1>2, <1>3, <2>1 DEF FinishedInv
  <2>3. finished[h][i + k] \in Batches \ {finished[h][j] : j \in 1..k}
    BY <1>3, <2>1, <2>2
  <2> QED
    BY <1>2, <2>1, <2>3
<1>6. \A i \in 1..Len(finished'[h]) :
        /\ status'[finished'[h][i]] \in BatchVerdicts
        /\ HouseholdOf[finished'[h][i]] = h
        /\ \A j \in 1..Len(finished'[h]) : finished'[h][j] = finished'[h][i] => i = j
  <2> SUFFICES ASSUME NEW i \in 1..Len(finished'[h])
               PROVE  /\ status'[finished'[h][i]] \in BatchVerdicts
                      /\ HouseholdOf[finished'[h][i]] = h
                      /\ \A j \in 1..Len(finished'[h]) :
                           finished'[h][j] = finished'[h][i] => i = j
    OBVIOUS
  <2>1. i \in Int /\ i + k \in 1..Len(finished[h]) /\ finished'[h][i] = finished[h][i + k]
    BY <1>2, <1>3, <1>5
  <2>2. ASSUME NEW j \in 1..Len(finished'[h]), finished'[h][j] = finished'[h][i]
        PROVE  i = j
    <3>1. j \in Int /\ j + k \in 1..Len(finished[h]) /\ finished[h][j + k] = finished[h][i + k]
      BY <1>2, <1>3, <1>5, <2>1, <2>2
    <3>2. i + k = j + k
      BY <2>1, <3>1 DEF FinishedInv
    <3> QED
      BY <2>1, <3>1, <3>2
  <2>3. status[finished[h][i + k]] \in BatchVerdicts /\ HouseholdOf[finished[h][i + k]] = h
    BY <2>1 DEF FinishedInv
  <2> QED
    BY <1>5, <2>1, <2>2, <2>3
<1>7. \A g \in Households \ {h} : \A i \in 1..Len(finished'[g]) :
        /\ status'[finished'[g][i]] \in BatchVerdicts
        /\ HouseholdOf[finished'[g][i]] = g
        /\ \A j \in 1..Len(finished'[g]) : finished'[g][j] = finished'[g][i] => i = j
  BY <1>2, <1>4 DEF FinishedInv
<1> QED
  BY <1>6, <1>7 DEF FinishedInv

LEMMA FinishedInvariant == RetainingSpec => []FinishedInv
<1>1. Init => FinishedInv
  BY DEF Init, StoreInit, FinishedInv
<1>2. TypeInv /\ FinishedInv /\ [RetainingNext]_vars => FinishedInv'
  <2>1. FinishedInv /\ UNCHANGED storeVars => FinishedInv'
    BY DEF FinishedInv, storeVars
  <2> QED
    BY <2>1, RetainingSteps, StoreSteps, FinishedStoreStep, FinishedRetainStep DEF TypeInv
<1> QED
  BY <1>1, <1>2, RetainingTypes, PTL DEF RetainingSpec

\* retain_batches, run at any moment with any age limit, deletes terminal
\* batches only: an active batch is never on the list it cuts.
THEOREM RetentionIsSafe == RetainingSpec => RetentionSparesActive
<1>1. TypeInv /\ FinishedInv /\ [RetainingNext]_vars =>
        [\A b \in Batches : status[b] = "ACTIVE" => status'[b] # "DELETED"]_vars
  <2> SUFFICES ASSUME TypeInv, FinishedInv, [RetainingNext]_vars, NEW b \in Batches,
                      status[b] = "ACTIVE"
               PROVE  status'[b] # "DELETED"
    OBVIOUS
  <2>1. CASE StoreStep
    BY <2>1, StatusSteps DEF TypeInv, BatchVerdicts
  <2>2. CASE UNCHANGED storeVars
    BY <2>2 DEF storeVars
  <2>3. CASE RetainStep
    <3>1. PICK h \in Households, aged \in Nat : RetainBatches(h, aged)
      BY <2>3 DEF RetainStep
    <3>2. PICK k \in 0..Len(finished[h]) :
            \A c \in Batches \ {finished[h][i] : i \in 1..k} : status'[c] = status[c]
      BY <3>1, RetainEffect DEF TypeInv
    <3>3. finished[h] \in Seq(Batches)
      BY DEF TypeInv, StoreTypeOK
    <3>4. \A i \in 1..k : finished[h][i] # b
      BY <3>2, <3>3 DEF FinishedInv, BatchVerdicts
    <3> QED
      BY <3>2, <3>4
  <2> QED
    BY <2>1, <2>2, <2>3, RetainingSteps, StoreSteps
<1> QED
  BY <1>1, RetainingTypes, FinishedInvariant, PTL DEF RetainingSpec, RetentionSparesActive

-----------------------------------------------------------------------------
(* Counters and verdicts *)

\* The counters of a batch row count a partition of its items, and all of them
\* are terminal exactly when no item is pending or running.
LEMMA TallyParts ==
  ASSUME NEW row \in [Targets -> Item]
  PROVE  LET counts == TallyOf(row)
         IN /\ counts.total \in Nat /\ counts.terminal \in Nat
            /\ counts.succeeded \in Nat /\ counts.noChanges \in Nat
            /\ counts.skipped \in Nat /\ counts.failed \in Nat
            /\ counts.terminal <= counts.total
            /\ counts.terminal = counts.succeeded + counts.noChanges
                                  + counts.skipped + counts.failed
            /\ counts.terminal = counts.total
                 <=> \A t \in Targets : row[t].status \notin {"PENDING", "RUNNING"}
            /\ counts.total = 0 <=> \A t \in Targets : row[t].status = "ABSENT"
            /\ counts.failed = 0 <=> \A t \in Targets : row[t].status \notin Failures
            /\ counts.succeeded + counts.noChanges > 0
                 <=> \E t \in Targets : row[t].status \in {"SUCCEEDED", "NO_CHANGES"}
<1> DEFINE all == With(row, ItemStatuses \ {"ABSENT"})
           done == With(row, Terminal)
           won == With(row, {"SUCCEEDED"})
           same == With(row, {"NO_CHANGES"})
           manual == With(row, {"SKIPPED_MANUAL"})
           lost == With(row, Failures)
<1>1. \A S \in {all, done, won, same, manual, lost} : IsFiniteSet(S) /\ Cardinality(S) \in Nat
  <2>1. \A S \in {all, done, won, same, manual, lost} : S \in SUBSET Targets
    BY DEF With
  <2> HIDE DEF all, done, won, same, manual, lost
  <2> QED
    BY <2>1, TargetsAssumption, FS_Subset, FS_CardinalityType
<1>2. done \subseteq all /\ done = (won \cup same) \cup (manual \cup lost)
  BY DEF With, ItemStatuses, Terminal, Failures
<1>3. /\ won \cap same = {} /\ manual \cap lost = {}
      /\ (won \cup same) \cap (manual \cup lost) = {}
  BY DEF With, Failures
<1>4. done = all <=> \A t \in Targets : row[t].status \notin {"PENDING", "RUNNING"}
  BY DEF With, ItemStatuses, Terminal, Failures
<1>5. all = {} <=> \A t \in Targets : row[t].status = "ABSENT"
  BY DEF With, Item
<1>6. lost = {} <=> \A t \in Targets : row[t].status \notin Failures
  BY DEF With
<1>7. won = {} /\ same = {}
        <=> ~\E t \in Targets : row[t].status \in {"SUCCEEDED", "NO_CHANGES"}
  BY DEF With
<1>8. LET counts == TallyOf(row)
      IN /\ counts.total = Cardinality(all) /\ counts.terminal = Cardinality(done)
         /\ counts.succeeded = Cardinality(won) /\ counts.noChanges = Cardinality(same)
         /\ counts.skipped = Cardinality(manual) /\ counts.failed = Cardinality(lost)
  BY DEF TallyOf
<1> HIDE DEF all, done, won, same, manual, lost
<1>9. Cardinality(done) <= Cardinality(all) /\ (Cardinality(done) = Cardinality(all) <=> done = all)
  BY <1>1, <1>2, FS_Subset
<1>10. Cardinality(won \cup same) = Cardinality(won) + Cardinality(same)
  <2>1. Cardinality(won \cup same) = Cardinality(won) + Cardinality(same) - Cardinality({})
    BY <1>1, <1>3, FS_Union
  <2> QED
    BY <1>1, <2>1, FS_EmptySet
<1>11. Cardinality(manual \cup lost) = Cardinality(manual) + Cardinality(lost)
  <2>1. Cardinality(manual \cup lost) = Cardinality(manual) + Cardinality(lost) - Cardinality({})
    BY <1>1, <1>3, FS_Union
  <2> QED
    BY <1>1, <2>1, FS_EmptySet
<1>12. Cardinality(done) = Cardinality(won \cup same) + Cardinality(manual \cup lost)
  <2>1. IsFiniteSet(won \cup same) /\ IsFiniteSet(manual \cup lost)
    BY <1>1, FS_Union
  <2>2. Cardinality((won \cup same) \cup (manual \cup lost))
          = Cardinality(won \cup same) + Cardinality(manual \cup lost) - Cardinality({})
    BY <1>3, <2>1, FS_Union
  <2>3. Cardinality(won \cup same) \in Nat /\ Cardinality(manual \cup lost) \in Nat
    BY <2>1, FS_CardinalityType
  <2> QED
    BY <1>2, <2>2, <2>3, FS_EmptySet
<1>13. \A S \in {all, won, same, lost} : Cardinality(S) = 0 <=> S = {}
  BY <1>1, FS_EmptySet
<1>14. Cardinality(won) + Cardinality(same) > 0 <=> ~(won = {} /\ same = {})
  BY <1>1, <1>13
<1> QED
  BY <1>1, <1>4, <1>5, <1>6, <1>7, <1>8, <1>9, <1>10, <1>11, <1>12, <1>13, <1>14

\* Leases, renewals and recoveries leave the counters alone.
LEMMA SameTally ==
  ASSUME NEW row \in [Targets -> Item], NEW new \in [Targets -> Item],
         \A t \in Targets :
           /\ new[t].changed = row[t].changed
           /\ \/ new[t].status = row[t].status
              \/ {row[t].status, new[t].status} \subseteq {"PENDING", "RUNNING"}
  PROVE  TallyOf(new) = TallyOf(row)
<1>1. With(new, ItemStatuses \ {"ABSENT"}) = With(row, ItemStatuses \ {"ABSENT"})
  BY DEF With, ItemStatuses
<1>2. \A S \in SUBSET Terminal : With(new, S) = With(row, S)
  BY DEF With, Terminal, Failures
<1>3. [t \in Targets |-> new[t].changed] = [t \in Targets |-> row[t].changed]
  OBVIOUS
<1>4. {Terminal, {"SUCCEEDED"}, {"NO_CHANGES"}, {"SKIPPED_MANUAL"}, Failures} \subseteq SUBSET Terminal
  BY DEF Terminal
<1> QED
  BY <1>1, <1>2, <1>3, <1>4 DEF TallyOf

\* The counters are those of the items, the status is the verdict of the
\* counters, and an item without a result has changed nothing.
CountInv ==
  /\ tally = [b \in Batches |-> TallyOf(item[b])]
  /\ \A b \in Batches :
       /\ status[b] \in {"NONE", "DELETED"} <=> \A t \in Targets : item[b][t].status = "ABSENT"
       /\ status[b] \notin {"NONE", "DELETED"} => status[b] = VerdictOf(tally[b])
       /\ \A t \in Targets : item[b][t].status \in {"PENDING", "RUNNING"} => item[b][t].changed = 0

\* A batch is created with the verdict of its items: COMPLETE when all of them
\* are manual imports.
LEMMA CreateCounts ==
  ASSUME StoreTypeOK, CountInv,
         NEW b \in Batches, NEW targets \in SUBSET Targets, CreateBatch(b, targets)
  PROVE  CountInv'
<1> DEFINE row == [t \in Targets |-> IF t \in targets THEN NewItem(t) ELSE Absent]
           verdict == IF targets \subseteq Manual THEN "COMPLETE" ELSE "ACTIVE"
<1>1. StoreTypeOK'
  BY CreateBatchTypes
<1>2. \A t \in Targets : /\ t \in targets \ Manual <=> row[t].status = "PENDING"
                         /\ t \in targets \cap Manual <=> row[t].status = "SKIPPED_MANUAL"
                         /\ row[t].status \in {"PENDING", "SKIPPED_MANUAL", "ABSENT"}
                         /\ row[t].changed = 0
  BY DEF NewItem, Absent
<1>3. /\ status' = [status EXCEPT ![b] = verdict]
      /\ item' = [item EXCEPT ![b] = row]
      /\ tally' = [tally EXCEPT ![b] = TallyOf(row)]
  BY DEF CreateBatch
<1>4. \E t \in Targets : row[t].status # "ABSENT"
  BY <1>2 DEF CreateBatch, CanCreate
<1> HIDE DEF row
<1>5. status'[b] = verdict /\ item'[b] = row /\ tally'[b] = TallyOf(row)
  BY <1>3 DEF StoreTypeOK, CountInv
<1>6. row \in [Targets -> Item]
  BY <1>1, <1>5 DEF StoreTypeOK
<1>7. verdict = VerdictOf(TallyOf(row))
  BY <1>2, <1>6, TallyParts DEF VerdictOf, Failures
<1>8. \A c \in Batches \ {b} : status'[c] = status[c] /\ item'[c] = item[c]
  BY <1>3 DEF StoreTypeOK
<1>9. tally' = [c \in Batches |-> TallyOf(item'[c])]
  BY <1>3, <1>5, <1>8 DEF CountInv
<1> QED
  BY <1>4, <1>2, <1>5, <1>7, <1>8, <1>9 DEF CountInv

LEMMA CompleteCounts ==
  ASSUME StoreTypeOK, CountInv,
         NEW c \in Claim, NEW o \in Outcome, CompleteItem(c, o)
  PROVE  CountInv'
<1> DEFINE b == c.batch
           row == [item[b] EXCEPT ![c.target] = Answered(item[b][c.target], o)]
<1>1. b \in Batches /\ c.target \in Targets /\ status[b] = "ACTIVE"
  BY DEF Claim, CompleteItem, Recordable, HoldsLease
<1>2. /\ status' = [status EXCEPT ![b] = VerdictOf(TallyOf(row))]
      /\ item' = [item EXCEPT ![b] = row]
      /\ tally' = [tally EXCEPT ![b] = TallyOf(row)]
  BY DEF CompleteItem
<1>3. \A t \in Targets : row[t].status \in {"PENDING", "RUNNING"} => row[t].changed = 0
  BY <1>1 DEF CountInv, StoreTypeOK, Answered, Outcome, Failures
<1>4. \E t \in Targets : row[t].status # "ABSENT"
  BY <1>1 DEF StoreTypeOK, Answered, Outcome, Failures
<1> HIDE DEF row, b
<1>5. /\ status'[b] = VerdictOf(tally'[b])
      /\ item'[b] = row
      /\ tally'[b] = TallyOf(row)
  BY <1>1, <1>2 DEF StoreTypeOK, CountInv
<1>6. \A d \in Batches \ {b} : status'[d] = status[d] /\ item'[d] = item[d]
  BY <1>2 DEF StoreTypeOK
<1>7. status'[b] \notin {"NONE", "DELETED"}
  BY <1>5, VerdictType DEF BatchVerdicts
<1>8. tally' = [d \in Batches |-> TallyOf(item'[d])]
  BY <1>2, <1>5, <1>6 DEF CountInv
<1> QED
  BY <1>4, <1>1, <1>3, <1>5, <1>6, <1>7, <1>8 DEF CountInv

LEMMA CountStep ==
  ASSUME StoreTypeOK, StoreTypeOK', CountInv, StoreStep
  PROVE  CountInv'
<1> DEFINE Kept(b, t) ==
      /\ item'[b][t].changed = item[b][t].changed
      /\ \/ item'[b][t].status = item[b][t].status
         \/ {item[b][t].status, item'[b][t].status} \subseteq {"PENDING", "RUNNING"}
<1>1. ASSUME UNCHANGED <<status, tally>>, \A b \in Batches, t \in Targets : Kept(b, t)
      PROVE  CountInv'
  <2>1. \A b \in Batches : TallyOf(item'[b]) = TallyOf(item[b])
    BY <1>1, SameTally DEF StoreTypeOK
  <2>2. \A b \in Batches, t \in Targets :
          /\ item[b][t].status = "ABSENT" <=> item'[b][t].status = "ABSENT"
          /\ item'[b][t].status \in {"PENDING", "RUNNING"} => item'[b][t].changed = 0
    BY <1>1 DEF CountInv
  <2> QED
    BY <1>1, <2>1, <2>2 DEF CountInv
<1>2. \A b \in Batches, t \in Targets :
        /\ item[b][t] \in Item
        /\ item[b][t].status \in {"PENDING", "RUNNING"} => item[b][t].changed = 0
  BY DEF StoreTypeOK, CountInv
<1>3. ASSUME NEW d \in Batches, NEW u \in Targets, ClaimNext(d, u)
      PROVE  \A b \in Batches, t \in Targets : Kept(b, t)
  BY <1>2, <1>3 DEF ClaimNext, Claimable, FirstPending, Pending, With, StoreTypeOK, Leased
<1>4. ASSUME NEW c \in Claim, HeartbeatItem(c)
      PROVE  \A b \in Batches, t \in Targets : Kept(b, t)
  BY <1>4 DEF HeartbeatItem, StoreTypeOK, Claim, Renewed, WithTtl
<1>5. ASSUME NEW d \in Batches, RecoverExpired(d)
      PROVE  \A b \in Batches, t \in Targets : Kept(b, t)
  BY <1>2, <1>5 DEF RecoverExpired, Expired, StoreTypeOK, Released
<1>6. CASE Elapse
  <2>1. \A b \in Batches, t \in Targets : Kept(b, t)
    BY <1>6 DEF Elapse, WithTtl
  <2> QED
    BY <1>1, <1>6, <2>1 DEF Elapse
<1> QED
  BY <1>1, <1>3, <1>4, <1>5, <1>6, CreateCounts, CompleteCounts
  DEF StoreStep, ClaimNext, HeartbeatItem, RecoverExpired

LEMMA CountRetainStep ==
  ASSUME StoreTypeOK, StoreTypeOK', CountInv, RetainStep
  PROVE  CountInv'
<1>1. PICK h \in Households, aged \in Nat : RetainBatches(h, aged)
  BY DEF RetainStep
<1>2. PICK gone \in SUBSET Batches :
        /\ \A b \in gone : /\ status'[b] = "DELETED"
                           /\ item'[b] = [t \in Targets |-> Absent]
                           /\ tally'[b] = TallyOf(item'[b])
        /\ \A b \in Batches \ gone :
             status'[b] = status[b] /\ item'[b] = item[b] /\ tally'[b] = tally[b]
  <2>1. PICK k \in 0..Len(finished[h]) :
          LET gone == {finished[h][i] : i \in 1..k}
          IN /\ gone \subseteq Batches
             /\ \A b \in gone : /\ status'[b] = "DELETED"
                                /\ item'[b] = [t \in Targets |-> Absent]
                                /\ tally'[b] = TallyOf(item'[b])
             /\ \A b \in Batches \ gone :
                  status'[b] = status[b] /\ item'[b] = item[b] /\ tally'[b] = tally[b]
    BY <1>1, RetainEffect
  <2> QED
    BY <2>1
<1>3. tally' = [b \in Batches |-> tally'[b]]
  BY <1>1 DEF RetainBatches
<1>4. \A b \in Batches : tally'[b] = TallyOf(item'[b])
  BY <1>2 DEF CountInv
<1>5. \A b \in gone, t \in Targets : item'[b][t].status = "ABSENT"
  BY <1>2 DEF Absent
<1> QED
  BY <1>2, <1>3, <1>4, <1>5 DEF CountInv

LEMMA CountInvariant == RetainingSpec => []CountInv
<1>1. Init => CountInv
  BY DEF Init, StoreInit, CountInv, Absent
<1>2. TypeInv /\ TypeInv' /\ CountInv /\ [RetainingNext]_vars => CountInv'
  <2>1. CountInv /\ UNCHANGED storeVars => CountInv'
    BY DEF CountInv, storeVars
  <2> QED
    BY <2>1, RetainingSteps, StoreSteps, CountStep, CountRetainStep DEF TypeInv
<1> QED
  BY <1>1, <1>2, RetainingTypes, PTL DEF RetainingSpec

\* In whatever order items are claimed, renewed, recovered, answered and pruned,
\* the counters of a batch row are those of its items, they satisfy the CHECK
\* constraints of migration 0071, and the row says ACTIVE exactly while an item
\* has no result (create_batch, complete_item).
THEOREM CountersMatch == RetainingSpec => []CountersMatchItems
<1>1. StoreTypeOK /\ CountInv => CountersMatchItems
  <2> SUFFICES ASSUME StoreTypeOK, CountInv, NEW b \in Batches
               PROVE  /\ tally[b] = TallyOf(item[b])
                      /\ tally[b].terminal = tally[b].succeeded + tally[b].noChanges
                                              + tally[b].skipped + tally[b].failed
                      /\ status[b] = "ACTIVE" <=> tally[b].terminal < tally[b].total
                      /\ status[b] \in BatchVerdicts => tally[b].terminal = tally[b].total
    BY DEF CountersMatchItems
  <2>1. tally[b] = TallyOf(item[b]) /\ item[b] \in [Targets -> Item]
    BY DEF CountInv, StoreTypeOK
  <2>2. /\ tally[b].total \in Nat /\ tally[b].terminal \in Nat
        /\ tally[b].terminal <= tally[b].total
        /\ tally[b].terminal = tally[b].succeeded + tally[b].noChanges
                                + tally[b].skipped + tally[b].failed
        /\ tally[b].total = 0 <=> \A t \in Targets : item[b][t].status = "ABSENT"
    BY <2>1, TallyParts
  <2>3. status[b] \in {"NONE", "DELETED"} => tally[b].total = 0
    BY <2>2 DEF CountInv
  <2>4. status[b] \notin {"NONE", "DELETED"} =>
          (status[b] = "ACTIVE" <=> tally[b].terminal # tally[b].total)
    BY DEF CountInv, VerdictOf
  <2> QED
    BY <2>1, <2>2, <2>3, <2>4 DEF BatchVerdicts
<1> QED
  BY <1>1, CountInvariant, RetainingTypes, PTL DEF TypeInv

\* The stored status is the verdict of all items: the first failure does not
\* close the batch, and skipped manual imports do not count as a success
\* (complete_item).
THEOREM VerdictIsOfAllItems == RetainingSpec => []VerdictOfAllItems
<1>1. StoreTypeOK /\ CountInv => VerdictOfAllItems
  <2> SUFFICES ASSUME StoreTypeOK, CountInv, NEW b \in Batches, status[b] # "DELETED"
               PROVE  status[b] = Abstract!Verdict(b)
    BY DEF VerdictOfAllItems
  <2>1. item[b] \in [Targets -> Item] /\ tally[b] = TallyOf(item[b])
    BY DEF CountInv, StoreTypeOK
  <2>2. Members[b] = {t \in Targets : item[b][t].status # "ABSENT"}
    BY MembersDef
  <2>3. \A t \in Targets : Answers[b][t] = IF item[b][t].status \in Terminal
                                          THEN item[b][t].status ELSE "NONE"
    BY DEF Answers
  <2>4. \A t \in Targets : item[b][t].status \in ItemStatuses
    BY <2>1 DEF Item
  <2>5. CASE status[b] = "NONE"
    BY <2>2, <2>5 DEF CountInv, Abstract!Verdict
  <2>6. CASE status[b] # "NONE"
    <3>1. status[b] = VerdictOf(TallyOf(item[b]))
      BY <2>1, <2>6 DEF CountInv
    <3>2. Abstract!Open(b) <=> \E t \in Targets : item[b][t].status \in {"PENDING", "RUNNING"}
      BY <2>2, <2>3, <2>4 DEF Abstract!Open, ItemStatuses, Terminal, Failures
    <3>3. (\A t \in Members[b] : Answers[b][t] \notin Abstract!Failure)
            <=> \A t \in Targets : item[b][t].status \notin Failures
      BY <2>2, <2>3, <2>4 DEF Abstract!Failure, ItemStatuses, Terminal, Failures
    <3>4. (\E t \in Members[b] : Answers[b][t] \in Abstract!Success)
            <=> \E t \in Targets : item[b][t].status \in {"SUCCEEDED", "NO_CHANGES"}
      BY <2>2, <2>3, <2>4 DEF Abstract!Success, ItemStatuses, Terminal, Failures
    <3>5. Members[b] # {}
      BY <2>2, <2>6 DEF CountInv
    <3> QED
      BY <2>1, <3>1, <3>2, <3>3, <3>4, <3>5, TallyParts DEF VerdictOf, Abstract!Verdict
  <2> QED
    BY <2>5, <2>6
<1> QED
  BY <1>1, CountInvariant, RetainingTypes, PTL DEF TypeInv

-----------------------------------------------------------------------------
(* The wake-up *)

\* What a step can do to the idle wait of a worker: only an empty list of active
\* batches leads into it, and a wake-up requested before or during it stays.
LEMMA IdleSteps ==
  ASSUME TypeInv, [Next]_vars, NEW w \in Workers, Workers = {w}
  PROVE  \/ pc'[w] \notin {"listed", "idle"}
         \/ ActiveList = {} /\ UNCHANGED status
         \/ wake'[w] \/ waking'[w] > 0
         \/ /\ pc[w] \in {"listed", "idle"}
            /\ UNCHANGED <<status, wake, waking>>
         \/ /\ UNCHANGED <<pc, wake, waking>>
            /\ \A b \in Batches : status'[b] = "ACTIVE" => status[b] = "ACTIVE"
<1> USE DEF TypeInv, PassInv, SignalTypeOK
<1>1. ASSUME NEW b \in Batches, NEW targets \in Snapshots, RefreshCommand(w, b, targets)
      PROVE  waking'[w] > 0
  BY <1>1 DEF RefreshCommand
<1>2. CASE Wake(w)
  BY <1>2 DEF Wake
<1>3. CASE WorkerStep(w)
  <2>1. CASE Scan(w)
    BY <2>1 DEF Scan, Visit, Goto, storeVars
  <2>2. CASE BeginIdle(w)
    BY <2>2 DEF BeginIdle, storeVars, signalVars
  <2>3. CASE Record(w)
    BY <2>3 DEF Record, NextBatch, Visit, Goto
  <2> QED
    BY <1>3, <2>1, <2>2, <2>3
    DEF WorkerStep, WaitOver, Leave, Recover, ClaimItem, NothingToClaim, LoadBatch, NextBatch, Visit,
        StoreRefuses, AbandonPass, ExecutorReturns, DiscardOutcome, RecordRefused, Goto
<1>4. CASE HeartbeatStep(w) \/ Tick \/ Suspend \/ Shutdown(w) \/ UNCHANGED vars
  BY <1>4 DEF HeartbeatStep, Heartbeat, LoseHeartbeat, HeartbeatItem, Tick, Suspend, Shutdown, Elapse,
              vars, storeVars, workerVars, signalVars
<1>5. CASE InfrastructureFails(w) \/ Restart(w) \/ Crash(w)
  BY <1>5 DEF InfrastructureFails, AbandonPass, Restart, Crash, FreshProcess, Goto
<1> QED
  BY <1>1, <1>2, <1>3, <1>4, <1>5 DEF Next

\* With one process, a wake() that comes between the empty list and the idle
\* wait, or during it, is not lost: the worker never waits its full timeout while
\* a batch is active and nobody is about to wake it (WorkerSignal, run_worker).
THEOREM WakeupKept == RetainingSpec => []NoLostWakeup
<1>1. Init => NoLostWakeup
  BY DEF Init, NoLostWakeup
<1>2. TypeInv /\ NoLostWakeup /\ [RetainingNext]_vars => NoLostWakeup'
  <2> SUFFICES ASSUME TypeInv, NoLostWakeup, [RetainingNext]_vars,
                      Cardinality(Workers) = 1, NEW w \in Workers,
                      pc'[w] \in {"listed", "idle"},
                      NEW b \in Batches, status'[b] = "ACTIVE"
               PROVE  wake'[w] \/ waking'[w] > 0
    BY DEF NoLostWakeup
  <2>1. Workers = {w}
    BY WorkersAssumption, FS_Singleton
  <2>2. CASE [Next]_vars
    BY <2>1, <2>2, IdleSteps DEF NoLostWakeup, ActiveList
  <2>3. CASE RetainStep /\ UNCHANGED <<workerVars, signalVars, faults>>
    <3>1. status[b] = "ACTIVE"
      BY <2>3 DEF RetainStep, RetainBatches
    <3> QED
      BY <2>3, <3>1 DEF NoLostWakeup, workerVars, signalVars
  <2> QED
    BY <2>2, <2>3, RetainingSteps
<1> QED
  BY <1>1, <1>2, RetainingTypes, PTL DEF RetainingSpec
=================================================================================
