------------------------------ MODULE RefreshBatch ------------------------------
(***************************************************************************)
(* What a connector refresh promises, without leases, workers or time: a   *)
(* batch is opened once over a fixed set of connections, one batch at a    *)
(* time per household; every connection gets exactly one result; the last  *)
(* result closes the batch with the verdict of all of them.                *)
(***************************************************************************)
CONSTANTS Households, Batches, HouseholdOf, Targets, Manual

VARIABLES
  members,   \* [Batches -> SUBSET Targets]: {} while the batch is not opened
  answer     \* [Batches -> [Targets -> result, or "NONE"]]

absVars == <<members, answer>>

Failure == {"FAILED_RETRYABLE", "NEEDS_ACTION"}
Success == {"SUCCEEDED", "NO_CHANGES"}

Open(b) == \E t \in members[b] : answer[b][t] = "NONE"

Verdict(b) ==
  IF members[b] = {} THEN "NONE"
  ELSE IF Open(b) THEN "ACTIVE"
  ELSE IF \A t \in members[b] : answer[b][t] \notin Failure THEN "COMPLETE"
  ELSE IF \E t \in members[b] : answer[b][t] \in Success THEN "PARTIAL"
  ELSE "FAILED"

AbsInit ==
  /\ members = [b \in Batches |-> {}]
  /\ answer = [b \in Batches |-> [t \in Targets |-> "NONE"]]

OpenBatch(b, targets) ==
  /\ members[b] = {}
  /\ targets # {}
  /\ targets \subseteq Manual \/ \A c \in Batches : HouseholdOf[c] = HouseholdOf[b] => ~Open(c)
  /\ members' = [members EXCEPT ![b] = targets]
  /\ answer' = [answer EXCEPT ![b] = [t \in Targets |->
                  IF t \in targets \cap Manual THEN "SKIPPED_MANUAL" ELSE "NONE"]]

Answer(b, t, r) ==
  /\ t \in members[b]
  /\ answer[b][t] = "NONE"
  /\ answer' = [answer EXCEPT ![b][t] = r]
  /\ UNCHANGED members

AbsNext ==
  \E b \in Batches :
    \/ \E targets \in SUBSET Targets : OpenBatch(b, targets)
    \/ \E t \in Targets, r \in Success \cup Failure : Answer(b, t, r)

AbsSpec == AbsInit /\ [][AbsNext]_absVars
=================================================================================
