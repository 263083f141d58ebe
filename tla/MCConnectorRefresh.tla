--------------------------- MODULE MCConnectorRefresh ---------------------------
(* Instances of ConnectorRefresh for TLC. *)
EXTENDS ConnectorRefresh, TLC

CONSTANTS b1, b2, b3, h1, h2

\* b1 and b2 belong to h1, b3 (when present) to h2.
mcHouseholdOf == [b \in Batches |-> IF b = b3 THEN h2 ELSE h1]

\* Target 9 is the manual import, last in the claim order.
mcManual == {9} \cap Targets

mcTwoOutcomes ==
  {[status |-> "SUCCEEDED", changed |-> 1], [status |-> "NEEDS_ACTION", changed |-> 0]}

\* "Refresh all" of everything, and "refresh one".
mcSnapshots == {Targets, {1}}

\* "Refresh one", and a household with no connector but the manual import.
mcOneOrManual == {{1}, mcManual}

\* Every connector succeeds: the retention and the wake-ups do not read the outcome.
mcSucceeds == {[status |-> "SUCCEEDED", changed |-> 1]}

\* The commands, the worker and the pruning of old batches, under the worker's fairness.
FairRetainingSpec == RetainingSpec /\ Fairness

WorkerSymmetry == Permutations(Workers)
=================================================================================
