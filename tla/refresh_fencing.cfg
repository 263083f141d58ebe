SPECIFICATION Spec
CONSTANTS
  b1 = b1
  b2 = b2
  b3 = b3
  h1 = h1
  h2 = h2
  Households = {h1}
  Batches = {b1}
  HouseholdOf <- mcHouseholdOf
  Targets = {1, 2, 9}
  Manual <- mcManual
  LeaseTicks = 2
  MaxGeneration = 3
  MaxChanged = 1
  RetainLimit = 1
  Workers = {w1, w2}
  Snapshots <- mcSnapshots
  Outcomes <- mcTwoOutcomes
  NoClaim = NoClaim
  NoBatch = NoBatch
  MaxFaults = 3
SYMMETRY WorkerSymmetry
INVARIANTS
  TypeOK
  ExclusiveLease
  CountersMatchItems
  VerdictOfAllItems
PROPERTIES
  ResultsAreFinal
  RefinesRefreshBatch
