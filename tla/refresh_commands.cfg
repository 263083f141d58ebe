SPECIFICATION FairRetainingSpec
CONSTANTS
  b1 = b1
  b2 = b2
  b3 = b3
  h1 = h1
  h2 = h2
  Households = {h1, h2}
  Batches = {b1, b2, b3}
  HouseholdOf <- mcHouseholdOf
  Targets = {1, 9}
  Manual <- mcManual
  LeaseTicks = 1
  MaxGeneration = 9
  MaxChanged = 9
  RetainLimit = 1
  Workers = {w1}
  Snapshots <- mcOneOrManual
  Outcomes <- mcSucceeds
  NoClaim = NoClaim
  NoBatch = NoBatch
  MaxFaults = 1
INVARIANTS
  OneActivePerHousehold
  NoLostWakeup
PROPERTIES
  RetentionSparesActive
  EveryBatchFinishes
