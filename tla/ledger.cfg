SPECIFICATION Spec
CONSTANTS
  Item <- mcItem
  Runs <- mcRuns
  Edited <- mcEdited
  Tabs = {ta, tb}
  PwaReceipts = {"r"}
  MaxBatches = 2
  MaxVaults = 2
  MaxAmount = 2
  MinEntries = 2
  MaxEntries = 3
  DraftLimit = 4
  Ids = {1, 2, 3}
  Amounts = {0, 1, 2}
  Headers <- mcHeaders
  Versions = {"device", "backup", "foreign"}
  Fresh = "device"
  KeyOf <- mcKeyOf
  None = None
  Partial = Partial
  PendingKeyMayVanish = TRUE
  Entities = {e, g}
  MaxLocalEdits = 3
  MaxRelayFaults = 3
INVARIANTS
  LedgerTypes
  
  ProjectionsOfEvents
  AcceptsExactlyBalanced
  OrderIrrelevant
  OpensWholeData
  NothingLost
  SwapNeverRefused
  UnsentStaysPending
CHECK_DEADLOCK FALSE
