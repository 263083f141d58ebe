SPECIFICATION LinkSpec
CONSTANTS
  Item <- mcItem
  Runs <- mcRuns
  Edited <- mcEdited
INVARIANT ReceiptLinksRestorable
CHECK_DEADLOCK FALSE
