SPECIFICATION Spec
CONSTANTS
  Messages = {m}
  MaxRecords = 2
  MaxGmailFaults = 1
  MaxInboxAttempts = 2
  Images = {p}
  MaxCaptures = 2
  RelayPage = 1
  MaxMobileFaults = 1
  MaxLedgerEdits = 2
  MaxRecipientChanges = 1
  MaxSendFaults = 2
  Installations = {"a", "b"}
  Entities = {e}
  MaxEdits = 3
  MaxRevision = 2
INVARIANTS
  ExchangeTypes
  
  PromotedHasDocument
  NothingSkipped
  DeliveredAsSent
PROPERTIES
  NoUndecidedOverwrite
CHECK_DEADLOCK FALSE
