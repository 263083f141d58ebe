SPECIFICATION ReceiveSpec
CONSTANTS
  MaxPublications = 2
  PublicationPage = 1
  MaxReceiveFaults = 0
INVARIANT RejectedIsStale
CHECK_DEADLOCK FALSE
