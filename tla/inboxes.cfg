SPECIFICATION Spec
CONSTANTS
  Files = {f}
  Folders = {}
  MaxGeneration = 2
  MaxAttempts = 2
  MaxDriveEvents = 3
  Versions = {1, 2}
  MaxEvents = 1
  MaxRegistrations = 1
  MaxAttemptsOnDisk = 1
  MaxPublications = 2
  PublicationPage = 1
  MaxReceiveFaults = 1
INVARIANTS
  InboxTypes
  PendingIsCurrent
  StagedWithItsBytes
  NothingUnregistered
PROPERTIES
  LeasesComeBack
  DiscoveryCatchesUp
  NeverAppliesOlder
CHECK_DEADLOCK FALSE
