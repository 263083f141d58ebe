SPECIFICATION DriveSpec
CONSTANTS
  Files = {f}
  Folders = {}
  MaxGeneration = 2
  MaxAttempts = 2
  MaxDriveEvents = 3
PROPERTY RemovalIsStored
CHECK_DEADLOCK FALSE
