SPECIFICATION RestoreSpec
CONSTANTS
  Versions = {"device", "backup", "foreign"}
  Fresh = "device"
  KeyOf <- mcKeyOf
  None = None
  Partial = Partial
  PendingKeyMayVanish = FALSE
INVARIANTS
  RestartSafe
