SPECIFICATION Spec
CONSTANTS
  Files = {f}
  Folders = {d, e}
  MaxGeneration = 2
  MaxAttempts = 2
  MaxLog = 2
  MaxFaults = 1
INVARIANT TypeOK
INVARIANT NothingMissed
INVARIANT NoGhosts
CONSTRAINT Bounded
SYMMETRY Alike
CHECK_DEADLOCK FALSE
