CONSTANTS
  Processes = {1, 2}
  MaxSaves = 2
  MaxFaults = 1
SPECIFICATION CacheSpec
INVARIANTS
  RecoveredBeforeOpening
CHECK_DEADLOCK FALSE
