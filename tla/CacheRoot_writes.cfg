CONSTANTS
  Processes = {1, 2}
  MaxSaves = 2
  MaxFaults = 0
SPECIFICATION CacheSpec
INVARIANTS
  NoWriteIsLost
CHECK_DEADLOCK FALSE
