\* Two devices that share one setting; a pass that stops once.
CONSTANTS
  Devices = {1, 2}
  Settings = {1}
  SettingValues = {0, 1}
  Initial = 0
  MaxEdits = 3
  MaxReviews = 0
  MaxInterrupts = 1
  MaxBusy = 1
SPECIFICATION ProfileSpec
PROPERTIES
  RecordsDrain
CHECK_DEADLOCK FALSE
