\* One message and its decisions, three works in two queues, two devices that
\* share one preference.
CONSTANTS
  Messages = {1}
  Account <- AccountOf
  Decisions <- DecisionSets
  MaxJobs = 2
  MaxUndos = 2
  MaxCrashes = 1
  Foreign = {"unread"}
  Vanishing = {1}
  Works = {1, 2, 3}
  Queue <- MCQueue
  JobOf <- MCJob
  Holds <- MCHolds
  Before <- MCBefore
  Queues = 2
  Mail = 0
  Calendar = 1
  PageSize = 1
  Capacity = 1
  Failing = {}
  MaxTroubles = 1
  Devices = {1, 2}
  Settings = {1}
  SettingValues = {0, 1}
  Initial = 0
  MaxEdits = 2
  MaxReviews = 1
  MaxInterrupts = 1
  MaxBusy = 1
SPECIFICATION PartsSpec
INVARIANTS
  HistoryIsTrue
  NewestDecisionStands
  VersionsAreNewest
  SettledMeansShared
PROPERTIES
  NothingIsOverwritten
  AcknowledgedReachesCache
  WorkEnds
  WorkIsDone
CHECK_DEADLOCK FALSE
