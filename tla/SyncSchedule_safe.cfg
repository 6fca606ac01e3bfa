\* Two accounts, two clicks, accounts that are removed and added again.
CONSTANTS
  a = a
  b = b
  Accounts = {a, b}
  Backgrounds = {TRUE, FALSE}
  MaxClicks = 2
  MaxChanges = 2
SPECIFICATION FairSpec
PROPERTIES
  ChangesAreFollowed
  RefreshMeansChecked
  RefreshEnds
CHECK_DEADLOCK FALSE
