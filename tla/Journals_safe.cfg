\* Two moves of one message, a transfer and a restore beside a download, a
\* change of a folder with two below it and the creation of one of these, two
\* changes of one event, two processes that open one cache.
CONSTANTS
  move = move
  restore = restore
  sync = sync
  Tasks = {move, restore, sync}
  Accounts = {1, 2}
  Kind <- MCKind
  Needs <- MCNeeds
  QueueLimit = 2
  ChannelLimit = 1
  MaxTickets = 3
  inbox = inbox
  archive = archive
  other = other
  work = work
  play = play
  Folders = {inbox, archive, other}
  Account <- MCAccount
  Home = inbox
  Late = {"append"}
  Partial = TRUE
  MaxUid = 4
  MaxMoves = 2
  Contents = {1, 2}
  Theirs = 9
  MaxChanges = 2
  OpenChanges = 2
  Attempts = 2
  MaxForeign = 1
  MaxMishaps = 1
  MaxStops = 1
  Processes = {1, 2}
  MaxSaves = 2
  MaxFaults = 3
  Leaves = {1, 2, 3}
  Made = 2
  MaxReviews = 1
  MaxRequests = 1
  MaxOthers = 1
  MaxFolderStops = 1
SPECIFICATION PartsSpec
INVARIANTS
  TypesOK
  Exclusion
  ExclusiveIsHeard
  OriginalIsKept
  SourceIsGone
  OneCopyPerMove
  ChangedOnce
  SettledIsShown
  OwnChangesNeverCollide
  CacheIsWhole
  FolderReportsAreTrue
PROPERTIES
  GrantedInOrder
  CacheFollowsServers
  MailFollowsFolders
CHECK_DEADLOCK FALSE
