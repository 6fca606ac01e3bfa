\* Two callers of the same two accounts; one move, which a background check
\* settles; a message that is written to beside checks of its folder.
CONSTANTS
  move = move
  restore = restore
  sync = sync
  Tasks = {move, restore}
  Accounts = {1, 2}
  Kind <- MCKind
  Needs <- MCNeeds
  QueueLimit = 2
  ChannelLimit = 1
  MaxTickets = 3
  inbox = inbox
  archive = archive
  other = other
  work = work
  play = play
  Folders = {inbox, archive, other}
  Account <- MCAccount
  Home = inbox
  Late = {}
  Partial = FALSE
  MaxUid = 2
  MaxMoves = 1
SPECIFICATION SettlingSpec
PROPERTIES
  EveryCallerIsAnswered
  PendingIsSettled
  ListingConverges
CHECK_DEADLOCK FALSE
