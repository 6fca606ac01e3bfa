SPECIFICATION Spec
CONSTANTS
    inbox = inbox
    archive = archive
    other = other
    work = work
    play = play
    Folders = {inbox, archive, other}
    Account <- MCAccount
    Home = inbox
    Late = {}
    Partial = FALSE
    MaxUid = 3
    MaxMoves = 1
INVARIANTS
    LocalIsUnapplied
CHECK_DEADLOCK FALSE
