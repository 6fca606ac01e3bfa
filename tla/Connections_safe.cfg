\* One draft, two attempts to connect one account, one message of a folder.
SPECIFICATION PartsSpec
CONSTANTS
    d1 = d1
    d2 = d2
    auto = auto
    moved = moved
    managed = managed
    pop = pop
    Drafts = {d1}
    Configs = {auto, moved}
    FirstConfig = auto
    Incoming <- MCIncoming
    Policy <- MCPolicy
    MaxRevision = 2
    MaxAttempts = 2
    MaxCopies = 1
    MaxCrashes = 1
    MaxFailures = 1
    MaxSetups = 2
    Settings = {1, 2}
    Wanted <- MCWanted
    MaxEvents = 2
    Uids = {1}
    Fields = {"unread", "starred"}
    Arriving <- NoFlag
    Carried <- OneFlagOrNone
    Lanes = {"inline", "slow", "staged"}
    Servers = {"condstore", "qresync"}
    Limit = 9
    MaxModseq = 3
    MaxWrites = 2
    MaxStops = 1
INVARIANTS
    UploadedOnce
    FolderExclusion
    NoUnreviewedResend
    TextIsKept
    MovedMailStaysAway
PROPERTIES
    KeepsPromise
    SecretsMatchTheirUse
    OnServerMeansKept
    ListingsYieldToWrites
    ChecksKeepTheState
CHECK_DEADLOCK FALSE
