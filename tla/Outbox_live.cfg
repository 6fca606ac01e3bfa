SPECIFICATION FairSpec
CONSTANTS
    d1 = d1
    d2 = d2
    auto = auto
    moved = moved
    managed = managed
    pop = pop
    Drafts = {d1}
    Configs = {auto, managed}
    FirstConfig = auto
    Incoming <- MCIncoming
    Policy <- MCPolicy
    MaxRevision = 1
    MaxAttempts = 2
    MaxCopies = 0
    MaxCrashes = 2
    MaxFailures = 1
PROPERTIES
    WaitingIsResolved
    RestartRepairs
CHECK_DEADLOCK FALSE
