\* Two files; saves bring new contents only, one duplicate event, one failing
\* call of the file system.
CONSTANTS
    Files = {f1, f2}
    Contents = {0, 1, 2}
    HasNetwork = TRUE
    Returns = FALSE
    MaxSaves = 2
    MaxDuplicates = 1
    MaxErrors = 1
    None = None
SPECIFICATION FairSpec
INVARIANTS
    TypeOK
    NothingStranded
    LocalFirst
PROPERTIES
    ClosedQueuesNothing
    Converges
CHECK_DEADLOCK FALSE
