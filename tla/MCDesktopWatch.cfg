\* Two folders, a nested file and a deep one; two changes of the disk, two commands, and a
\* single notice before they collapse into a summary.
CONSTANTS
    Folders = {"a", "b"}
    Files <- TwoFolders
    Nested <- NestedFiles
    Deep <- DeepFile
    Supported = TRUE
    MaxErrors = 1
    MaxNotifications = 1
    MaxSaves = 2
    MaxCommands = 2
    Absent = Absent
    Unreadable = Unreadable
    None = None
SPECIFICATION FairSpec
INVARIANTS
    TypeOK
    StaysInFolder
    BrokenIsTold
PROPERTIES
    Converges
CHECK_DEADLOCK FALSE
