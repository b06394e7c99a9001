\* Two files of one folder, one more than the notices a scan may raise: MAX_NOTIFICATIONS
\* is scaled down from 3 to 1, and the four files that recover at once to two.
CONSTANTS
    Folders = {"a"}
    Files <- OneFolder
    Nested = {}
    Deep = {}
    Supported = TRUE
    MaxErrors = 1
    MaxNotifications = 1
    MaxSaves = 2
    MaxCommands = 2
    Absent = Absent
    Unreadable = Unreadable
    None = None
SPECIFICATION Spec
INVARIANTS
    RecoveryIsTold
CHECK_DEADLOCK FALSE
