\* Two loops (a restart may overtake a poll), two contents, one webhook retry,
\* two samples, a restart and two crashes.
CONSTANTS
    Loops = {l1, l2}
    Bodies = {v1, v2}
    WebhookAttempts = 2
    BaseBackoff = 1
    MaxBackoff = 3
    MaxSamples = 2
    MaxStarts = 2
    MaxCrashes = 2
    None = None
    Torn = Torn
SPECIFICATION FairSpec
INVARIANTS
    TypeOK
    RunningMeansLooping
    OneLoop
PROPERTIES
    NoSilentChange
    HistoryNeverShrinks
    StopQuiesces
CHECK_DEADLOCK FALSE
