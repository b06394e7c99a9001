\* Two batches of three files over two workers that crash up to three times,
\* with workers that come up idle (taskId null), as the pool's tests have them.
CONSTANTS
    Batches = {b1, b2}
    BatchSize = 3
    Concurrency = 2
    Null = Null
    FreshTaskId = Null
    MaxCrashes = 3
SPECIFICATION FairSpec
INVARIANTS
    TypeOK
    FilesConserved
    NoIdleWhileQueued
    ProgressHonest
PROPERTIES
    FilesSettle
CHECK_DEADLOCK FALSE
