\* A native Worker object has no taskId until the pool assigns one.
CONSTANTS
    Batches = {b1}
    BatchSize = 2
    Concurrency = 2
    Null = Null
    FreshTaskId = Undefined
    MaxCrashes = 0
SPECIFICATION FairSpec
PROPERTIES
    EveryFileSettles
CHECK_DEADLOCK FALSE
