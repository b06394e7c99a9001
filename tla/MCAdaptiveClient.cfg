\* Three overlapping requests, two origins, a retry each, a breaker that two
\* failures trip and that two units of time half-open.
CONSTANTS
    Requests = {r1, r2, r3}
    Origins = {o1, o2}
    MaxAttempts = 2
    FailureThreshold = 2
    ResetAfter = 2
    Timeout = 1
    BaseDelay = 1
    CapDelay = 1
    None = None
SPECIFICATION FairSpec
INVARIANTS
    TypeOK
    BreakerConsistent
    FailuresAreRequests
    VerdictMatchesEvidence
PROPERTIES
    ImplementsBreaker
    RequestsSettle
CHECK_DEADLOCK FALSE
