\* One origin, a breaker one failure trips, no retries: enough for two
\* requests to find the same half-open circuit.
CONSTANTS
    Requests = {r1, r2, r3}
    Origins = {o1}
    MaxAttempts = 1
    FailureThreshold = 1
    ResetAfter = 1
    Timeout = 1
    BaseDelay = 0
    CapDelay = 0
    None = None
SPECIFICATION Spec
INVARIANTS
    OneProbe
CHECK_DEADLOCK FALSE
