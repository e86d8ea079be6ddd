\* Three callers: one trips the breaker, one is in flight, one arrives.  Two
\* failures trip it, one retry of each kind.  No symmetry, for the liveness.
CONSTANTS
    Callers = {c1, c2, c3}
    FailureThreshold = 2
    ResetAfter = 2
    MaxRetry429 = 1
    MaxRetry5xx = 1
    MaxRetryDelay = 1
    RetryAfter = {1}
SPECIFICATION FairSpec
INVARIANTS TypeOK BreakerConsistent FailuresBounded
PROPERTIES OpenAdmitsNobody RecoversEventually CallReturns
