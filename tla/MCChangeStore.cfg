\* Two changes, three clock values, two attempts allowed by the configuration
\* and one more through edits and apply-now.
CONSTANTS
    Change = {c1, c2}
    Op = {o1}
    Snapshot = {s1}
    NoSnapshot = NoSnapshot
    None = None
    Keep = Keep
    MaxAttempts = 2
    RetryBackoff = 1
    LeaseTTL = 0
    ExpiryWindow = 1
    PurgeStatuses <- AllPurgeable
    ScheduleTimes = {0}
    OpChoice = {o1}
    MaxTime = 2
    AttemptBound = 3
SPECIFICATION Spec
SYMMETRY Symmetry
INVARIANTS TypeOK LeaseIffRunning ScheduledHasTime FailedIsExhausted NoRetryLeftBehind
