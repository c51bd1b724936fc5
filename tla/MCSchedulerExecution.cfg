\* One loop and one request at one change, nothing goes wrong: every
\* operation, with and without automatic prerequisites.
CONSTANTS
    c1 = c1
    c2 = c2
    k1 = k1
    k2 = k2
    r1 = r1
    r2 = r2
    Change = {c1}
    Key = {k1}
    Record = {r1, r2}
    Target <- OneTarget
    Worker = {w1}
    Request = {q1}
    Faults = {}
    Op <- Operation
    Snapshot <- RRset
    NoSnapshot = NoSnapshot
    None = None
    Keep = Keep
    MaxAttempts = 2
    RetryBackoff = 1
    LeaseTTL = 1
    ExpiryWindow = 2
    PurgeStatuses <- AllPurgeable
    ScheduleTimes = {0, 1}
    OpChoice <- AllOps
    MaxTime = 2
    AttemptBound = 3
SPECIFICATION SchedulerSpec
INVARIANTS SchedulerTypeOK EffectIsReported SnapshotIsPriorState RevertRestores
