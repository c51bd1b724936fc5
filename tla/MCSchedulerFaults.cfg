\* Two loops and a request contend for one change; processes crash, answers are
\* lost, the store fails and the cache is stale.
CONSTANTS
    c1 = c1
    c2 = c2
    k1 = k1
    k2 = k2
    r1 = r1
    r2 = r2
    Change = {c1}
    Key = {k1}
    Record = {r1}
    Target <- OneTarget
    Worker = {w1, w2}
    Request = {q1}
    Faults = {"crash", "lost_response", "store_error", "stale_cache"}
    Op <- Operation
    Snapshot <- RRset
    NoSnapshot = NoSnapshot
    None = None
    Keep = Keep
    MaxAttempts = 2
    RetryBackoff = 1
    LeaseTTL = 1
    ExpiryWindow = 2
    PurgeStatuses <- AllPurgeable
    ScheduleTimes = {0}
    OpChoice <- ReplaceOp
    MaxTime = 4
    AttemptBound = 3
SPECIFICATION SchedulerSpec
INVARIANTS MutualExclusion ExecutionHoldsLease
PROPERTIES FinalStaysFinal Implements
