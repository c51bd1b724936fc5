\* Everything may go wrong: executions outlast their leases, instances race on
\* stale rows, others write to the zone.
CONSTANTS
    c1 = c1
    c2 = c2
    k1 = k1
    k2 = k2
    r1 = r1
    r2 = r2
    Change = {c1}
    Key = {k1}
    Record = {r1}
    Target <- OneTarget
    Worker = {w1}
    Request = {q1}
    Faults = {"crash", "lost_response", "store_error", "stale_cache",
              "slow", "shared_db", "external"}
    Op <- Operation
    Snapshot <- RRset
    NoSnapshot = NoSnapshot
    None = None
    Keep = Keep
    MaxAttempts = 2
    RetryBackoff = 1
    LeaseTTL = 0
    ExpiryWindow = 2
    PurgeStatuses <- AllPurgeable
    ScheduleTimes = {0}
    OpChoice <- AddOp
    MaxTime = 1
    AttemptBound = 2
SPECIFICATION SchedulerSpec
INVARIANT AppliedWasDelivered
