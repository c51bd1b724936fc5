\* One loop, two changes, crashes; the clock runs to 2, a lease ends when it is
\* not renewed within a clock value.
CONSTANTS
    c1 = c1
    c2 = c2
    k1 = k1
    k2 = k2
    r1 = r1
    r2 = r2
    Change = {c1, c2}
    Key = {k1, k2}
    Record = {r1}
    Target <- OwnTarget
    Worker = {w1}
    Request = {}
    Faults = {"crash"}
    Op <- Operation
    Snapshot <- RRset
    NoSnapshot = NoSnapshot
    None = None
    Keep = Keep
    MaxAttempts = 2
    RetryBackoff = 1
    LeaseTTL = 0
    ExpiryWindow = 1
    PurgeStatuses = {}
    ScheduleTimes = {0, 1}
    OpChoice <- AddOp
    MaxTime = 2
    AttemptBound = 2
SPECIFICATION FairSpec
PROPERTIES DueIsTaken RunningIsReleased
