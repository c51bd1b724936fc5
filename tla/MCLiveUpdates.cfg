CONSTANTS
    z1 = z1
    s1 = s1
    s2 = s2
    s3 = s3
    i1 = i1
    i2 = i2
    All = All
    NotCached = NotCached
    Zone = {z1}
    Socket = {s1, s2, s3}
    Wants <- Wanted
    IpOf <- Addresses
    MaxConnections = 2
    MaxPerIp = 1
    MaxVersion = 2
    Budgets <- SomeBudgets
SPECIFICATION FairSpec
INVARIANTS TypeOK NothingMissed
PROPERTY NotifiedIsTold
CHECK_DEADLOCK FALSE
