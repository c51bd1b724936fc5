CONSTANTS
    e1 = e1
    e2 = e2
    e3 = e3
    Nothing = Nothing
    Event = {e1, e2, e3}
    Scheduled = {e3}
    Target = {1, 2}
    Matches <- SomeMatches
    Autorecord = TRUE
    QueueSize = 2
    MaxAttempts = 2
    MaxFaults = 2
SPECIFICATION FairSpec
INVARIANTS TypeOK LinkResolves InOrder Drained
PROPERTY QueuedIsHandled
CHECK_DEADLOCK FALSE
