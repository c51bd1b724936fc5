\* The listings and the browser's table.
CONSTANTS
    Key <- SomeKeys
    NameOf <- SomeNames
    Plain <- AllPlain
    Rank <- SomeRanks
    ByName <- FoundByName
    ByData <- FoundByData
    Queried <- WithText
    Idn = {}
    Zones <- SomeZones
    Size = 3
    None = None
    Made = Made
    MaxLoads = 2
    MaxClicks = 2
    MaxChanges = 1
    MaxFailures = 1
SPECIFICATION FairSpec
INVARIANTS TypeOK NothingSkipped PageNumberIsRight 
PROPERTIES NothingRepeated LastPageReached
CHECK_DEADLOCK FALSE
