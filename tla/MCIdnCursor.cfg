\* A name of the zone is internationalised: it begins with xn--.
CONSTANTS
    Key <- SomeKeys
    NameOf <- SomeNames
    Plain <- AllPlain
    Rank <- SomeRanks
    ByName <- FoundByName
    ByData <- FoundByData
    Queried <- WithText
    Idn = {3}
    Zones <- SomeZones
    Size = 3
    None = None
    Made = Made
    MaxLoads = 2
    MaxClicks = 2
    MaxChanges = 0
    MaxFailures = 0
SPECIFICATION Spec
INVARIANT NothingSkipped
CHECK_DEADLOCK FALSE
