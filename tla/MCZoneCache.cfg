CONSTANTS
    z1 = z1
    z2 = z2
    a = a
    b = b
    None = None
    Loop = Loop
    Zone = {z1}
    Record = {a, b}
    Notified = {z1}
    Listings = {}
    PreferIxfr = TRUE
    MaxSize = 0
    MaxDrift = 0
    Start <- OneThere
    MaxSerial <- TwoChanges
SPECIFICATION FairSpec
INVARIANTS
    TypeOK
    Recoverable
PROPERTIES
    CatchesUp

