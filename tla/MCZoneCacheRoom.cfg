CONSTANTS
    z1 = z1
    z2 = z2
    a = a
    b = b
    None = None
    Loop = Loop
    Zone = {z1, z2}
    Record = {a, b}
    Notified = {}
    Listings = {{z1}, {z1, z2}}
    PreferIxfr = TRUE
    MaxSize = 3
    MaxDrift = 5
    Start <- AnyStart
    MaxSerial <- OneChange
SPECIFICATION Spec
PROPERTIES
    BooksKept
SYMMETRY Symmetry
