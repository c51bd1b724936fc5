CONSTANTS
    n = n
    apex = apex
    NS = NS
    A = A
    CNAME = CNAME
    r1 = r1
    r2 = r2
    Name = {n, apex}
    Type = {A, CNAME, NS}
    Record = {r1, r2}
    Records <- SomeRecords
    Protected <- ApexNs
    Request = {q1}
    PTR = A
    Batches <- SomeBatches
    Scripts <- SomeScripts
    IpLists <- Lists
    FirstSerial = 6
    Half = 4
    MaxSerial = 4
    Start <- AnAddress
SPECIFICATION Spec
INVARIANT TypeOK
PROPERTIES
    NoLostUpdate
    EditIsEffect
    DraftKeepsMeaning
    ExistingPtrKept
    RollbackRestores
