SPECIFICATION Spec
CONSTANTS
    www = www
    v1 = v1
    nullmx = nullmx
    ns1 = ns1
    ns2 = ns2
    t1 = t1
    NoZone = NoZone
    NoTx = NoTx
    Apex = "@"
    Owners <- MCOwners
    Values <- MCValues
    NullMx = nullmx
    NameServers = {ns1, ns2}
    Ttls = {1, 2}
    Timers = {t1}
    MaxSerial = 4
    Headroom = 2
    Requests <- MCRequests
    Batches <- MCBatches
    MaxOps = 2
INVARIANTS
    VersionsConsistent
    OpenUpdateConsistent
    RollbackNeverRefused
    ReconstructionExact
    DiffExact
PROPERTIES
    RollbackRestores
    PreviewsHold
    ImplementsVersionedZone
